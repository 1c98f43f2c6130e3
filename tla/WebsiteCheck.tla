---------------------------- MODULE WebsiteCheck ----------------------------
(* check_website (app/checks/website.py): up to four probes, one after the   *)
(* other, and a cache of the process.  The two scoring batches of a job, and *)
(* the batches of other jobs, may ask for one domain at once.  Web servers   *)
(* are external; a probe may fail where a server answers.  The names differ  *)
(* from those of DomainCache: DomainCacheProofs is about both lookups.       *)
EXTENDS Integers

CONSTANTS
  Askers       \* scoring tasks that ask for the domain

VARIABLES
  prefixed,    \* the domain's own name starts with "www."
  serves,      \* what each address serves: "live", "gone" (404, 410) or "none"
  site,        \* the domain's entry in _cache: a status, or "empty"
  probing,     \* probing[c]: the probe the call waits for
  found,       \* found[c]: the local variable `status`
  seen,        \* (history) seen[c]: what the probes of this lookup returned
  missed,      \* (history) missed[c]: a probe of this lookup failed where a server answers
  spoiled      \* (history) the entry was stored by such a lookup

siteVars == <<prefixed, serves, site, probing, found, seen, missed, spoiled>>

Status == {"live", "gone", "none"}
Probes == {"https", "https_www", "http", "http_www"}

SiteInit ==
  /\ prefixed \in BOOLEAN
  /\ serves \in [Probes -> Status]
  /\ site = "empty"
  /\ probing = [c \in Askers |-> "idle"]
  /\ found = [c \in Askers |-> "none"]
  /\ seen = [c \in Askers |-> {}]
  /\ missed = [c \in Askers |-> FALSE]
  /\ spoiled = FALSE

-----------------------------------------------------------------------------
\* A defect: any status line counts.
AnsweredAtAll(st) == st # "none"

Indicates(st) == st = "live"

ProbesNext(c, where) == probing' = [probing EXCEPT ![c] = where]

\* A miss; a hit returns the entry and changes nothing.
Miss(c) ==
  /\ probing[c] = "idle" /\ site = "empty"
  /\ ProbesNext(c, "https")
  /\ found' = [found EXCEPT ![c] = "none"]
  /\ seen' = [seen EXCEPT ![c] = {}]
  /\ missed' = [missed EXCEPT ![c] = FALSE]
  /\ UNCHANGED <<prefixed, serves, site, spoiled>>

\* A defect: the answer for www replaces the first one in any case.
KeptLast(where, old, new) == new

\* What the code keeps of a new answer: the one for www only if it is of use.
Kept(where, old, new) ==
  IF \/ where = "https_www" /\ ~Indicates(new)
     \/ where = "http_www" /\ new = "none"
  THEN old ELSE new

\* The probe after `where` when the call has kept status `st`.
Follows(where, st) ==
  IF where = "https" /\ ~Indicates(st) /\ ~prefixed THEN "https_www"
  ELSE IF where \in {"https", "https_www"} /\ st = "none" THEN "http"
  ELSE IF where = "http" /\ st = "none" /\ ~prefixed THEN "http_www"
  ELSE "store"

Probe(c) ==
  /\ probing[c] \in Probes
  /\ \E answer \in {serves[probing[c]], "none"} :
       LET kept == Kept(probing[c], found[c], answer) IN
       /\ found' = [found EXCEPT ![c] = kept]
       /\ seen' = [seen EXCEPT ![c] = @ \cup {answer}]
       /\ missed' = [missed EXCEPT ![c] = @ \/ answer # serves[probing[c]]]
       /\ ProbesNext(c, Follows(probing[c], kept))
  /\ UNCHANGED <<prefixed, serves, site, spoiled>>

\* The later of two lookups replaces the entry of the earlier one.
StoreSite(c) ==
  /\ probing[c] = "store"
  /\ site' = found[c]
  /\ spoiled' = missed[c]
  /\ ProbesNext(c, "idle")
  /\ UNCHANGED <<prefixed, serves, found, seen, missed>>

\* The entry's 24 hours are over.
Expire ==
  /\ site # "empty"
  /\ site' = "empty"
  /\ spoiled' = FALSE
  /\ UNCHANGED <<prefixed, serves, probing, found, seen, missed>>

SiteNext == Expire \/ \E c \in Askers : Miss(c) \/ Probe(c) \/ StoreSite(c)

SiteSpec == SiteInit /\ [][SiteNext]_siteVars

-----------------------------------------------------------------------------
\* Every variable has a value of its kind.
SiteTypeOK ==
  /\ prefixed \in BOOLEAN
  /\ serves \in [Probes -> Status] /\ site \in Status \cup {"empty"}
  /\ probing \in [Askers -> Probes \cup {"idle", "store"}]
  /\ found \in [Askers -> Status] /\ seen \in [Askers -> SUBSET Status]
  /\ missed \in [Askers -> BOOLEAN] /\ spoiled \in BOOLEAN

\* The statuses that calls may return now.
SiteAnswers == ({site} \ {"empty"}) \cup {found[c] : c \in {x \in Askers : probing[x] = "store"}}

\* Those that rest on probes none of which failed where a server answers.
SoundAnswers ==
  (IF spoiled THEN {} ELSE {site} \ {"empty"})
    \cup {found[c] : c \in {x \in Askers : probing[x] = "store" /\ ~missed[x]}}

\* The rule the comments state (website.py:74, 80): there is a site if HTTPS
\* shows one at the apex or at www, or if neither answers HTTPS and HTTP
\* shows one.
NoHttps == serves["https"] = "none" /\ (prefixed \/ serves["https_www"] = "none")

HasSite ==
  \/ serves["https"] = "live"
  \/ ~prefixed /\ serves["https_www"] = "live"
  \/ /\ NoHttps
     /\ \/ serves["http"] = "live"
        \/ ~prefixed /\ serves["http"] = "none" /\ serves["http_www"] = "live"

\* Where the code and its comment part (see HttpIsLastResort): the apex does
\* not answer HTTPS and www answers 404 or 410.
Disputed == ~prefixed /\ serves["https"] = "none" /\ serves["https_www"] = "gone"

\* website.py:64-95: an answer follows the rule whenever no probe of the lookup
\* it comes from has failed, cached or not and whatever other lookups, before
\* it or beside it, have got wrong: a failed probe spoils the entry its own
\* lookup stores and nothing else.
LadderFollowsRule == ~Disputed => \A a \in SoundAnswers : Indicates(a) = HasSite

\* website.py:80: "Both HTTPS probes returned None (network/TLS failure) - try
\* plain HTTP": when HTTP is tried, nothing has answered HTTPS.
HttpIsLastResort == \A c \in Askers : probing[c] = "http" => seen[c] = {"none"}

\* A failed probe can hide a site and never invent one, and a site that a
\* lookup has seen is not lost to a later probe of the same lookup.
SeenSiteCounts ==
  /\ \A a \in SiteAnswers : Indicates(a) => \E p \in Probes : serves[p] = "live"
  /\ \A c \in Askers : probing[c] = "store" /\ "live" \in seen[c] => Indicates(found[c])
=============================================================================
