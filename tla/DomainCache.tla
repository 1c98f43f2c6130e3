----------------------------- MODULE DomainCache -----------------------------
(* check_domain (app/checks/dns.py) and check_whois (app/checks/whois.py):   *)
(* two caches of the process with a 24-hour life, one filled from the other. *)
(* A lookup is a chain of awaited queries, and jobs, each in its own thread, *)
(* may look the same domain up at once.  Resolver and whois servers are      *)
(* external: any query may fail, which the code takes for "not there".       *)
EXTENDS Integers, Sequences

CONSTANTS
  Callers,      \* coroutines that call check_domain or check_whois
  Domains,
  Zones,        \* what there may be to find: a set of functions of Fields
  Flaky,        \* bound: the queries that may fail
  TTL,          \* cacheTtlMs, of both caches
  LookupTime,   \* bound: the time one call may take, all queries together
  MaxTime       \* bound: the clock stops here

\* What a lookup asks for.  "ip" is the address of the first MX host.
Fields == {"mx", "a", "spf", "dmarc", "dkim", "dbl", "ip", "listed", "whois"}
Findings == [Fields -> BOOLEAN]

ASSUME ZonesAssumption == Zones \subseteq Findings /\ Flaky \subseteq Fields
ASSUME TimesAssumption == TTL \in Nat \ {0} /\ LookupTime \in Nat /\ MaxTime \in Nat

VARIABLES
  now,
  zone,         \* zone[d]: what the domain really has
  cache,        \* _cache of dns.py
  whoisCache,   \* _CACHE of whois.py
  pc,           \* pc[c]: the await the call is in
  domain,       \* domain[c]: the domain of the call
  whoisOnly,    \* whoisOnly[c]: the call is check_whois
  began,        \* began[c]: when the call began
  draft         \* draft[c]: the local variables of the lookup

vars == <<now, zone, cache, whoisCache, pc, domain, whoisOnly, began, draft>>

Nothing == [f \in Fields |-> FALSE]

\* A result: what was found, which queries failed, the oldest moment the zone
\* was looked at, that of whois, and cached_at.  `failed`, seenAt and whoisAt
\* are history.  An entry of whoisCache uses "whois" and whoisAt alone.
Entry == [found : Findings, failed : SUBSET Fields, seenAt : Int, whoisAt : Int, cachedAt : Int]
NoEntry == [found |-> Nothing, failed |-> {}, seenAt |-> 0, whoisAt |-> 0, cachedAt |-> -TTL]

Init ==
  /\ now = 0
  /\ zone \in [Domains -> Zones]
  /\ cache = [d \in Domains |-> NoEntry]
  /\ whoisCache = [d \in Domains |-> NoEntry]
  /\ pc = [c \in Callers |-> "idle"]
  /\ domain \in [Callers -> Domains]
  /\ whoisOnly = [c \in Callers |-> FALSE]
  /\ began = [c \in Callers |-> 0]
  /\ draft = [c \in Callers |-> NoEntry]

-----------------------------------------------------------------------------
\* A defect: the two lifetimes are added.
FreshTwice(e) == now - e.cachedAt < 2 * TTL

Fresh(e) == now - e.cachedAt < TTL

Idle(c) == pc[c] = "idle"
Goto(c, where) == pc' = [pc EXCEPT ![c] = where]

Call(c, d, only) ==
  /\ domain' = [domain EXCEPT ![c] = d]
  /\ whoisOnly' = [whoisOnly EXCEPT ![c] = only]
  /\ began' = [began EXCEPT ![c] = now]
  /\ draft' = [draft EXCEPT ![c] = [NoEntry EXCEPT !.seenAt = now, !.whoisAt = now]]

\* A call that misses.  A hit returns at once and changes nothing: what it
\* returns is in Answers, below.
CheckDomain(c) ==
  /\ Idle(c)
  /\ \E d \in Domains : ~Fresh(cache[d]) /\ Call(c, d, FALSE)
  /\ Goto(c, "mx")
  /\ UNCHANGED <<now, zone, cache, whoisCache>>

\* Stage 4 asks for the whois data alone (_safe_whois).
CheckWhois(c) ==
  /\ Idle(c)
  /\ \E d \in Domains : Call(c, d, TRUE)
  /\ Goto(c, "whois")
  /\ UNCHANGED <<now, zone, cache, whoisCache>>

\* The order of the queries; "text" stands for SPF, DMARC, DKIM and the block
\* list of domains, none of which depends on another.
After == [mx |-> "a", a |-> "text", text |-> "ip", ip |-> "listed", listed |-> "whois"]
Queried(where) == IF where = "text" THEN {"spf", "dmarc", "dkim", "dbl"} ELSE {where}

\* The queries the code makes only on the strength of earlier answers.
Needed(where, found) == CASE where = "a" -> ~found["mx"]
                          [] where = "ip" -> found["mx"]
                          [] where = "listed" -> found["ip"]
                          [] OTHER -> TRUE

\* A defect: after a failed query the others are given up.
LookGivesUp(d, e, where, lost) ==
  [e EXCEPT !.found = [f \in Fields |-> IF f \in Queried(where) /\ e.failed = {}
                                        THEN zone[d][f] /\ f \notin lost ELSE e.found[f]],
            !.failed = IF e.failed = {} THEN lost ELSE e.failed]

\* Each query finds what there is, or fails and leaves the default.
Look(d, e, where, lost) ==
  [e EXCEPT !.found = [f \in Fields |-> IF f \in Queried(where) THEN zone[d][f] /\ f \notin lost
                                                                ELSE e.found[f]],
            !.failed = e.failed \cup lost]

Query(c) ==
  /\ pc[c] \in DOMAIN After
  /\ IF Needed(pc[c], draft[c].found)
     THEN \E lost \in SUBSET (Queried(pc[c]) \cap Flaky) :
            draft' = [draft EXCEPT ![c] = Look(domain[c], @, pc[c], lost)]
     ELSE UNCHANGED draft
  /\ Goto(c, After[pc[c]])
  /\ UNCHANGED <<now, zone, cache, whoisCache, domain, whoisOnly, began>>

\* A defect: a hit renews the entry.
WhoisHitRenews(c) ==
  /\ pc[c] = "whois" /\ Fresh(whoisCache[domain[c]])
  /\ LET w == whoisCache[domain[c]] IN
       /\ draft' = [draft EXCEPT ![c].found["whois"] = w.found["whois"],
                                 ![c].failed = @ \cup w.failed, ![c].whoisAt = w.whoisAt]
       /\ whoisCache' = [whoisCache EXCEPT ![domain[c]].cachedAt = now]
  /\ Goto(c, "store")
  /\ UNCHANGED <<now, zone, cache, domain, whoisOnly, began>>

WhoisHit(c) ==
  /\ pc[c] = "whois" /\ Fresh(whoisCache[domain[c]])
  /\ LET w == whoisCache[domain[c]] IN
       draft' = [draft EXCEPT ![c].found["whois"] = w.found["whois"],
                              ![c].failed = @ \cup w.failed, ![c].whoisAt = w.whoisAt]
  /\ Goto(c, "store")
  /\ UNCHANGED <<now, zone, cache, whoisCache, domain, whoisOnly, began>>

WhoisMiss(c) ==
  /\ pc[c] = "whois" /\ ~Fresh(whoisCache[domain[c]])
  /\ Goto(c, "lookup")
  /\ UNCHANGED <<now, zone, cache, whoisCache, domain, whoisOnly, began, draft>>

\* The answer of the whois server, or a failure: cached alike.
WhoisAnswers(c) ==
  /\ pc[c] = "lookup"
  /\ \E lost \in SUBSET ({"whois"} \cap Flaky) :
       /\ draft' = [draft EXCEPT ![c] = [Look(domain[c], @, "whois", lost) EXCEPT !.whoisAt = began[c]]]
       /\ whoisCache' = [whoisCache EXCEPT ![domain[c]] =
            [Look(domain[c], NoEntry, "whois", lost) EXCEPT !.whoisAt = began[c], !.seenAt = began[c],
                                                            !.cachedAt = now]]
  /\ Goto(c, "store")
  /\ UNCHANGED <<now, zone, cache, domain, whoisOnly, began>>

\* check_domain returns; the caller of check_whois alone just gets its part.
Store(c) ==
  /\ pc[c] = "store"
  /\ IF whoisOnly[c] THEN UNCHANGED cache
     ELSE cache' = [cache EXCEPT ![domain[c]] = [draft[c] EXCEPT !.cachedAt = now]]
  /\ draft' = [draft EXCEPT ![c] = NoEntry]
  /\ whoisOnly' = [whoisOnly EXCEPT ![c] = FALSE]
  /\ began' = [began EXCEPT ![c] = 0]
  /\ Goto(c, "idle")
  /\ UNCHANGED <<now, zone, whoisCache, domain>>

\* Time passes; the timeouts of the queries bound every call.
Tick ==
  /\ now < MaxTime
  /\ \A c \in Callers : Idle(c) \/ now - began[c] < LookupTime
  /\ now' = now + 1
  /\ UNCHANGED <<zone, cache, whoisCache, pc, domain, whoisOnly, began, draft>>

Step(c) == \/ CheckDomain(c) \/ CheckWhois(c) \/ Query(c)
           \/ WhoisHit(c) \/ WhoisMiss(c) \/ WhoisAnswers(c) \/ Store(c)

Next == Tick \/ \E c \in Callers : Step(c)

Spec == Init /\ [][Next]_vars

-----------------------------------------------------------------------------
(* Properties.                                                               *)

\* Every variable has a value of its kind.
TypeOK ==
  /\ now \in 0 .. MaxTime
  /\ zone \in [Domains -> Zones]
  /\ cache \in [Domains -> Entry] /\ whoisCache \in [Domains -> Entry]
  /\ pc \in [Callers -> DOMAIN After \cup {"idle", "whois", "lookup", "store"}]
  /\ domain \in [Callers -> Domains] /\ whoisOnly \in [Callers -> BOOLEAN]
  /\ began \in [Callers -> 0 .. MaxTime]
  /\ draft \in [Callers -> Entry]

\* What a call of check_domain may return now: a fresh entry, or the result
\* of a lookup of its own that is over.
Looked(c, d) == pc[c] = "store" /\ ~whoisOnly[c] /\ domain[c] = d
Answers(d) == {e \in {cache[d]} : Fresh(e)} \cup {draft[c] : c \in {x \in Callers : Looked(x, d)}}

\* dns.py:102-104: whatever the interleaving of the lookups that fill the
\* cache, an answer rests on queries no older than a day and one lookup.
AnswerAgeBounded ==
  \A d \in Domains : \A e \in Answers(d) : now - e.seenAt < TTL + LookupTime

\* whois.py:78-91: the whois part of it has passed through two caches, so it
\* may be two days old, and no older.
WhoisAgeBounded ==
  \A d \in Domains : \A e \in Answers(d) : now - e.whoisAt < 2 * (TTL + LookupTime) - 1

\* Nothing is found that is not there, and a domain is told to have neither
\* mail server nor address, which condemns all its addresses, only if that is
\* so or the query for it failed within the lifetime of the answer.
AnswerHasCause ==
  \A d \in Domains : \A e \in Answers(d) :
    /\ \A f \in Fields : e.found[f] => zone[d][f]
    /\ ~e.found["mx"] /\ ~e.found["a"] =>
         \A f \in {"mx", "a"} : zone[d][f] => f \in e.failed

\* scoring_core.py:64: "no_mx_record: domain has no mail server".
CondemnedHasNoServer ==
  \A d \in Domains : \A e \in Answers(d) : ~e.found["mx"] /\ ~e.found["a"] => ~zone[d]["mx"]
=============================================================================
