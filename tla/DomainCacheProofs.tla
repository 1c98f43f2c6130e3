-------------------------- MODULE DomainCacheProofs --------------------------
(* How old an answer of check_domain may be, and why it may say "no mail     *)
(* server": proofs for every lifetime, every number of callers and domains   *)
(* and every set of queries that may fail.  And of the other lookup with a   *)
(* cache, check_website: its answer is that of one rule, for any number of   *)
(* lookups at once.                                                          *)
EXTENDS DomainCache, WebsiteCheck, TLAPS

Places == {"idle", "mx", "a", "text", "ip", "listed", "whois", "lookup", "store"}

\* The queries, and what follows on each of them.
LEMMA AfterDomain == DOMAIN After = {"mx", "a", "text", "ip", "listed"}
BY DEF After

\* The place after a query is a place of a call.
LEMMA AfterPlaces == \A where \in DOMAIN After : After[where] \in Places
BY DEF After, Places

\* A query returns a well-formed result whose times are those of its input.
LEMMA LookType ==
  ASSUME NEW d \in Domains, zone \in [Domains -> Zones],
         NEW e \in Entry, NEW where, NEW lost \in SUBSET Fields
  PROVE  /\ Look(d, e, where, lost) \in Entry
         /\ Look(d, e, where, lost).seenAt = e.seenAt
         /\ Look(d, e, where, lost).whoisAt = e.whoisAt
         /\ Look(d, e, where, lost).cachedAt = e.cachedAt
<1> DEFINE F == [f \in Fields |-> IF f \in Queried(where) THEN zone[d][f] /\ f \notin lost
                                                          ELSE e.found[f]]
<1>1. zone[d] \in Findings
  BY ZonesAssumption
<1>2. e.found \in Findings /\ e.failed \in SUBSET Fields
  BY DEF Entry
<1>3. F \in Findings
  BY <1>1, <1>2, Zenon DEF Findings
<1>4. Look(d, e, where, lost) = [e EXCEPT !.found = F, !.failed = e.failed \cup lost]
  BY DEF Look
<1> HIDE DEF F
<1> QED
  BY <1>2, <1>3, <1>4 DEF Entry

\* The entry that stands for none is well-formed and knows nothing.
LEMMA NoEntryType == NoEntry \in Entry /\ NoEntry.failed = {} /\ NoEntry.found = Nothing
BY TimesAssumption DEF NoEntry, Entry, Nothing, Findings

-----------------------------------------------------------------------------
(* What a step does to the call in progress.                                 *)

\* A call begins: its draft knows nothing and dates from now.
LEMMA CallEffect ==
  ASSUME TypeOK, NEW c \in Callers, NEW d \in Domains, NEW only \in BOOLEAN, Call(c, d, only)
  PROVE  /\ domain' \in [Callers -> Domains] /\ whoisOnly' \in [Callers -> BOOLEAN]
         /\ began' \in [Callers -> 0 .. MaxTime] /\ draft' \in [Callers -> Entry]
         /\ began'[c] = now
         /\ draft'[c].seenAt = now /\ draft'[c].whoisAt = now
         /\ draft'[c].found = Nothing /\ draft'[c].failed = {}
         /\ \A x \in Callers \ {c} : began'[x] = began[x] /\ draft'[x] = draft[x]
                                     /\ domain'[x] = domain[x] /\ whoisOnly'[x] = whoisOnly[x]
<1> DEFINE E == [NoEntry EXCEPT !.seenAt = now, !.whoisAt = now]
<1>1. now \in 0 .. MaxTime /\ now \in Int
  BY TimesAssumption DEF TypeOK
<1>2. /\ E \in Entry /\ E.seenAt = now /\ E.whoisAt = now
      /\ E.found = NoEntry.found /\ E.failed = NoEntry.failed
  BY <1>1, NoEntryType DEF Entry
<1> HIDE DEF E
<1>3. draft' = [draft EXCEPT ![c] = E]
  BY DEF Call, E
<1> QED
  BY <1>1, <1>2, <1>3, NoEntryType DEF Call, TypeOK

\* A query changes the findings of its own call and none of its times.
LEMMA QueryEffect ==
  ASSUME TypeOK, NEW c \in Callers, Query(c)
  PROVE  /\ draft' \in [Callers -> Entry]
         /\ draft'[c].seenAt = draft[c].seenAt /\ draft'[c].whoisAt = draft[c].whoisAt
         /\ \A x \in Callers \ {c} : draft'[x] = draft[x]
<1>1. CASE ~Needed(pc[c], draft[c].found)
  BY <1>1 DEF Query, TypeOK
<1>2. CASE Needed(pc[c], draft[c].found)
  <2>1. PICK lost \in SUBSET (Queried(pc[c]) \cap Flaky) :
          draft' = [draft EXCEPT ![c] = Look(domain[c], draft[c], pc[c], lost)]
    BY <1>2 DEF Query, TypeOK
  <2>2. /\ Look(domain[c], draft[c], pc[c], lost) \in Entry
        /\ Look(domain[c], draft[c], pc[c], lost).seenAt = draft[c].seenAt
        /\ Look(domain[c], draft[c], pc[c], lost).whoisAt = draft[c].whoisAt
    <3>1. lost \in SUBSET Fields
      BY <2>1, ZonesAssumption
    <3>2. domain[c] \in Domains /\ zone \in [Domains -> Zones] /\ draft[c] \in Entry
          /\ pc[c] \in DOMAIN After
      BY DEF TypeOK, Query
    <3> QED
      BY <3>1, <3>2, LookType
  <2> QED
    BY <2>1, <2>2 DEF TypeOK
<1> QED
  BY <1>1, <1>2

\* A whois hit takes over the age of the cached data.
LEMMA WhoisHitEffect ==
  ASSUME TypeOK, NEW c \in Callers, WhoisHit(c)
  PROVE  /\ draft' \in [Callers -> Entry]
         /\ draft'[c].seenAt = draft[c].seenAt
         /\ draft'[c].whoisAt = whoisCache[domain[c]].whoisAt
         /\ \A x \in Callers \ {c} : draft'[x] = draft[x]
<1> DEFINE w == whoisCache[domain[c]]
           E == [draft[c] EXCEPT !.found["whois"] = w.found["whois"],
                                 !.failed = @ \cup w.failed, !.whoisAt = w.whoisAt]
           F == [draft[c].found EXCEPT !["whois"] = w.found["whois"]]
<1>1. w \in Entry /\ draft[c] \in Entry
  BY DEF TypeOK
<1>2. F \in Findings
  BY <1>1, Zenon DEF Entry, Findings, Fields
<1>3. draft' = [draft EXCEPT ![c] = E]
  BY DEF WhoisHit, TypeOK
<1>4. E = [draft[c] EXCEPT !.found = F, !.failed = @ \cup w.failed, !.whoisAt = w.whoisAt]
  BY <1>1 DEF Entry
<1> HIDE DEF F
<1>5. /\ E \in Entry /\ E.seenAt = draft[c].seenAt /\ E.whoisAt = w.whoisAt
  BY <1>1, <1>2, <1>4 DEF Entry
<1> HIDE DEF E
<1> QED
  BY <1>3, <1>5 DEF TypeOK

\* A whois answer dates from the beginning of the call, in the draft and in the
\* cache.
LEMMA WhoisAnswersEffect ==
  ASSUME TypeOK, NEW c \in Callers, WhoisAnswers(c)
  PROVE  /\ draft' \in [Callers -> Entry] /\ whoisCache' \in [Domains -> Entry]
         /\ draft'[c].seenAt = draft[c].seenAt /\ draft'[c].whoisAt = began[c]
         /\ \A x \in Callers \ {c} : draft'[x] = draft[x]
         /\ whoisCache'[domain[c]].whoisAt = began[c] /\ whoisCache'[domain[c]].cachedAt = now
         /\ \A d \in Domains \ {domain[c]} : whoisCache'[d] = whoisCache[d]
<1> DEFINE d == domain[c]
<1>1. PICK lost \in SUBSET ({"whois"} \cap Flaky) :
        /\ draft' = [draft EXCEPT ![c] = [Look(d, draft[c], "whois", lost) EXCEPT !.whoisAt = began[c]]]
        /\ whoisCache' = [whoisCache EXCEPT ![d] =
             [Look(d, NoEntry, "whois", lost) EXCEPT !.whoisAt = began[c], !.seenAt = began[c],
                                                     !.cachedAt = now]]
  BY DEF WhoisAnswers, TypeOK
<1>2. lost \in SUBSET Fields /\ d \in Domains /\ zone \in [Domains -> Zones]
      /\ draft[c] \in Entry /\ began[c] \in Int /\ now \in Int
  BY <1>1, ZonesAssumption, TimesAssumption DEF TypeOK
<1>3. /\ Look(d, draft[c], "whois", lost) \in Entry
      /\ Look(d, draft[c], "whois", lost).seenAt = draft[c].seenAt
      /\ Look(d, NoEntry, "whois", lost) \in Entry
  BY <1>2, LookType, NoEntryType
<1> DEFINE L == Look(d, draft[c], "whois", lost)
           M == Look(d, NoEntry, "whois", lost)
           E == [L EXCEPT !.whoisAt = began[c]]
           W == [M EXCEPT !.whoisAt = began[c], !.seenAt = began[c], !.cachedAt = now]
<1> HIDE DEF L, M
<1>4. E \in Entry /\ E.seenAt = draft[c].seenAt /\ E.whoisAt = began[c]
  BY <1>2, <1>3 DEF L, M, Entry
<1>5. W \in Entry /\ W.whoisAt = began[c] /\ W.cachedAt = now
  BY <1>2, <1>3 DEF L, M, Entry
<1>6. draft' = [draft EXCEPT ![c] = E] /\ whoisCache' = [whoisCache EXCEPT ![d] = W]
  BY <1>1 DEF L, M
<1> HIDE DEF E, W
<1> QED
  BY <1>2, <1>4, <1>5, <1>6 DEF TypeOK

\* An entry is stored with the times of its draft.
LEMMA StoreEffect ==
  ASSUME TypeOK, NEW c \in Callers, Store(c)
  PROVE  /\ cache' \in [Domains -> Entry] /\ draft' \in [Callers -> Entry]
         /\ \A x \in Callers \ {c} : draft'[x] = draft[x]
         /\ \A d \in Domains :
              \/ cache'[d] = cache[d]
              \/ d = domain[c] /\ cache'[d] = [draft[c] EXCEPT !.cachedAt = now]
<1>1. now \in Int /\ draft[c] \in Entry /\ domain[c] \in Domains
  BY TimesAssumption DEF TypeOK
<1>2. [draft[c] EXCEPT !.cachedAt = now] \in Entry
  BY <1>1 DEF Entry
<1>3. draft' = [draft EXCEPT ![c] = NoEntry]
  BY DEF Store
<1>4. cache' = cache \/ cache' = [cache EXCEPT ![domain[c]] = [draft[c] EXCEPT !.cachedAt = now]]
  BY DEF Store
<1> QED
  BY <1>1, <1>2, <1>3, <1>4, NoEntryType DEF TypeOK

-----------------------------------------------------------------------------
(* Types.                                                                    *)

\* dns.py:101-215, whois.py:76-91: every variable keeps a value of its kind,
\* whatever the callers do.
THEOREM TypeInvariant == Spec => []TypeOK
<1>1. ASSUME Init PROVE TypeOK
  <2>1. 0 \in 0 .. MaxTime
    BY TimesAssumption
  <2> QED
    BY <1>1, <2>1, NoEntryType DEF Init, TypeOK
<1>2. ASSUME TypeOK, [Next]_vars PROVE TypeOK'
  <2> USE <1>2
  <2>1. CASE UNCHANGED vars
    BY <2>1 DEF TypeOK, vars
  <2>2. CASE Tick
    <3>1. now' \in 0 .. MaxTime
      BY <2>2, TimesAssumption DEF Tick, TypeOK
    <3> QED
      BY <2>2, <3>1 DEF Tick, TypeOK
  <2>3. ASSUME NEW c \in Callers, CheckDomain(c) PROVE TypeOK'
    <3>1. PICK d \in Domains : Call(c, d, FALSE)
      BY <2>3 DEF CheckDomain
    <3>2. pc' = [pc EXCEPT ![c] = "mx"] /\ "mx" \in DOMAIN After
      BY <2>3, AfterDomain DEF CheckDomain, Goto
    <3>3. UNCHANGED <<now, zone, cache, whoisCache>>
      BY <2>3 DEF CheckDomain
    <3> QED
      BY <3>1, <3>2, <3>3, CallEffect DEF TypeOK
  <2>4. ASSUME NEW c \in Callers, CheckWhois(c) PROVE TypeOK'
    <3>1. PICK d \in Domains : Call(c, d, TRUE)
      BY <2>4 DEF CheckWhois
    <3>2. pc' = [pc EXCEPT ![c] = "whois"]
      BY <2>4 DEF CheckWhois, Goto
    <3>3. UNCHANGED <<now, zone, cache, whoisCache>>
      BY <2>4 DEF CheckWhois
    <3> QED
      BY <3>1, <3>2, <3>3, CallEffect DEF TypeOK
  <2>5. ASSUME NEW c \in Callers, Query(c) PROVE TypeOK'
    <3>1. pc' = [pc EXCEPT ![c] = After[pc[c]]]
          /\ After[pc[c]] \in DOMAIN After \cup {"idle", "whois", "lookup", "store"}
      BY <2>5, AfterDomain, AfterPlaces DEF Query, Goto, Places
    <3>2. UNCHANGED <<now, zone, cache, whoisCache, domain, whoisOnly, began>>
      BY <2>5 DEF Query
    <3> QED
      BY <2>5, <3>1, <3>2, QueryEffect DEF TypeOK
  <2>6. ASSUME NEW c \in Callers, WhoisHit(c) PROVE TypeOK'
    <3>1. pc' = [pc EXCEPT ![c] = "store"]
          /\ UNCHANGED <<now, zone, cache, whoisCache, domain, whoisOnly, began>>
      BY <2>6 DEF WhoisHit, Goto
    <3> QED
      BY <2>6, <3>1, WhoisHitEffect DEF TypeOK
  <2>7. ASSUME NEW c \in Callers, WhoisMiss(c) PROVE TypeOK'
    BY <2>7 DEF WhoisMiss, Goto, TypeOK
  <2>8. ASSUME NEW c \in Callers, WhoisAnswers(c) PROVE TypeOK'
    <3>1. pc' = [pc EXCEPT ![c] = "store"] /\ UNCHANGED <<now, zone, cache, domain, whoisOnly, began>>
      BY <2>8 DEF WhoisAnswers, Goto
    <3> QED
      BY <2>8, <3>1, WhoisAnswersEffect DEF TypeOK
  <2>9. ASSUME NEW c \in Callers, Store(c) PROVE TypeOK'
    <3>1. /\ whoisOnly' = [whoisOnly EXCEPT ![c] = FALSE] /\ began' = [began EXCEPT ![c] = 0]
          /\ pc' = [pc EXCEPT ![c] = "idle"]
          /\ UNCHANGED <<now, zone, whoisCache, domain>>
          /\ 0 \in 0 .. MaxTime
      BY <2>9, TimesAssumption DEF Store, Goto
    <3> QED
      BY <2>9, <3>1, StoreEffect DEF TypeOK
  <2> QED
    BY <2>1, <2>2, <2>3, <2>4, <2>5, <2>6, <2>7, <2>8, <2>9 DEF Next, Step
<1> QED
  BY <1>1, <1>2, PTL DEF Spec

-----------------------------------------------------------------------------
(* Ages.                                                                     *)

\* What makes the bounds on age inductive: a call is no longer than one lookup
\* and looks at the zone when it begins; an entry was stored at most one lookup
\* after its oldest query, and the whois part of a draft was fresh in its own
\* cache after the call began.
CallAges ==
  \A c \in Callers : pc[c] # "idle" =>
    /\ began[c] <= now /\ now - began[c] <= LookupTime
    /\ draft[c].seenAt = began[c]
    /\ began[c] - draft[c].whoisAt < TTL + LookupTime

EntryAges ==
  \A d \in Domains :
    /\ cache[d].cachedAt - cache[d].seenAt <= LookupTime
    /\ cache[d].cachedAt - cache[d].whoisAt < TTL + 2 * LookupTime
    /\ whoisCache[d].cachedAt - whoisCache[d].whoisAt <= LookupTime

Ages == CallAges /\ EntryAges

\* A step of one call that leaves the clock and the caches alone.
LEMMA CallStep ==
  ASSUME Ages, NEW c \in Callers, UNCHANGED <<now, cache, whoisCache>>,
         \A x \in Callers \ {c} : /\ pc'[x] = pc[x] /\ began'[x] = began[x]
                                  /\ draft'[x] = draft[x],
         /\ began'[c] <= now /\ now - began'[c] <= LookupTime
         /\ draft'[c].seenAt = began'[c]
         /\ began'[c] - draft'[c].whoisAt < TTL + LookupTime
  PROVE  Ages'
BY DEF Ages, CallAges, EntryAges

\* No step makes an answer older than its bound.
LEMMA AgesStep ==
  ASSUME TypeOK, Ages, [Next]_vars
  PROVE  Ages'
<1> USE TimesAssumption
<1>0. /\ now \in Int /\ TTL \in Int /\ TTL > 0 /\ LookupTime \in Int /\ LookupTime >= 0
      /\ \A c \in Callers : began[c] \in Int
      /\ \A d \in Domains : cache[d] \in Entry /\ whoisCache[d] \in Entry
      /\ \A c \in Callers : draft[c] \in Entry
  BY DEF TypeOK
<1>1. CASE UNCHANGED vars
  BY <1>1 DEF Ages, CallAges, EntryAges, vars
<1>2. CASE Tick
  <2>1. now' = now + 1 /\ UNCHANGED <<cache, whoisCache, pc, began, draft>>
        /\ \A c \in Callers : pc[c] # "idle" => now - began[c] < LookupTime
    BY <1>2 DEF Tick, Idle
  <2>2. CallAges'
    BY <1>0, <2>1 DEF Ages, CallAges
  <2>3. EntryAges'
    BY <2>1 DEF Ages, EntryAges
  <2> QED
    BY <2>2, <2>3 DEF Ages
<1>3. ASSUME NEW c \in Callers, NEW d \in Domains, NEW only \in BOOLEAN, Call(c, d, only),
             CheckDomain(c) \/ CheckWhois(c)
      PROVE  Ages'
  <2>1. UNCHANGED <<now, cache, whoisCache>> /\ \A x \in Callers \ {c} : pc'[x] = pc[x]
    BY <1>3 DEF CheckDomain, CheckWhois, Goto, TypeOK
  <2>2. /\ began'[c] = now /\ draft'[c].seenAt = now /\ draft'[c].whoisAt = now
        /\ \A x \in Callers \ {c} : began'[x] = began[x] /\ draft'[x] = draft[x]
    BY <1>3, CallEffect
  <2>3. /\ began'[c] <= now /\ now - began'[c] <= LookupTime
        /\ draft'[c].seenAt = began'[c]
        /\ began'[c] - draft'[c].whoisAt < TTL + LookupTime
    BY <1>0, <2>2
  <2> QED
    BY <2>1, <2>2, <2>3, CallStep
<1>4. ASSUME NEW c \in Callers, Query(c) PROVE Ages'
  <2>1. UNCHANGED <<now, cache, whoisCache, began>> /\ pc[c] # "idle"
        /\ \A x \in Callers \ {c} : pc'[x] = pc[x]
    BY <1>4, AfterDomain DEF Query, Goto, TypeOK
  <2>2. /\ draft'[c].seenAt = draft[c].seenAt /\ draft'[c].whoisAt = draft[c].whoisAt
        /\ \A x \in Callers \ {c} : draft'[x] = draft[x]
    BY <1>4, QueryEffect
  <2>3. /\ began'[c] <= now /\ now - began'[c] <= LookupTime
        /\ draft'[c].seenAt = began'[c]
        /\ began'[c] - draft'[c].whoisAt < TTL + LookupTime
    BY <2>1, <2>2 DEF Ages, CallAges
  <2> QED
    BY <2>1, <2>2, <2>3, CallStep
<1>5. ASSUME NEW c \in Callers, WhoisHit(c) PROVE Ages'
  <2>1. UNCHANGED <<now, cache, whoisCache, began>> /\ pc[c] # "idle" /\ domain[c] \in Domains
        /\ \A x \in Callers \ {c} : pc'[x] = pc[x]
    BY <1>5 DEF WhoisHit, Goto, TypeOK
  <2>2. /\ draft'[c].seenAt = draft[c].seenAt
        /\ draft'[c].whoisAt = whoisCache[domain[c]].whoisAt
        /\ \A x \in Callers \ {c} : draft'[x] = draft[x]
    BY <1>5, WhoisHitEffect
  <2>3. began[c] <= now /\ now - began[c] <= LookupTime /\ draft[c].seenAt = began[c]
    BY <2>1 DEF Ages, CallAges
  <2> DEFINE w == whoisCache[domain[c]]
  <2>4. /\ w.cachedAt \in Int /\ w.whoisAt \in Int /\ now - w.cachedAt < TTL
        /\ w.cachedAt - w.whoisAt <= LookupTime
    BY <1>0, <1>5, <2>1 DEF WhoisHit, Fresh, Entry, Ages, EntryAges
  <2>5. began[c] - w.whoisAt < TTL + LookupTime
    BY <1>0, <2>3, <2>4
  <2> QED
    BY <2>1, <2>2, <2>3, <2>5, CallStep
<1>6. ASSUME NEW c \in Callers, WhoisMiss(c) PROVE Ages'
  <2>1. UNCHANGED <<now, cache, whoisCache, began, draft>> /\ pc[c] # "idle"
        /\ \A x \in Callers \ {c} : pc'[x] = pc[x]
    BY <1>6 DEF WhoisMiss, Goto, TypeOK
  <2> QED
    BY <2>1, CallStep DEF Ages, CallAges
<1>7. ASSUME NEW c \in Callers, WhoisAnswers(c) PROVE Ages'
  <2>1. UNCHANGED <<now, cache, began>> /\ pc[c] # "idle" /\ domain[c] \in Domains
        /\ \A x \in Callers \ {c} : pc'[x] = pc[x]
    BY <1>7 DEF WhoisAnswers, Goto, TypeOK
  <2>2. /\ draft'[c].seenAt = draft[c].seenAt /\ draft'[c].whoisAt = began[c]
        /\ \A x \in Callers \ {c} : draft'[x] = draft[x]
        /\ whoisCache'[domain[c]].whoisAt = began[c] /\ whoisCache'[domain[c]].cachedAt = now
        /\ \A d \in Domains \ {domain[c]} : whoisCache'[d] = whoisCache[d]
    BY <1>7, WhoisAnswersEffect
  <2>3. began[c] <= now /\ now - began[c] <= LookupTime /\ draft[c].seenAt = began[c]
    BY <2>1 DEF Ages, CallAges
  <2>4. EntryAges'
    BY <2>1, <2>2, <2>3 DEF Ages, EntryAges
  <2>5. began[c] - draft'[c].whoisAt < TTL + LookupTime
    BY <1>0, <2>2
  <2>6. CallAges'
    BY <2>1, <2>2, <2>3, <2>5 DEF Ages, CallAges
  <2> QED
    BY <2>4, <2>6 DEF Ages
<1>8. ASSUME NEW c \in Callers, Store(c) PROVE Ages'
  <2>1. UNCHANGED <<now, whoisCache>> /\ pc[c] # "idle" /\ pc'[c] = "idle"
        /\ \A x \in Callers \ {c} : pc'[x] = pc[x] /\ began'[x] = began[x]
    BY <1>8 DEF Store, Goto, TypeOK
  <2>2. /\ \A x \in Callers \ {c} : draft'[x] = draft[x]
        /\ \A d \in Domains : \/ cache'[d] = cache[d]
                              \/ cache'[d] = [draft[c] EXCEPT !.cachedAt = now]
    BY <1>8, StoreEffect
  <2>3. CallAges'
    BY <2>1, <2>2 DEF Ages, CallAges
  <2>4. /\ draft[c].seenAt \in Int /\ draft[c].whoisAt \in Int
        /\ now - draft[c].seenAt <= LookupTime
        /\ began[c] - draft[c].whoisAt < TTL + LookupTime /\ now - began[c] <= LookupTime
    BY <1>0, <2>1 DEF Ages, CallAges, Entry
  <2>5. now - draft[c].whoisAt < TTL + 2 * LookupTime
    BY <1>0, <2>4
  <2> DEFINE e == [draft[c] EXCEPT !.cachedAt = now]
  <2>6. e.cachedAt = now /\ e.seenAt = draft[c].seenAt /\ e.whoisAt = draft[c].whoisAt
    BY <1>0 DEF Entry
  <2>7. e.cachedAt - e.seenAt <= LookupTime /\ e.cachedAt - e.whoisAt < TTL + 2 * LookupTime
    BY <2>4, <2>5, <2>6
  <2> HIDE DEF e
  <2>8. \A d \in Domains : cache'[d] = cache[d] \/ cache'[d] = e
    BY <2>2 DEF e
  <2>9. EntryAges'
    BY <2>1, <2>7, <2>8 DEF Ages, EntryAges
  <2> QED
    BY <2>3, <2>9 DEF Ages
<1>9. ASSUME NEW c \in Callers, CheckDomain(c) \/ CheckWhois(c) PROVE Ages'
  BY <1>3, <1>9 DEF CheckDomain, CheckWhois
<1> QED
  BY <1>1, <1>2, <1>4, <1>5, <1>6, <1>7, <1>8, <1>9 DEF Next, Step

\* dns.py:102-104, 214 and whois.py:78-91: the two caches and the calls that
\* fill them keep their ages bounded.
THEOREM AgesInvariant == Spec => []Ages
<1>1. ASSUME Init PROVE Ages
  <2>1. CallAges
    BY <1>1 DEF Init, CallAges
  <2>2. NoEntry.cachedAt = -TTL /\ NoEntry.seenAt = 0 /\ NoEntry.whoisAt = 0
    BY DEF NoEntry
  <2>3. EntryAges
    BY <1>1, <2>2, TimesAssumption DEF Init, EntryAges
  <2> QED
    BY <2>1, <2>3 DEF Ages
<1> QED
  BY <1>1, AgesStep, TypeInvariant, PTL DEF Spec

\* What is returned now is either a fresh entry or the draft of a call that is
\* over.
LEMMA AnswerAges ==
  ASSUME TypeOK, Ages, NEW d \in Domains, NEW e \in Answers(d)
  PROVE  /\ now - e.seenAt < TTL + LookupTime
         /\ now - e.whoisAt < 2 * (TTL + LookupTime) - 1
<1> USE TimesAssumption
<1>0. now \in Int /\ TTL \in Int /\ TTL > 0 /\ LookupTime \in Int
  BY DEF TypeOK
<1>1. CASE e = cache[d] /\ Fresh(e)
  <2>1. e.seenAt \in Int /\ e.whoisAt \in Int /\ e.cachedAt \in Int
    BY <1>1 DEF TypeOK, Entry
  <2> QED
    BY <1>0, <1>1, <2>1 DEF Ages, EntryAges, Fresh
<1>2. ASSUME NEW c \in Callers, Looked(c, d), e = draft[c]
      PROVE  /\ now - e.seenAt < TTL + LookupTime
             /\ now - e.whoisAt < 2 * (TTL + LookupTime) - 1
  <2>1. e.seenAt \in Int /\ e.whoisAt \in Int /\ began[c] \in Int /\ pc[c] # "idle"
    BY <1>2 DEF TypeOK, Entry, Looked
  <2>2. /\ now - began[c] <= LookupTime /\ e.seenAt = began[c]
        /\ began[c] - e.whoisAt < TTL + LookupTime
    BY <1>2, <2>1 DEF Ages, CallAges
  <2> QED
    BY <1>0, <2>1, <2>2
<1> QED
  BY <1>1, <1>2 DEF Answers

\* dns.py:102-104: for every lifetime and however many lookups overlap, an
\* answer rests on queries no older than a lifetime and one lookup.
THEOREM AnswersAreFresh == Spec => []AnswerAgeBounded
<1>1. TypeOK /\ Ages => AnswerAgeBounded
  BY AnswerAges DEF AnswerAgeBounded
<1> QED
  BY <1>1, TypeInvariant, AgesInvariant, PTL

\* whois.py:78-91: the whois part has passed two caches and is at most twice as
\* old.
THEOREM WhoisAnswersAreFresh == Spec => []WhoisAgeBounded
<1>1. TypeOK /\ Ages => WhoisAgeBounded
  BY AnswerAges DEF WhoisAgeBounded
<1> QED
  BY <1>1, TypeInvariant, AgesInvariant, PTL

-----------------------------------------------------------------------------
(* Causes: what is found is there, and what is there was found, or the query *)
(* for it failed, as soon as the code has asked.                             *)

Grounded(d, e) == \A f \in Fields : e.found[f] => zone[d][f]
Justified(d, e, f) == zone[d][f] => e.found[f] \/ f \in e.failed

\* The addresses are asked for only when there is no mail server.
MailKnown(d, e) == Justified(d, e, "mx")
AddressKnown(d, e) == e.found["mx"] \/ Justified(d, e, "a")

DraftCause(c) ==
  /\ Grounded(domain[c], draft[c])
  /\ ~whoisOnly[c] /\ pc[c] \notin {"idle", "mx"} => MailKnown(domain[c], draft[c])
  /\ ~whoisOnly[c] /\ pc[c] \notin {"idle", "mx", "a"} => AddressKnown(domain[c], draft[c])

EntryCause(d) ==
  /\ Grounded(d, cache[d]) /\ Grounded(d, whoisCache[d])
  /\ cache[d].cachedAt = -TTL \/ (MailKnown(d, cache[d]) /\ AddressKnown(d, cache[d]))

Causes == (\A c \in Callers : DraftCause(c)) /\ (\A d \in Domains : EntryCause(d))

\* What a query leaves in the findings, and in the failures.
LEMMA LookFails ==
  ASSUME NEW d, NEW e \in Entry, NEW where, NEW lost
  PROVE  Look(d, e, where, lost).failed = e.failed \cup lost
  BY DEF Look, Entry

LEMMA LookFinds ==
  ASSUME NEW d, NEW e \in Entry, NEW where, NEW lost
  PROVE  /\ \A f \in Fields : f \in Queried(where) =>
              (Look(d, e, where, lost).found[f] <=> zone[d][f] /\ f \notin lost)
         /\ \A f \in Fields : f \notin Queried(where) =>
              (Look(d, e, where, lost).found[f] <=> e.found[f])
<1> DEFINE F == [f \in Fields |-> IF f \in Queried(where) THEN zone[d][f] /\ f \notin lost
                                                          ELSE e.found[f]]
<1>1. \A f \in Fields : F[f] = IF f \in Queried(where) THEN zone[d][f] /\ f \notin lost
                                                        ELSE e.found[f]
  BY Zenon
<1>2. Look(d, e, where, lost) = [e EXCEPT !.found = F, !.failed = e.failed \cup lost]
  BY DEF Look
<1> HIDE DEF F
<1>3. Look(d, e, where, lost).found = F
  BY <1>2 DEF Entry
<1>4. \A f \in Fields : f \in Queried(where) => (F[f] <=> zone[d][f] /\ f \notin lost)
  BY <1>1, Zenon
<1>5. \A f \in Fields : f \notin Queried(where) => (F[f] <=> e.found[f])
  BY <1>1, Zenon
<1> QED
  BY <1>3, <1>4, <1>5, Zenon

\* A query leaves what is known known, and makes known what it asks for.
LEMMA LookCauses ==
  ASSUME NEW d, NEW e \in Entry, NEW where, NEW lost
  PROVE  /\ Grounded(d, e) => Grounded(d, Look(d, e, where, lost))
         /\ \A f \in Fields :
              f \in Queried(where) \/ Justified(d, e, f) => Justified(d, Look(d, e, where, lost), f)
         /\ "mx" \notin Queried(where) /\ e.found["mx"] => Look(d, e, where, lost).found["mx"]
<1> DEFINE L == Look(d, e, where, lost)
<1>1. \A f \in Fields : f \in Queried(where) => (L.found[f] <=> zone[d][f] /\ f \notin lost)
  BY LookFinds, Zenon
<1>2. \A f \in Fields : f \notin Queried(where) => (L.found[f] <=> e.found[f])
  BY LookFinds, Zenon
<1>3. L.failed = e.failed \cup lost
  BY LookFails
<1> HIDE DEF L
<1>4. Grounded(d, e) => Grounded(d, L)
  BY <1>1, <1>2, Zenon DEF Grounded
<1>5. \A f \in Fields : f \in Queried(where) \/ Justified(d, e, f) => Justified(d, L, f)
  BY <1>1, <1>2, <1>3, Zenon DEF Justified
<1>6. "mx" \notin Queried(where) /\ e.found["mx"] => L.found["mx"]
  BY <1>2, Zenon DEF Fields
<1> QED
  BY <1>4, <1>5, <1>6 DEF L

\* A result with the same answers about mail, and more failures, is as well
\* founded.
LEMMA SameMail ==
  ASSUME NEW d, NEW e, NEW g, g.found["mx"] <=> e.found["mx"], g.found["a"] <=> e.found["a"],
         e.failed \subseteq g.failed
  PROVE  /\ MailKnown(d, e) => MailKnown(d, g)
         /\ AddressKnown(d, e) => AddressKnown(d, g)
  BY Zenon DEF MailKnown, AddressKnown, Justified

\* The draft of nothing is well founded.
LEMMA NothingGrounded ==
  ASSUME NEW d, NEW e, e.found = Nothing
  PROVE  Grounded(d, e)
<1>1. \A f \in Fields : ~Nothing[f]
  BY DEF Nothing
<1> QED
  BY <1>1, Zenon DEF Grounded

LEMMA QueryCause ==
  ASSUME TypeOK, NEW c \in Callers, DraftCause(c), Query(c)
  PROVE  DraftCause(c)'
<1> DEFINE d == domain[c]
<1>0. /\ pc[c] \in {"mx", "a", "text", "ip", "listed"} /\ draft[c] \in Entry
      /\ pc'[c] = After[pc[c]] /\ UNCHANGED <<domain, whoisOnly, zone>>
  BY AfterDomain DEF Query, Goto, TypeOK
<1>1. CASE ~Needed(pc[c], draft[c].found)
  <2>1. draft' = draft
    BY <1>1 DEF Query
  <2>2. pc[c] # "mx" /\ (pc[c] = "a" => draft[c].found["mx"])
    BY <1>1 DEF Needed
  <2>3. Grounded(d, draft[c])
        /\ (~whoisOnly[c] => MailKnown(d, draft[c]) /\ AddressKnown(d, draft[c]))
    BY <1>0, <2>2 DEF DraftCause, AddressKnown
  <2> QED
    BY <1>0, <2>1, <2>3, Zenon DEF DraftCause, MailKnown, AddressKnown, Justified, Grounded
<1>2. CASE Needed(pc[c], draft[c].found)
  <2>1. PICK lost \in SUBSET (Queried(pc[c]) \cap Flaky) :
          draft' = [draft EXCEPT ![c] = Look(d, draft[c], pc[c], lost)]
    BY <1>2 DEF Query, TypeOK
  <2> DEFINE L == Look(d, draft[c], pc[c], lost)
  <2>2. draft'[c] = L
    BY <2>1 DEF TypeOK
  <2>3. /\ Grounded(d, draft[c]) => Grounded(d, L)
        /\ \A f \in Fields : f \in Queried(pc[c]) \/ Justified(d, draft[c], f) => Justified(d, L, f)
        /\ "mx" \notin Queried(pc[c]) /\ draft[c].found["mx"] => L.found["mx"]
    BY <1>0, LookCauses
  <2> HIDE DEF L
  <2>4. Grounded(d, L)
    BY <2>3 DEF DraftCause
  <2>5. ~whoisOnly[c] => MailKnown(d, L)
    <3>1. "mx" \in Queried(pc[c]) \/ pc[c] \notin {"idle", "mx"}
      BY <1>0 DEF Queried
    <3> QED
      BY <2>3, <3>1 DEF DraftCause, MailKnown, Fields
  <2>6. ~whoisOnly[c] /\ pc[c] # "mx" => AddressKnown(d, L)
    <3> SUFFICES ASSUME ~whoisOnly[c], pc[c] # "mx" PROVE AddressKnown(d, L)
      OBVIOUS
    <3>1. CASE pc[c] = "a"
      BY <2>3, <3>1 DEF AddressKnown, Queried, Fields
    <3>2. CASE pc[c] # "a"
      <4>1. AddressKnown(d, draft[c]) /\ "mx" \notin Queried(pc[c])
        BY <1>0, <3>2 DEF DraftCause, Queried
      <4> QED
        BY <2>3, <4>1 DEF AddressKnown, Fields
    <3> QED
      BY <3>1, <3>2
  <2>7. pc[c] = "mx" => pc'[c] = "a"
    BY <1>0 DEF After
  <2> QED
    BY <1>0, <2>2, <2>4, <2>5, <2>6, <2>7, Zenon
       DEF DraftCause, MailKnown, AddressKnown, Justified, Grounded
<1> QED
  BY <1>1, <1>2

\* The whois answer, cached or not, says nothing of the mail.
LEMMA WhoisHitCause ==
  ASSUME TypeOK, NEW c \in Callers, DraftCause(c), EntryCause(domain[c]), WhoisHit(c)
  PROVE  DraftCause(c)'
<1> DEFINE d == domain[c]
           w == whoisCache[d]
           F == [draft[c].found EXCEPT !["whois"] = w.found["whois"]]
           E == [draft[c] EXCEPT !.found["whois"] = w.found["whois"],
                                 !.failed = @ \cup w.failed, !.whoisAt = w.whoisAt]
<1>1. w \in Entry /\ draft[c] \in Entry /\ draft[c].found \in Findings
  BY DEF TypeOK, Entry
<1>2. draft' = [draft EXCEPT ![c] = E]
  BY DEF WhoisHit, TypeOK
<1>3. E = [draft[c] EXCEPT !.found = F, !.failed = @ \cup w.failed, !.whoisAt = w.whoisAt]
  BY <1>1 DEF Entry
<1>4. /\ \A f \in Fields \ {"whois"} : F[f] <=> draft[c].found[f]
      /\ F["whois"] <=> w.found["whois"]
  BY <1>1, Zenon DEF Findings, Fields
<1> HIDE DEF F
<1>5. E.found = F /\ E.failed = draft[c].failed \cup w.failed
  BY <1>1, <1>3 DEF Entry
<1> HIDE DEF E
<1>6. draft'[c] = E /\ pc[c] = "whois" /\ UNCHANGED <<zone, domain, whoisOnly>>
  BY <1>2 DEF WhoisHit, TypeOK
<1>7. Grounded(d, E)
  <2>1. ASSUME NEW f \in Fields, E.found[f] PROVE zone[d][f]
    <3>1. CASE f = "whois"
      BY <1>4, <1>5, <2>1, <3>1, Zenon DEF EntryCause, Grounded
    <3>2. CASE f # "whois"
      BY <1>4, <1>5, <2>1, <3>2, Zenon DEF DraftCause, Grounded
    <3> QED
      BY <3>1, <3>2
  <2> QED
    BY <2>1 DEF Grounded
<1>8. (E.found["mx"] <=> draft[c].found["mx"]) /\ (E.found["a"] <=> draft[c].found["a"])
  BY <1>4, <1>5, Zenon DEF Fields
<1>9. ~whoisOnly[c] => MailKnown(d, E) /\ AddressKnown(d, E)
  <2>1. ~whoisOnly[c] => MailKnown(d, draft[c]) /\ AddressKnown(d, draft[c])
    BY <1>6 DEF DraftCause
  <2>2. draft[c].failed \subseteq E.failed
    BY <1>5
  <2> QED
    BY <1>8, <2>1, <2>2, SameMail
<1> QED
  BY <1>6, <1>7, <1>9, Zenon DEF DraftCause, MailKnown, AddressKnown, Justified, Grounded

LEMMA WhoisAnswersCause ==
  ASSUME TypeOK, NEW c \in Callers, DraftCause(c), \A d \in Domains : EntryCause(d), WhoisAnswers(c)
  PROVE  DraftCause(c)' /\ \A d \in Domains : EntryCause(d)'
<1> DEFINE d == domain[c]
<1>1. PICK lost \in SUBSET ({"whois"} \cap Flaky) :
        /\ draft' = [draft EXCEPT ![c] = [Look(d, draft[c], "whois", lost) EXCEPT !.whoisAt = began[c]]]
        /\ whoisCache' = [whoisCache EXCEPT ![d] =
             [Look(d, NoEntry, "whois", lost) EXCEPT !.whoisAt = began[c], !.seenAt = began[c],
                                                     !.cachedAt = now]]
  BY DEF WhoisAnswers, TypeOK
<1>2. lost \in SUBSET Fields /\ d \in Domains /\ zone \in [Domains -> Zones]
      /\ draft[c] \in Entry /\ pc[c] = "lookup" /\ UNCHANGED <<zone, domain, whoisOnly, cache>>
  BY <1>1, ZonesAssumption DEF TypeOK, WhoisAnswers
<1> DEFINE L == Look(d, draft[c], "whois", lost)
           M == Look(d, NoEntry, "whois", lost)
           E == [L EXCEPT !.whoisAt = began[c]]
           W == [M EXCEPT !.whoisAt = began[c], !.seenAt = began[c], !.cachedAt = now]
<1>3. L \in Entry /\ M \in Entry
  BY <1>2, LookType, NoEntryType
<1>4. Grounded(d, L)
  BY <1>2, LookCauses DEF DraftCause
<1>5. ~whoisOnly[c] => MailKnown(d, L) /\ AddressKnown(d, L)
  <2>1. ~whoisOnly[c] => MailKnown(d, draft[c]) /\ AddressKnown(d, draft[c])
    BY <1>2 DEF DraftCause
  <2>2. "mx" \notin Queried("whois")
    BY DEF Queried
  <2>3. /\ \A f \in Fields : Justified(d, draft[c], f) => Justified(d, L, f)
        /\ draft[c].found["mx"] => L.found["mx"]
    BY <1>2, <2>2, LookCauses
  <2> HIDE DEF L
  <2> QED
    BY <2>1, <2>3 DEF MailKnown, AddressKnown, Fields
<1>6. Grounded(d, M)
  BY NoEntryType, NothingGrounded, LookCauses
<1> HIDE DEF L, M
<1>7. E.found = L.found /\ E.failed = L.failed /\ W.found = M.found
  BY <1>3 DEF Entry
<1>8. draft' = [draft EXCEPT ![c] = E] /\ whoisCache' = [whoisCache EXCEPT ![d] = W]
  BY <1>1 DEF L, M
<1> HIDE DEF E, W
<1>9. draft'[c] = E /\ whoisCache'[d] = W /\ \A x \in Domains \ {d} : whoisCache'[x] = whoisCache[x]
  BY <1>2, <1>8 DEF TypeOK
<1>10. Grounded(d, E) /\ Grounded(d, W)
  BY <1>4, <1>6, <1>7 DEF Grounded
<1>11. ~whoisOnly[c] => MailKnown(d, E) /\ AddressKnown(d, E)
  BY <1>5, <1>7 DEF MailKnown, AddressKnown, Justified
<1>12. DraftCause(c)'
  BY <1>2, <1>9, <1>10, <1>11, Zenon DEF DraftCause, MailKnown, AddressKnown, Justified, Grounded
<1>13. ASSUME NEW x \in Domains PROVE EntryCause(x)'
  <2>1. EntryCause(x)
    OBVIOUS
  <2>2. CASE x = d
    BY <1>2, <1>9, <1>10, <2>1, <2>2, Zenon DEF EntryCause, MailKnown, AddressKnown, Justified, Grounded
  <2>3. CASE x # d
    <3>1. whoisCache'[x] = whoisCache[x]
      BY <1>9, <2>3
    <3> QED
      BY <1>2, <2>1, <3>1, Zenon DEF EntryCause, MailKnown, AddressKnown, Justified, Grounded
  <2> QED
    BY <2>2, <2>3
<1> QED
  BY <1>12, <1>13

\* What is stored is as well founded as the draft.
LEMMA StoreCause ==
  ASSUME TypeOK, NEW c \in Callers, DraftCause(c), \A d \in Domains : EntryCause(d), Store(c)
  PROVE  DraftCause(c)' /\ \A d \in Domains : EntryCause(d)'
<1>1. /\ pc[c] = "store" /\ pc'[c] = "idle" /\ draft'[c] = NoEntry /\ draft[c] \in Entry
      /\ UNCHANGED <<zone, domain, whoisCache>>
  BY DEF Store, Goto, TypeOK
<1>2. DraftCause(c)'
  <2>1. \A d : Grounded(d, NoEntry)
    BY NoEntryType, NothingGrounded
  <2> QED
    BY <1>1, <2>1, Zenon DEF DraftCause, Grounded
<1>3. CASE whoisOnly[c]
  <2>1. cache' = cache
    BY <1>3 DEF Store
  <2> QED
    BY <1>1, <1>2, <2>1, Zenon DEF EntryCause, MailKnown, AddressKnown, Justified, Grounded
<1>4. CASE ~whoisOnly[c]
  <2> DEFINE E == [draft[c] EXCEPT !.cachedAt = now]
  <2>1. cache' = [cache EXCEPT ![domain[c]] = E]
    BY <1>4 DEF Store
  <2>2. E.found = draft[c].found /\ E.failed = draft[c].failed
    BY <1>1 DEF Entry
  <2> HIDE DEF E
  <2>3. Grounded(domain[c], draft[c]) /\ MailKnown(domain[c], draft[c])
        /\ AddressKnown(domain[c], draft[c])
    BY <1>1, <1>4 DEF DraftCause
  <2>4. Grounded(domain[c], E) /\ MailKnown(domain[c], E) /\ AddressKnown(domain[c], E)
    BY <2>2, <2>3 DEF Grounded, MailKnown, AddressKnown, Justified
  <2>5. ASSUME NEW d \in Domains PROVE EntryCause(d)'
    <3>1. EntryCause(d)
      OBVIOUS
    <3>2. CASE d = domain[c]
      <4>1. cache'[d] = E
        BY <2>1, <3>2 DEF TypeOK
      <4> QED
        BY <1>1, <2>4, <3>1, <3>2, <4>1, Zenon
           DEF EntryCause, MailKnown, AddressKnown, Justified, Grounded
    <3>3. CASE d # domain[c]
      <4>1. cache'[d] = cache[d]
        BY <2>1, <3>3 DEF TypeOK
      <4> QED
        BY <1>1, <3>1, <4>1, Zenon DEF EntryCause, MailKnown, AddressKnown, Justified, Grounded
    <3> QED
      BY <3>2, <3>3
  <2> QED
    BY <1>2, <2>5
<1> QED
  BY <1>2, <1>3, <1>4

\* No step makes an answer unfounded.
LEMMA CausesStep ==
  ASSUME TypeOK, Causes, [Next]_vars
  PROVE  Causes'
<1>0. (\A c \in Callers : DraftCause(c)) /\ (\A d \in Domains : EntryCause(d))
  BY DEF Causes
<1>1. ASSUME UNCHANGED <<zone, cache, whoisCache>> PROVE \A d \in Domains : EntryCause(d)'
  BY <1>0, <1>1, Zenon DEF EntryCause, MailKnown, AddressKnown, Justified, Grounded
<1>2. ASSUME NEW c \in Callers, UNCHANGED zone,
             pc'[c] = pc[c], domain'[c] = domain[c], whoisOnly'[c] = whoisOnly[c], draft'[c] = draft[c]
      PROVE  DraftCause(c)'
  <2>1. DraftCause(c)
    BY <1>0
  <2> QED
    BY <1>2, <2>1, Zenon DEF DraftCause, MailKnown, AddressKnown, Justified, Grounded
<1>3. CASE UNCHANGED vars \/ Tick
  <2>1. UNCHANGED <<zone, cache, whoisCache, pc, domain, whoisOnly, draft>>
    BY <1>3 DEF vars, Tick
  <2> QED
    BY <1>1, <1>2, <2>1, Zenon DEF Causes
<1>4. ASSUME NEW c \in Callers, Step(c) PROVE Causes'
  <2>0. DraftCause(c) /\ domain[c] \in Domains /\ EntryCause(domain[c]) /\ UNCHANGED zone
    <3>1. UNCHANGED zone
      BY <1>4 DEF Step, CheckDomain, CheckWhois, Query, WhoisHit, WhoisMiss, WhoisAnswers, Store
    <3> QED
      BY <1>0, <3>1 DEF TypeOK
  <2>1. CASE CheckDomain(c) \/ CheckWhois(c)
    <3>1. PICK d \in Domains, only \in BOOLEAN :
            Call(c, d, only) /\ pc' = [pc EXCEPT ![c] = IF only THEN "whois" ELSE "mx"]
      BY <2>1 DEF CheckDomain, CheckWhois, Goto
    <3>2. /\ draft'[c].found = Nothing
          /\ \A x \in Callers \ {c} : draft'[x] = draft[x] /\ domain'[x] = domain[x]
                                      /\ whoisOnly'[x] = whoisOnly[x]
      BY <3>1, CallEffect
    <3>3. (only /\ whoisOnly'[c]) \/ (~only /\ pc'[c] = "mx")
      BY <3>1 DEF Call, TypeOK
    <3>4. UNCHANGED <<cache, whoisCache>>
      BY <2>1 DEF CheckDomain, CheckWhois
    <3>5. DraftCause(c)'
      <4>1. \A d1, e : e.found = Nothing => Grounded(d1, e)
        BY NothingGrounded
      <4>2. Grounded(domain'[c], draft'[c])
        BY <3>2, <4>1
      <4> QED
        BY <2>0, <3>3, <4>2, Zenon DEF DraftCause, Grounded
    <3>6. \A x \in Callers \ {c} : pc'[x] = pc[x]
      BY <3>1 DEF TypeOK
    <3> QED
      BY <1>1, <1>2, <2>0, <3>2, <3>4, <3>5, <3>6, Zenon DEF Causes
  <2>2. CASE Query(c)
    <3>1. UNCHANGED <<cache, whoisCache, domain, whoisOnly>>
          /\ \A x \in Callers \ {c} : pc'[x] = pc[x]
      BY <2>2 DEF Query, Goto, TypeOK
    <3>2. DraftCause(c)' /\ \A x \in Callers \ {c} : draft'[x] = draft[x]
      BY <2>0, <2>2, QueryCause, QueryEffect
    <3> QED
      BY <1>1, <1>2, <2>0, <3>1, <3>2, Zenon DEF Causes
  <2>3. CASE WhoisHit(c)
    <3>1. UNCHANGED <<cache, whoisCache, domain, whoisOnly>>
          /\ \A x \in Callers \ {c} : pc'[x] = pc[x]
      BY <2>3 DEF WhoisHit, Goto, TypeOK
    <3>2. DraftCause(c)' /\ \A x \in Callers \ {c} : draft'[x] = draft[x]
      BY <2>0, <2>3, WhoisHitCause, WhoisHitEffect
    <3> QED
      BY <1>1, <1>2, <2>0, <3>1, <3>2, Zenon DEF Causes
  <2>4. CASE WhoisMiss(c)
    <3>1. UNCHANGED <<cache, whoisCache, domain, whoisOnly, draft>>
          /\ (\A x \in Callers \ {c} : pc'[x] = pc[x]) /\ pc[c] = "whois"
      BY <2>4 DEF WhoisMiss, Goto, TypeOK
    <3>2. DraftCause(c)'
      BY <2>0, <3>1, Zenon DEF DraftCause, MailKnown, AddressKnown, Justified, Grounded
    <3> QED
      BY <1>1, <1>2, <2>0, <3>1, <3>2, Zenon DEF Causes
  <2>5. CASE WhoisAnswers(c) \/ Store(c)
    <3>1. domain' = domain /\ \A x \in Callers \ {c} : pc'[x] = pc[x] /\ whoisOnly'[x] = whoisOnly[x]
      BY <2>5 DEF WhoisAnswers, Store, Goto, TypeOK
    <3>2. \A x \in Callers \ {c} : draft'[x] = draft[x]
      BY <2>5, WhoisAnswersEffect, StoreEffect
    <3>3. DraftCause(c)' /\ \A d \in Domains : EntryCause(d)'
      BY <1>0, <2>0, <2>5, WhoisAnswersCause, StoreCause
    <3> QED
      BY <1>2, <2>0, <3>1, <3>2, <3>3, Zenon DEF Causes
  <2> QED
    BY <1>4, <2>1, <2>2, <2>3, <2>4, <2>5 DEF Step
<1> QED
  BY <1>3, <1>4 DEF Next

\* dns.py:101-215: a domain is told to have neither mail server nor address,
\* which condemns all its addresses, only if that is so or its query failed,
\* for every number of callers whose lookups fill the cache at once.
THEOREM AnswersHaveCause == Spec => []AnswerHasCause
<1>1. ASSUME Init PROVE Causes
  <2>1. \A d, e : e.found = Nothing => Grounded(d, e)
    BY NothingGrounded
  <2>2. NoEntry.found = Nothing /\ NoEntry.cachedAt = -TTL
    BY DEF NoEntry
  <2>3. ASSUME NEW c \in Callers PROVE DraftCause(c)
    <3>1. pc[c] = "idle" /\ draft[c] = NoEntry
      BY <1>1 DEF Init
    <3> QED
      BY <2>1, <2>2, <3>1 DEF DraftCause
  <2>4. ASSUME NEW d \in Domains PROVE EntryCause(d)
    <3>1. cache[d] = NoEntry /\ whoisCache[d] = NoEntry
      BY <1>1 DEF Init
    <3> QED
      BY <2>1, <2>2, <3>1 DEF EntryCause
  <2> QED
    BY <2>3, <2>4 DEF Causes
<1>2. ASSUME TypeOK, Causes PROVE AnswerHasCause
  <2> SUFFICES ASSUME NEW d \in Domains, NEW e \in Answers(d)
               PROVE  Grounded(d, e) /\ MailKnown(d, e) /\ AddressKnown(d, e)
    BY Zenon DEF AnswerHasCause, Grounded, MailKnown, AddressKnown, Justified
  <2>1. CASE e = cache[d] /\ Fresh(e)
    <3>1. EntryCause(d) /\ now \in Nat /\ TTL \in Nat
      BY <1>2, TimesAssumption DEF Causes, TypeOK
    <3>2. e.cachedAt # -TTL
      BY <2>1, <3>1 DEF Fresh
    <3> QED
      BY <2>1, <3>1, <3>2 DEF EntryCause
  <2>2. ASSUME NEW c \in Callers, Looked(c, d), e = draft[c]
        PROVE  Grounded(d, e) /\ MailKnown(d, e) /\ AddressKnown(d, e)
    BY <1>2, <2>2 DEF Causes, DraftCause, Looked
  <2> QED
    BY <2>1, <2>2 DEF Answers
<1> QED
  BY <1>1, <1>2, CausesStep, TypeInvariant, PTL DEF Spec

-----------------------------------------------------------------------------
(* The website check, the other lookup that is kept for 24 hours: any number *)
(* of lookups of one domain at once.                                         *)

\* What a call that has come this far has seen and kept, whatever failed.
Rung(c) ==
  /\ probing[c] \in {"https_www", "http_www"} => ~prefixed
  /\ probing[c] \in Probes => found[c] # "live" /\ "live" \notin seen[c]
  /\ probing[c] = "store" => (found[c] = "live" <=> "live" \in seen[c])
  /\ "live" \in seen[c] => \E p \in Probes : serves[p] = "live"

\* What it knows of the servers if none of its probes has failed.
Ruled(c) ==
  /\ probing[c] = "https_www" => found[c] = serves["https"]
  /\ probing[c] \in {"http", "http_www"} =>
       /\ found[c] = "none" /\ serves["https"] = "none"
       /\ prefixed \/ serves["https_www"] # "live"
  /\ probing[c] = "http_www" => serves["http"] = "none"
  /\ probing[c] = "store" /\ ~Disputed => (found[c] = "live" <=> HasSite)

\* The entry is what a call has kept.
SiteKnown ==
  /\ site = "live" => \E p \in Probes : serves[p] = "live"
  /\ site # "empty" /\ ~spoiled /\ ~Disputed => (site = "live" <=> HasSite)

Ladder ==
  /\ SiteTypeOK /\ SiteKnown
  /\ \A c \in Askers : Rung(c) /\ (~missed[c] => Ruled(c))

\* A probe that has been answered: what the call keeps, and where it goes on.
LEMMA NextRung ==
  ASSUME NEW where \in Probes, NEW old \in Status, NEW answer \in Status,
         old # "live",
         where \in {"https_www", "http_www"} => ~prefixed
  PROVE  LET kept == Kept(where, old, answer)
             to == Follows(where, kept)
         IN  /\ kept \in Status /\ to \in Probes \cup {"store"}
             /\ to \in {"https_www", "http_www"} => ~prefixed
             /\ kept = "live" <=> answer = "live"
             /\ to \in Probes => kept # "live"
  BY DEF Kept, Follows, Indicates, Probes, Status

\* ... and what it then knows, if the probe has not failed.
LEMMA NextRuled ==
  ASSUME Ladder, NEW c \in Askers, probing[c] \in Probes, Ruled(c)
  PROVE  LET kept == Kept(probing[c], found[c], serves[probing[c]])
             to == Follows(probing[c], kept)
         IN  /\ to = "https_www" => kept = serves["https"]
             /\ to \in {"http", "http_www"} =>
                  /\ kept = "none" /\ serves["https"] = "none"
                  /\ prefixed \/ serves["https_www"] # "live"
             /\ to = "http_www" => serves["http"] = "none"
             /\ to = "store" /\ ~Disputed => (kept = "live" <=> HasSite)
<1>1. /\ serves \in [Probes -> Status] /\ prefixed \in BOOLEAN
      /\ probing[c] \in {"https_www", "http_www"} => ~prefixed
      /\ found[c] # "live" /\ found[c] \in Status
  BY DEF Ladder, SiteTypeOK, Rung
<1>2. CASE probing[c] = "https"
  BY <1>1, <1>2 DEF Ruled, Kept, Follows, Indicates, HasSite, NoHttps, Disputed, Probes, Status
<1>3. CASE probing[c] = "https_www"
  BY <1>1, <1>3 DEF Ruled, Kept, Follows, Indicates, HasSite, NoHttps, Disputed, Probes, Status
<1>4. CASE probing[c] = "http"
  BY <1>1, <1>4 DEF Ruled, Kept, Follows, Indicates, HasSite, NoHttps, Disputed, Probes, Status
<1>5. CASE probing[c] = "http_www"
  BY <1>1, <1>5 DEF Ruled, Kept, Follows, Indicates, HasSite, NoHttps, Disputed, Probes, Status
<1> QED
  BY <1>2, <1>3, <1>4, <1>5 DEF Probes

\* Only the call that moves has anything to show.
LEMMA OneMoves ==
  ASSUME Ladder, NEW c \in Askers, SiteTypeOK', SiteKnown',
         UNCHANGED <<prefixed, serves>>,
         \A d \in Askers \ {c} :
           /\ probing'[d] = probing[d] /\ found'[d] = found[d]
           /\ seen'[d] = seen[d] /\ missed'[d] = missed[d],
         Rung(c)', ~missed'[c] => Ruled(c)'
  PROVE  Ladder'
<1>1. ASSUME NEW d \in Askers \ {c} PROVE Rung(d)' /\ (~missed'[d] => Ruled(d)')
  BY <1>1 DEF Ladder, Rung, Ruled, HasSite, NoHttps, Disputed
<1> QED
  BY <1>1 DEF Ladder

LEMMA ProbeStep ==
  ASSUME Ladder, NEW c \in Askers, Probe(c)
  PROVE  Ladder'
<1>1. PICK answer \in {serves[probing[c]], "none"} :
        LET kept == Kept(probing[c], found[c], answer) IN
        /\ found' = [found EXCEPT ![c] = kept]
        /\ seen' = [seen EXCEPT ![c] = @ \cup {answer}]
        /\ missed' = [missed EXCEPT ![c] = @ \/ answer # serves[probing[c]]]
        /\ ProbesNext(c, Follows(probing[c], kept))
  BY DEF Probe
<1> DEFINE kept == Kept(probing[c], found[c], answer)
           to == Follows(probing[c], kept)
<1>2. /\ probing[c] \in Probes /\ UNCHANGED <<prefixed, serves, site, spoiled>>
      /\ SiteTypeOK /\ Rung(c) /\ (~missed[c] => Ruled(c))
  BY DEF Probe, Ladder
<1>3. /\ answer \in Status /\ found[c] \in Status /\ seen[c] \subseteq Status
      /\ found[c] # "live" /\ "live" \notin seen[c]
      /\ probing[c] \in {"https_www", "http_www"} => ~prefixed
      /\ answer = "live" => \E p \in Probes : serves[p] = "live"
  BY <1>1, <1>2 DEF SiteTypeOK, Rung, Status
<1>4. /\ kept \in Status /\ to \in Probes \cup {"store"}
      /\ to \in {"https_www", "http_www"} => ~prefixed
      /\ kept = "live" <=> answer = "live"
      /\ to \in Probes => kept # "live"
  BY <1>2, <1>3, NextRung
<1>5. ASSUME ~missed'[c]
      PROVE  /\ ~missed[c] /\ answer = serves[probing[c]]
             /\ to = "https_www" => kept = serves["https"]
             /\ to \in {"http", "http_www"} =>
                  /\ kept = "none" /\ serves["https"] = "none"
                  /\ prefixed \/ serves["https_www"] # "live"
             /\ to = "http_www" => serves["http"] = "none"
             /\ to = "store" /\ ~Disputed => (kept = "live" <=> HasSite)
  <2>1. ~missed[c] /\ answer = serves[probing[c]]
    BY <1>1, <1>2, <1>5 DEF SiteTypeOK
  <2> QED
    BY <1>2, <2>1, NextRuled
<1> HIDE DEF kept, to
<1>6. /\ found' = [found EXCEPT ![c] = kept] /\ probing' = [probing EXCEPT ![c] = to]
      /\ seen' = [seen EXCEPT ![c] = @ \cup {answer}]
      /\ missed' = [missed EXCEPT ![c] = @ \/ answer # serves[probing[c]]]
  BY <1>1 DEF ProbesNext, kept, to
<1>7. found'[c] = kept /\ probing'[c] = to /\ seen'[c] = seen[c] \cup {answer}
  BY <1>2, <1>6 DEF SiteTypeOK
<1>8. SiteTypeOK'
  BY <1>2, <1>3, <1>4, <1>6 DEF SiteTypeOK
<1>9. Rung(c)'
  BY <1>2, <1>3, <1>4, <1>7 DEF Rung, Probes
<1>10. ~missed'[c] => Ruled(c)'
  BY <1>2, <1>5, <1>7 DEF Ruled, HasSite, NoHttps, Disputed
<1>11. SiteKnown'
  BY <1>2, <1>6 DEF Ladder, SiteKnown, HasSite, NoHttps, Disputed
<1>12. \A d \in Askers \ {c} :
         /\ probing'[d] = probing[d] /\ found'[d] = found[d]
         /\ seen'[d] = seen[d] /\ missed'[d] = missed[d]
  BY <1>2, <1>6 DEF SiteTypeOK
<1> QED
  BY <1>2, <1>8, <1>9, <1>10, <1>11, <1>12, OneMoves

LEMMA LadderStep ==
  ASSUME Ladder, [SiteNext]_siteVars
  PROVE  Ladder'
<1>1. ASSUME NEW c \in Askers, Miss(c) PROVE Ladder'
  <2>1. SiteTypeOK' /\ SiteKnown' /\ UNCHANGED <<prefixed, serves>>
    BY <1>1 DEF Ladder, SiteTypeOK, SiteKnown, HasSite, NoHttps, Disputed, Miss, ProbesNext, Probes, Status
  <2>2. probing'[c] = "https" /\ found'[c] = "none" /\ seen'[c] = {}
    BY <1>1 DEF Ladder, SiteTypeOK, Miss, ProbesNext
  <2>3. \A d \in Askers \ {c} :
          /\ probing'[d] = probing[d] /\ found'[d] = found[d]
          /\ seen'[d] = seen[d] /\ missed'[d] = missed[d]
    BY <1>1 DEF Ladder, SiteTypeOK, Miss, ProbesNext
  <2>4. Rung(c)' /\ Ruled(c)'
    BY <2>2 DEF Rung, Ruled
  <2> QED
    BY <2>1, <2>3, <2>4, OneMoves
<1>2. ASSUME NEW c \in Askers, Probe(c) PROVE Ladder'
  BY <1>2, ProbeStep
<1>3. ASSUME NEW c \in Askers, StoreSite(c) PROVE Ladder'
  <2>1. SiteTypeOK' /\ UNCHANGED <<prefixed, serves, missed, found, seen>> /\ spoiled' = missed[c]
    BY <1>3 DEF Ladder, SiteTypeOK, StoreSite, ProbesNext
  <2>2. probing'[c] = "idle"
    BY <1>3 DEF Ladder, SiteTypeOK, StoreSite, ProbesNext
  <2>3. \A d \in Askers \ {c} :
          /\ probing'[d] = probing[d] /\ found'[d] = found[d]
          /\ seen'[d] = seen[d] /\ missed'[d] = missed[d]
    BY <1>3, <2>1 DEF Ladder, SiteTypeOK, StoreSite, ProbesNext
  <2>4. Rung(c)' /\ Ruled(c)'
    BY <2>1, <2>2 DEF Ladder, Rung, Ruled, Probes
  <2>5. SiteKnown'
    <3>1. site' = found[c] /\ probing[c] = "store" /\ Rung(c) /\ (~missed[c] => Ruled(c))
      BY <1>3 DEF Ladder, StoreSite
    <3> QED
      BY <2>1, <3>1 DEF Rung, Ruled, SiteKnown, HasSite, NoHttps, Disputed
  <2> QED
    BY <2>1, <2>3, <2>4, <2>5, OneMoves
<1>4. CASE Expire
  BY <1>4 DEF Ladder, SiteTypeOK, SiteKnown, Rung, Ruled, HasSite, NoHttps, Disputed, Expire
<1>5. CASE UNCHANGED siteVars
  BY <1>5 DEF Ladder, SiteTypeOK, SiteKnown, Rung, Ruled, HasSite, NoHttps, Disputed, siteVars
<1> QED
  BY <1>1, <1>2, <1>3, <1>4, <1>5 DEF SiteNext

\* The inductive invariant: how far a call has come says what it has seen, and
\* while none of its own probes has failed what the servers are.
THEOREM LadderInvariant == SiteSpec => []Ladder
<1>1. SiteInit => Ladder
  BY DEF SiteInit, Ladder, SiteTypeOK, SiteKnown, Rung, Ruled, Probes, Status
<1> QED
  BY <1>1, LadderStep, PTL DEF SiteSpec

\* An answer, cached or fresh, of a lookup none of whose probes failed is that
\* of the rule, however many other lookups fail at once or before
\* (website.py:64-95, check_website; WebsiteCheck.LadderFollowsRule).
THEOREM AnswersFollowRule == SiteSpec => []LadderFollowsRule
<1>1. ASSUME Ladder, ~Disputed, NEW a \in SoundAnswers
      PROVE  Indicates(a) = HasSite
  <2>1. a = "live" <=> HasSite
    BY <1>1 DEF Ladder, SiteKnown, Ruled, SoundAnswers
  <2>2. HasSite \in BOOLEAN /\ (a = "live") \in BOOLEAN
    BY DEF HasSite
  <2>3. (a = "live") = HasSite
    BY <2>1, <2>2
  <2> QED
    BY <2>3 DEF Indicates
<1>2. Ladder => LadderFollowsRule
  BY <1>1 DEF LadderFollowsRule
<1> QED
  BY <1>2, LadderInvariant, PTL

\* Failing probes may hide a site and never invent one, and no later probe of a
\* lookup undoes what an earlier one has seen (WebsiteCheck.SeenSiteCounts).
THEOREM SeenSitesCount == SiteSpec => []SeenSiteCounts
<1>1. Ladder => SeenSiteCounts
  BY DEF Ladder, SiteKnown, Rung, SeenSiteCounts, SiteAnswers, Indicates
<1> QED
  BY <1>1, LadderInvariant, PTL
=============================================================================
