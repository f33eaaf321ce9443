----------------------------- MODULE AntiFraud -----------------------------
(***************************************************************************)
(* AntiFraudFilter: a request counter per address, kept in an LRU cache.   *)
(*                                                                         *)
(* Atomicity.  The cache locks itself for one call of Get or Add, and a    *)
(* counter has its own mutex; nothing is held between the reading of the   *)
(* clock, the lookup and what follows it.  A check is therefore three      *)
(* steps, and other checks, of the same address too, run in between.  The  *)
(* deployed service has one consumer, so one worker; the tests run many.   *)
(*                                                                         *)
(* The cache is golang-lru/v2, outside src/: Get makes its key the most    *)
(* recent, Add replaces or inserts and drops the least recent key when it  *)
(* has grown past its size.                                                *)
(***************************************************************************)
EXTENDS Integers, Sequences, FiniteSets, FiniteSetsExt

CONSTANTS
  Workers,    \* goroutines that call Check
  IPs,        \* addresses that are not empty
  EmptyIP,    \* the empty address
  CacheSize,  \* cfg.AntiFraud.CacheSize
  Limit,      \* cfg.AntiFraud.Limit
  TTL,        \* cfg.AntiFraud.TTL
  MaxClock,   \* bound: the last instant of the run
  MaxChecks   \* bound: calls of Check

(* config.Validate: each of the three is greater than zero. *)
ASSUME ConfigAssumption ==
  /\ CacheSize \in Nat \ {0}
  /\ Limit \in Nat \ {0}
  /\ TTL \in Nat \ {0}

ASSUME BoundsAssumption ==
  /\ MaxClock \in Nat
  /\ MaxChecks \in Nat
  /\ EmptyIP \notin IPs

Times    == 0 .. MaxClock
NoRef    == 0
Counter  == [count : Nat \ {0}, updatedAt : Times]
Call     == [at : {"idle", "get", "add", "count"}, ip : IPs \cup {EmptyIP},
             now : Times, ref : Nat]
Idle     == [at |-> "idle", ip |-> EmptyIP, now |-> 0, ref |-> NoRef]

VARIABLES
  clock,     \* time.Now()
  cache,     \* f.cache: the counter of each address, or NoRef
  fresher,   \* f.cache's order: for a key, the keys used since it was
  counters,  \* every RequestCounter ever made; cache and callers point here
  calls,     \* the locals of Check, for each worker
  checks,    \* calls of Check so far
  passes,    \* history: passes[ip][t] events let through that arrived at t
  evicted,   \* history: addresses the cache has dropped
  since      \* history: the addresses looked up since each one was

vars == <<clock, cache, fresher, counters, calls, checks, passes, evicted, since>>

(* A bug to test the properties with: the lookup's "exists" ignored. *)
AllCached == IPs

Cached == {ip \in IPs : cache[ip] # NoRef}

-----------------------------------------------------------------------------
(* The cache: order of use, insertion and eviction.                        *)

(* ip is used: it is the newest of keys, and newer than all the others. *)
Used(ip, keys) ==
  [x \in IPs |-> IF x \in keys \ {ip} THEN fresher[x] \cup {ip} ELSE {}]

(* A bug to test the properties with: a lookup that does not count as use. *)
CachePeek(ip) == UNCHANGED <<cache, fresher>>

CacheGet(ip) ==
  /\ fresher' = IF ip \in Cached THEN Used(ip, Cached) ELSE fresher
  /\ UNCHANGED cache

(* A bug to test the properties with: a cache that outgrows its size. *)
SurplusLate(ip) ==
  IF Cardinality(Cached \cup {ip}) <= CacheSize + 1 THEN {}
  ELSE {x \in Cached : Cached \ {x} \subseteq fresher[x]}

(* The least recent of the keys, if ip does not fit beside them.           *)
Surplus(ip) ==
  IF Cardinality(Cached \cup {ip}) <= CacheSize THEN {}
  ELSE {x \in Cached : Cached \ {x} \subseteq fresher[x]}

CacheAdd(ip, ref) ==
  LET keys == (Cached \cup {ip}) \ Surplus(ip)
  IN  /\ cache' = [x \in IPs |-> IF x = ip THEN ref
                                 ELSE IF x \in keys THEN cache[x] ELSE NoRef]
      /\ fresher' = Used(ip, keys)
      /\ evicted' = evicted \cup Surplus(ip)

-----------------------------------------------------------------------------
(* Check.                                                                  *)

Return(w) == calls' = [calls EXCEPT ![w] = Idle]

LetPass(w) ==
  passes' = [passes EXCEPT ![calls[w].ip][calls[w].now] = @ + 1]

Arrive(w, ip) ==
  /\ calls[w].at = "idle"
  /\ checks < MaxChecks
  /\ checks' = checks + 1
  /\ UNCHANGED <<clock, cache, fresher, counters, evicted, since>>

(* An event without an address passes. *)
CheckEmpty(w) ==
  /\ Arrive(w, EmptyIP)
  /\ passes' = [passes EXCEPT ![EmptyIP][clock] = @ + 1]
  /\ UNCHANGED calls

ReadClock(w, ip) ==
  /\ Arrive(w, ip)
  /\ calls' = [calls EXCEPT ![w] =
                 [at |-> "get", ip |-> ip, now |-> clock, ref |-> NoRef]]
  /\ UNCHANGED passes

Get(w) ==
  /\ calls[w].at = "get"
  /\ CacheGet(calls[w].ip)
  /\ calls' = [calls EXCEPT
                 ![w].at = IF calls[w].ip \in Cached THEN "count" ELSE "add",
                 ![w].ref = cache[calls[w].ip]]
  /\ since' = [x \in IPs |-> IF x = calls[w].ip THEN {}
                             ELSE since[x] \cup {calls[w].ip}]
  /\ UNCHANGED <<clock, counters, checks, passes, evicted>>

AddCounter(w) ==
  /\ calls[w].at = "add"
  /\ counters' = Append(counters, [count |-> 1, updatedAt |-> calls[w].now])
  /\ CacheAdd(calls[w].ip, Len(counters) + 1)
  /\ LetPass(w)
  /\ Return(w)
  /\ UNCHANGED <<clock, checks, since>>

OverLimitByOne(c) == c.count > Limit + 1
OverLimit(c) == c.count > Limit

NeverExpired(c, now) == FALSE
ExpiredEarly(c, now) == now - c.updatedAt >= TTL
Expired(c, now) == now - c.updatedAt > TTL

Counted(c, now) ==
  IF Expired(c, now) THEN [count |-> 1, updatedAt |-> now]
  ELSE [c EXCEPT !.count = @ + 1]

Count(w) ==
  LET ref == calls[w].ref
      now == calls[w].now
  IN  /\ calls[w].at = "count"
      /\ counters' = [counters EXCEPT ![ref] = Counted(@, now)]
      /\ IF OverLimit(counters'[ref]) THEN UNCHANGED passes ELSE LetPass(w)
      /\ Return(w)
      /\ UNCHANGED <<clock, cache, fresher, checks, evicted, since>>

ClockTick ==
  /\ clock < MaxClock
  /\ clock' = clock + 1
  /\ UNCHANGED <<cache, fresher, counters, calls, checks, passes, evicted, since>>

Init ==
  /\ clock = 0
  /\ cache = [ip \in IPs |-> NoRef]
  /\ fresher = [ip \in IPs |-> {}]
  /\ counters = << >>
  /\ calls = [w \in Workers |-> Idle]
  /\ checks = 0
  /\ passes = [ip \in IPs \cup {EmptyIP} |-> [t \in Times |-> 0]]
  /\ evicted = {}
  /\ since = [ip \in IPs |-> {}]

Next ==
  \/ ClockTick
  \/ \E w \in Workers :
        \/ CheckEmpty(w)
        \/ \E ip \in IPs : ReadClock(w, ip)
        \/ Get(w)
        \/ AddCounter(w)
        \/ Count(w)

Spec == Init /\ [][Next]_vars

-----------------------------------------------------------------------------
(* Properties.                                                             *)

(* The shape of the state; pointers lead to counters that exist.           *)
TypeOK ==
  /\ clock \in Times
  /\ checks \in 0 .. MaxChecks
  /\ counters \in Seq(Counter)
  /\ cache \in [IPs -> 0 .. Len(counters)]
  /\ fresher \in [IPs -> SUBSET IPs]
  /\ calls \in [Workers -> Call]
  /\ \A w \in Workers :
       /\ calls[w].now <= clock
       /\ calls[w].at # "idle" => calls[w].ip \in IPs
       /\ calls[w].at = "count" => calls[w].ref \in 1 .. Len(counters)
  /\ passes \in [IPs \cup {EmptyIP} -> [Times -> Nat]]
  /\ evicted \subseteq IPs
  /\ since \in [IPs -> SUBSET IPs]

(* The memory bound the README gives for the cache: it never holds more    *)
(* than CacheSize addresses, and it knows which one to drop: of any two    *)
(* keys exactly one has been used since the other.                         *)
BoundedLRU ==
  /\ Cardinality(Cached) <= CacheSize
  /\ \A x, y \in Cached : x # y => (x \in fresher[y] <=> y \notin fresher[x])

(* The events of an address that were let through, as <<time, number>>.   *)
Passes(ip) == UNION {{t} \X (1 .. passes[ip][t]) : t \in Times}

PassedIn(ip, from, to) ==
  Cardinality({p \in Passes(ip) : from <= p[1] /\ p[1] <= to})

(* One worker: the fixed windows straddle, so in any stretch of TTL up to  *)
(* twice the limit less one events of an address pass, and never more, as  *)
(* long as the cache has not dropped the address.                          *)
BurstBound ==
  \A ip \in IPs \ evicted, t \in Times :
     PassedIn(ip, t, t + TTL) <= 2 * Limit - 1

(* One worker: Check drops an event only when Limit events of the same     *)
(* address have passed within the TTL before it, so an honest user is not  *)
(* held back by counts of an earlier window or of other addresses.         *)
RejectJustified ==
  [][\A w \in Workers :
       calls[w].at = "count" /\ calls'[w].at = "idle" /\ passes' = passes
       => PassedIn(calls[w].ip, calls[w].now - TTL, calls[w].now) >= Limit]_vars

(* Many workers: the lookup and the insertion of a new counter are two     *)
(* calls, so each worker that found nothing can start the count afresh.    *)
(* Within the first window of an address no more than Limit per worker     *)
(* pass.                                                                   *)
ColdStartBound ==
  \A ip \in IPs \ evicted, t \in Times :
     /\ PassedIn(ip, 0, t - 1) = 0
     /\ clock <= t + TTL
     => PassedIn(ip, t, clock) <= Limit * Cardinality(Workers)

(* What TestAntiFraudFilter_Check_Concurrency requires: of the events of   *)
(* one address, sent by many goroutines within one TTL, Limit pass.        *)
LimitPerWindow ==
  \A ip \in IPs \ evicted, t \in Times :
     /\ PassedIn(ip, 0, t - 1) = 0
     /\ clock <= t + TTL
     => PassedIn(ip, t, clock) <= Limit

(* The window of an address is its cached counter, cut off at the limit. *)
Windows ==
  [ip \in IPs |->
     IF cache[ip] = NoRef THEN [start |-> 0, used |-> 0]
     ELSE [start |-> counters[cache[ip]].updatedAt,
           used  |-> Min({counters[cache[ip]].count, Limit})]]

(* One worker: the filter implements RateLimiter. *)
Limiter == INSTANCE RateLimiter WITH
  Unlimited <- EmptyIP, windows <- Windows, others <- since

LimiterSpec == Limiter!Spec
=============================================================================
