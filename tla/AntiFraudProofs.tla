-------------------------- MODULE AntiFraudProofs --------------------------
(***************************************************************************)
(* Proofs about AntiFraud: for any number of addresses, any size, limit    *)
(* and TTL.  The cache keeps its bound under any number of goroutines;     *)
(* with the one consumer of the service the filter implements RateLimiter. *)
(***************************************************************************)
EXTENDS AntiFraud, FiniteSetTheorems, SequenceTheorems, WellFoundedInduction, TLAPS

-----------------------------------------------------------------------------
(* Types.                                                                  *)

(* Counting an event leaves a counter. *)
LEMMA CountedType ==
  ASSUME NEW c \in Counter, NEW now \in Times
  PROVE  Counted(c, now) \in Counter
BY DEF Counted, Counter, Times

(* What a call of Count does to the counters. *)
LEMMA CountWrites ==
  ASSUME TypeOK, NEW w \in Workers, Count(w)
  PROVE  LET ref == calls[w].ref
         IN  /\ ref \in 1 .. Len(counters)
             /\ counters' = [counters EXCEPT ![ref] = Counted(counters[ref], calls[w].now)]
             /\ counters' \in Seq(Counter)
             /\ Len(counters') = Len(counters)
             /\ counters'[ref] = Counted(counters[ref], calls[w].now)
             /\ \A j \in 1 .. Len(counters) \ {ref} : counters'[j] = counters[j]
<1> DEFINE ref == calls[w].ref
           new == Counted(counters[ref], calls[w].now)
<1>1. ref \in 1 .. Len(counters) /\ counters \in Seq(Counter) /\ calls[w] \in Call
  BY DEF TypeOK, Count
<1>2. new \in Counter
  BY <1>1, CountedType, ElementOfSeq DEF Call
<1>3. counters' = [counters EXCEPT ![ref] = new]
  BY DEF Count
<1> HIDE DEF new, ref
<1>4. /\ counters' \in Seq(Counter) /\ Len(counters') = Len(counters)
      /\ \A j \in 1 .. Len(counters) : counters'[j] = IF j = ref THEN new ELSE counters[j]
  BY <1>1, <1>2, <1>3, ExceptSeq
<1> QED BY <1>1, <1>3, <1>4 DEF new, ref

(* What the insertion of a new counter does to them. *)
LEMMA AddWrites ==
  ASSUME TypeOK, NEW w \in Workers, AddCounter(w)
  PROVE  /\ counters' \in Seq(Counter)
         /\ Len(counters') = Len(counters) + 1
         /\ counters'[Len(counters) + 1] = [count |-> 1, updatedAt |-> calls[w].now]
         /\ \A j \in 1 .. Len(counters) : counters'[j] = counters[j]
<1> DEFINE new == [count |-> 1, updatedAt |-> calls[w].now]
<1>1. counters \in Seq(Counter) /\ calls[w] \in Call
  BY DEF TypeOK
<1>2. new \in Counter
  BY <1>1 DEF Call, Counter
<1>3. counters' = Append(counters, new)
  BY DEF AddCounter
<1> HIDE DEF new
<1> QED BY <1>1, <1>2, <1>3, AppendProperties DEF new

(* An event that passes is counted for its address and its time. *)
LEMMA PassType ==
  ASSUME passes \in [IPs \cup {EmptyIP} -> [Times -> Nat]],
         NEW ip \in IPs \cup {EmptyIP}, NEW t \in Times
  PROVE  [passes EXCEPT ![ip][t] = @ + 1] \in [IPs \cup {EmptyIP} -> [Times -> Nat]]
OBVIOUS

(* A lookup fills in where a call goes on and with which counter. *)
LEMMA CallType ==
  ASSUME NEW c \in Call, NEW at \in {"idle", "get", "add", "count"}, NEW ref \in Nat
  PROVE  [c EXCEPT !.at = at, !.ref = ref] \in Call
BY DEF Call

(* Every step of every worker keeps the shape of the state. *)
LEMMA TypeStep ==
  ASSUME TypeOK, [Next]_vars
  PROVE  TypeOK'
<1>1. CASE ClockTick
  BY <1>1, BoundsAssumption DEF TypeOK, ClockTick, Times, Call
<1>2. ASSUME NEW w \in Workers, CheckEmpty(w)
      PROVE  TypeOK'
  <2>1. passes' \in [IPs \cup {EmptyIP} -> [Times -> Nat]]
    BY <1>2, PassType DEF TypeOK, CheckEmpty
  <2>2. checks' \in 0 .. MaxChecks
    BY <1>2, BoundsAssumption DEF TypeOK, CheckEmpty, Arrive
  <2> QED BY <1>2, <2>1, <2>2 DEF TypeOK, CheckEmpty, Arrive
<1>3. ASSUME NEW w \in Workers, NEW ip \in IPs, ReadClock(w, ip)
      PROVE  TypeOK'
  <2> DEFINE call == [at |-> "get", ip |-> ip, now |-> clock, ref |-> NoRef]
  <2>1. call \in Call
    BY DEF TypeOK, Call, NoRef
  <2>2. calls' = [calls EXCEPT ![w] = call]
    BY <1>3 DEF ReadClock
  <2>3. \A v \in Workers : calls'[v] = IF v = w THEN call ELSE calls[v]
    BY <2>2 DEF TypeOK
  <2>4. UNCHANGED <<clock, cache, fresher, counters, passes, evicted, since>>
        /\ checks' \in 0 .. MaxChecks
    BY <1>3, BoundsAssumption DEF ReadClock, Arrive, TypeOK
  <2> QED BY <2>1, <2>2, <2>3, <2>4 DEF TypeOK, Times
<1>4. ASSUME NEW w \in Workers, Get(w)
      PROVE  TypeOK'
  <2> DEFINE call == [calls[w] EXCEPT !.at = IF calls[w].ip \in Cached THEN "count" ELSE "add",
                                      !.ref = cache[calls[w].ip]]
  <2>1. calls[w] \in Call /\ calls[w].ip \in IPs /\ cache[calls[w].ip] \in 0 .. Len(counters)
        /\ calls[w].now <= clock
    BY <1>4 DEF TypeOK, Get
  <2>2. Len(counters) \in Nat
    BY LenProperties DEF TypeOK
  <2>3. call \in Call /\ call.now <= clock /\ call.ip \in IPs
        /\ (call.at = "count" => call.ref \in 1 .. Len(counters))
    <3>1. /\ call.at = (IF calls[w].ip \in Cached THEN "count" ELSE "add")
          /\ call.ref = cache[calls[w].ip]
          /\ call.ip = calls[w].ip /\ call.now = calls[w].now
      BY <2>1 DEF Call
    <3>2. call \in Call
      <4>1. cache[calls[w].ip] \in Nat
        BY <2>1, <2>2
      <4> QED BY <2>1, <4>1, CallType
    <3>3. calls[w].ip \in Cached => cache[calls[w].ip] \in 1 .. Len(counters)
      BY <2>1, <2>2 DEF Cached, NoRef
    <3> QED BY <2>1, <3>1, <3>2, <3>3
  <2>4. calls' = [calls EXCEPT ![w] = call]
    BY <1>4 DEF Get, TypeOK, Call
  <2>5. \A v \in Workers : calls'[v] = IF v = w THEN call ELSE calls[v]
    BY <2>4 DEF TypeOK
  <2>6. fresher' \in [IPs -> SUBSET IPs]
    BY <1>4, <2>1 DEF Get, CacheGet, Used, TypeOK, Cached
  <2>7. since' \in [IPs -> SUBSET IPs]
    BY <1>4, <2>1 DEF Get, TypeOK
  <2>8. UNCHANGED <<clock, counters, checks, passes, evicted, cache>>
    BY <1>4 DEF Get, CacheGet
  <2> HIDE DEF call
  <2> QED BY <2>3, <2>4, <2>5, <2>6, <2>7, <2>8 DEF TypeOK
<1>5. ASSUME NEW w \in Workers, AddCounter(w) \/ Count(w)
      PROVE  TypeOK'
  <2>1. calls[w] \in Call /\ calls[w].ip \in IPs
    BY <1>5 DEF TypeOK, AddCounter, Count
  <2>2. Idle \in Call /\ Idle.now = 0 /\ Idle.at = "idle"
    BY BoundsAssumption DEF Idle, Call, Times, NoRef
  <2>3. \A v \in Workers : calls'[v] = IF v = w THEN Idle ELSE calls[v]
    BY <1>5 DEF TypeOK, AddCounter, Count, Return
  <2>4. calls' \in [Workers -> Call]
    BY <1>5, <2>2 DEF TypeOK, AddCounter, Count, Return
  <2>5. passes' \in [IPs \cup {EmptyIP} -> [Times -> Nat]]
    <3>1. /\ calls[w].ip \in IPs \cup {EmptyIP} /\ calls[w].now \in Times
          /\ passes \in [IPs \cup {EmptyIP} -> [Times -> Nat]]
      BY <2>1 DEF TypeOK, Call
    <3>2. LetPass(w) => passes' \in [IPs \cup {EmptyIP} -> [Times -> Nat]]
      BY <3>1, PassType DEF LetPass
    <3> QED BY <1>5, <3>1, <3>2 DEF AddCounter, Count
  <2>6. /\ counters' \in Seq(Counter) /\ Len(counters') \in Nat /\ Len(counters) \in Nat
        /\ Len(counters) <= Len(counters')
        /\ AddCounter(w) => Len(counters') = Len(counters) + 1
    <3>1. Len(counters) \in Nat
      BY LenProperties DEF TypeOK
    <3>2. CASE AddCounter(w)
      <4>1. counters' \in Seq(Counter) /\ Len(counters') = Len(counters) + 1
        BY <3>2, AddWrites, Zenon
      <4> QED BY <3>1, <4>1
    <3>3. CASE Count(w)
      <4>1. counters' \in Seq(Counter) /\ Len(counters') = Len(counters)
        BY <3>3, CountWrites
      <4>2. ~AddCounter(w)
        BY <3>3 DEF AddCounter, Count
      <4> QED BY <3>1, <4>1, <4>2
    <3> QED BY <1>5, <3>2, <3>3
  <2>7. cache' \in [IPs -> 0 .. Len(counters')]
    <3>1. CASE AddCounter(w)
      BY <2>1, <2>6, <3>1 DEF AddCounter, CacheAdd, TypeOK, NoRef
    <3>2. CASE Count(w)
      BY <2>6, <3>2 DEF Count, TypeOK
    <3> QED BY <1>5, <3>1, <3>2
  <2>8. fresher' \in [IPs -> SUBSET IPs] /\ evicted' \subseteq IPs
    <3>1. CASE AddCounter(w)
      <4>1. \A keys : Used(calls[w].ip, keys) \in [IPs -> SUBSET IPs]
        BY <2>1 DEF Used, TypeOK
      <4>2. Surplus(calls[w].ip) \subseteq IPs
        BY DEF Surplus, Cached
      <4> QED BY <3>1, <4>1, <4>2 DEF AddCounter, CacheAdd, TypeOK
    <3>2. CASE Count(w)
      BY <3>2 DEF Count, TypeOK
    <3> QED BY <1>5, <3>1, <3>2
  <2>9. UNCHANGED <<clock, checks, since>>
    BY <1>5 DEF AddCounter, Count
  <2>10. \A v \in Workers :
           /\ calls'[v].now <= clock
           /\ calls'[v].at # "idle" => calls'[v].ip \in IPs
           /\ calls'[v].at = "count" => calls'[v].ref \in 1 .. Len(counters')
    BY <2>2, <2>3, <2>6 DEF TypeOK, Times
  <2> QED BY <2>4, <2>5, <2>6, <2>7, <2>8, <2>9, <2>10 DEF TypeOK
<1>6. CASE UNCHANGED vars
  BY <1>6 DEF TypeOK, vars
<1> QED BY <1>1, <1>2, <1>3, <1>4, <1>5, <1>6 DEF Next

(* The initial state has its shape. *)
LEMMA TypeInit == Init => TypeOK
<1> SUFFICES ASSUME Init PROVE TypeOK
  OBVIOUS
<1>1. counters \in Seq(Counter) /\ Len(counters) = 0
  BY DEF Init
<1>2. Idle \in Call /\ Idle.now = 0 /\ Idle.at = "idle"
  BY BoundsAssumption DEF Idle, Call, Times, NoRef
<1> QED BY <1>1, <1>2, BoundsAssumption DEF Init, TypeOK, Times, NoRef

(* The shape of the state: whatever is cached or held by a call points to  *)
(* a counter that exists.                                                  *)
THEOREM TypeCorrect == Spec => []TypeOK
BY TypeInit, TypeStep, PTL DEF Spec

-----------------------------------------------------------------------------
(* The cache.                                                              *)

(* Use orders the keys: "used since" is a strict total order on them. *)
InOrder ==
  /\ \A x \in Cached : x \notin fresher[x]
  /\ \A x, y \in Cached : x # y => (x \in fresher[y] <=> y \notin fresher[x])
  /\ \A x, y, z \in Cached : x \in fresher[y] /\ y \in fresher[z] => x \in fresher[z]

CacheInv ==
  /\ InOrder
  /\ IsFiniteSet(Cached)
  /\ Cardinality(Cached) <= CacheSize

(* An order on finitely many keys has a least one: the cache always has a  *)
(* key to drop.                                                            *)
LEMMA LeastKey ==
  ASSUME InOrder, IsFiniteSet(Cached), Cached # {}
  PROVE  \E x \in Cached : Cached \ {x} \subseteq fresher[x]
<1> DEFINE Older(x) == Cached \ fresher[x]
           sets == {Older(x) : x \in Cached}
           below == StrictSubsetOrdering(Cached)
<1>1. IsWellFoundedOn(below, FiniteSubsetsOf(Cached))
  BY FS_StrictSubsetOrderingWellFounded
<1>2. sets \subseteq FiniteSubsetsOf(Cached) /\ sets # {}
  <2>1. FiniteSubsetsOf(Cached) = SUBSET Cached
    BY FS_FiniteSubsetsOfFinite
  <2>2. ASSUME NEW t \in sets PROVE t \in SUBSET Cached
    OBVIOUS
  <2>3. PICK x \in Cached : TRUE
    OBVIOUS
  <2>4. Older(x) \in sets
    BY <2>3
  <2> QED BY <2>1, <2>2, <2>4
<1> HIDE DEF sets, below
<1>3. PICK s \in sets : \A t \in sets : <<t, s>> \notin below
  BY <1>1, <1>2, WFMin
<1>4. PICK x \in Cached : s = Older(x)
  BY <1>3 DEF sets
<1>5. ASSUME NEW y \in Cached \ {x}, y \notin fresher[x]
      PROVE  FALSE
  <2>1. x \in fresher[y]
    BY <1>5 DEF InOrder
  <2>2. Older(y) \subseteq Older(x)
    BY <2>1 DEF InOrder
  <2>3. x \in Older(x) /\ x \notin Older(y)
    BY <2>1 DEF InOrder
  <2>4. Older(y) \in sets /\ <<Older(y), Older(x)>> \in below
    BY <2>2, <2>3 DEF sets, below, StrictSubsetOrdering
  <2> QED BY <1>3, <1>4, <2>4
<1> QED BY <1>5

(* Use keeps the order: the key used is the newest. *)
LEMMA UseKeepsOrder ==
  ASSUME InOrder, NEW ip \in IPs, NEW keys \in SUBSET IPs, keys \ {ip} \subseteq Cached,
         fresher' = Used(ip, keys), Cached' = keys
  PROVE  InOrder'
<1>1. fresher'[ip] = {} /\ \A x \in keys \ {ip} : fresher'[x] = fresher[x] \cup {ip}
  BY DEF Used
<1>2. \A x \in Cached : x \notin fresher[x]
  BY DEF InOrder
<1>3. \A x, y \in Cached : x # y => (x \in fresher[y] <=> y \notin fresher[x])
  BY DEF InOrder
<1>4. \A x, y, z \in Cached : x \in fresher[y] /\ y \in fresher[z] => x \in fresher[z]
  BY DEF InOrder
<1>5. \A x \in keys : x \notin fresher'[x]
  BY <1>1, <1>2
<1>6. \A x, y \in keys : x # y => (x \in fresher'[y] <=> y \notin fresher'[x])
  BY <1>1, <1>3
<1>7. \A x, y, z \in keys : x \in fresher'[y] /\ y \in fresher'[z] => x \in fresher'[z]
  BY <1>1, <1>4
<1> QED BY <1>5, <1>6, <1>7 DEF InOrder

(* An insertion leaves the cache within its bound. *)
LEMMA InsertKeepsBound ==
  ASSUME CacheInv, NEW ip \in IPs
  PROVE  LET keys == (Cached \cup {ip}) \ Surplus(ip)
         IN  ip \in keys /\ IsFiniteSet(keys) /\ Cardinality(keys) <= CacheSize
<1> DEFINE wide == Cached \cup {ip}
           keys == wide \ Surplus(ip)
<1>1. /\ IsFiniteSet(wide) /\ Cardinality(wide) \in Nat /\ Cardinality(Cached) \in Nat
      /\ Cardinality(wide) = IF ip \in Cached THEN Cardinality(Cached)
                             ELSE Cardinality(Cached) + 1
  BY FS_AddElement, FS_CardinalityType DEF CacheInv
<1>2. CASE Cardinality(wide) <= CacheSize
  BY <1>1, <1>2 DEF Surplus
<1>3. CASE ~(Cardinality(wide) <= CacheSize)
  <2>1. ip \notin Cached /\ Cardinality(Cached) = CacheSize
    BY <1>1, <1>3, ConfigAssumption DEF CacheInv
  <2>2. Cached # {}
    BY <2>1, FS_EmptySet, ConfigAssumption
  <2>3. PICK x \in Cached : Cached \ {x} \subseteq fresher[x]
    BY <2>2, LeastKey DEF CacheInv
  <2>4. Surplus(ip) \subseteq Cached /\ x \in Surplus(ip)
    BY <1>3, <2>3 DEF Surplus
  <2>5. /\ IsFiniteSet(wide \ {x}) /\ Cardinality(wide \ {x}) = Cardinality(wide) - 1
    BY <1>1, <2>3, FS_RemoveElement
  <2>6. keys \subseteq wide \ {x}
    BY <2>4
  <2>7. IsFiniteSet(keys) /\ Cardinality(keys) <= Cardinality(wide \ {x})
    BY <2>5, <2>6, FS_Subset
  <2>8. Cardinality(keys) \in Nat
    BY <2>7, FS_CardinalityType
  <2> QED BY <1>1, <2>1, <2>4, <2>5, <2>7, <2>8, ConfigAssumption
<1> QED BY <1>2, <1>3

(* Every step keeps the order of use total and the cache within its size. *)
LEMMA CacheStep ==
  ASSUME TypeOK, CacheInv, [Next]_vars
  PROVE  CacheInv'
<1>1. CASE UNCHANGED <<cache, fresher>>
  BY <1>1 DEF CacheInv, InOrder, Cached
<1>2. ASSUME NEW w \in Workers, Get(w)
      PROVE  CacheInv'
  <2>1. calls[w].ip \in IPs /\ Cached' = Cached /\ Cached \subseteq IPs
    BY <1>2 DEF TypeOK, Get, CacheGet, Cached
  <2>2. CASE calls[w].ip \in Cached
    <3>1. fresher' = Used(calls[w].ip, Cached)
      BY <1>2, <2>2 DEF Get, CacheGet
    <3>2. InOrder'
      BY <2>1, <3>1, UseKeepsOrder DEF CacheInv
    <3> QED BY <2>1, <3>2 DEF CacheInv
  <2>3. CASE calls[w].ip \notin Cached
    BY <1>1, <1>2, <2>3 DEF Get, CacheGet
  <2> QED BY <2>2, <2>3
<1>3. ASSUME NEW w \in Workers, AddCounter(w)
      PROVE  CacheInv'
  <2> DEFINE ip == calls[w].ip
             keys == (Cached \cup {ip}) \ Surplus(ip)
  <2>1. ip \in IPs /\ Len(counters) \in Nat
    BY <1>3, LenProperties DEF TypeOK, AddCounter
  <2>2. ip \in keys /\ IsFiniteSet(keys) /\ Cardinality(keys) <= CacheSize
    BY <2>1, InsertKeepsBound
  <2>3. keys \in SUBSET IPs /\ keys \ {ip} \subseteq Cached
    BY <2>1 DEF Cached
  <2>4. /\ cache' = [x \in IPs |-> IF x = ip THEN Len(counters) + 1
                                   ELSE IF x \in keys THEN cache[x] ELSE NoRef]
        /\ fresher' = Used(ip, keys)
    BY <1>3 DEF AddCounter, CacheAdd
  <2> HIDE DEF ip, keys
  <2>5. Cached' = keys
    BY <2>1, <2>2, <2>3, <2>4 DEF Cached, NoRef
  <2>6. InOrder'
    BY <2>1, <2>3, <2>4, <2>5, UseKeepsOrder DEF CacheInv
  <2> QED BY <2>2, <2>5, <2>6 DEF CacheInv
<1> QED BY <1>1, <1>2, <1>3
        DEF Next, vars, ClockTick, CheckEmpty, ReadClock, Arrive, Count

(* Whatever the goroutines do between a lookup and an insertion, the cache *)
(* stays within its size and knows which key to drop.                      *)
THEOREM CacheBounded == Spec => []BoundedLRU
<1>1. Init => CacheInv
  <2> SUFFICES ASSUME Init PROVE CacheInv
    OBVIOUS
  <2>1. Cached = {}
    BY DEF Init, Cached
  <2> QED BY <2>1, FS_EmptySet, ConfigAssumption DEF CacheInv, InOrder
<1>2. CacheInv => BoundedLRU
  BY DEF CacheInv, InOrder, BoundedLRU
<1> QED BY <1>1, <1>2, CacheStep, TypeCorrect, PTL DEF Spec

-----------------------------------------------------------------------------
(* One consumer: the filter implements RateLimiter.                        *)

(* With one goroutine nothing happens between a lookup and what follows:   *)
(* what the call knows of the cache stays true, no two addresses share a   *)
(* counter, and the cache's order is the order of the lookups.             *)
SoloInv(w) ==
  /\ \A x, y \in Cached : x # y => cache[x] # cache[y]
  /\ \A x \in Cached : fresher[x] \subseteq since[x]
  /\ calls[w].at \in {"add", "count"} =>
       \A x \in IPs \ {calls[w].ip} : calls[w].ip \in since[x]
  /\ calls[w].at = "add" => calls[w].ip \notin Cached
  /\ calls[w].at = "count" => cache[calls[w].ip] = calls[w].ref
  /\ \A x \in IPs : IsFiniteSet(since[x])

(* What one consumer keeps: no two addresses share a counter, and who was  *)
(* used since is among who was seen since.                                 *)
LEMMA SoloStep ==
  ASSUME NEW w, Workers = {w}, TypeOK, CacheInv, SoloInv(w), [Next]_vars
  PROVE  SoloInv(w)'
<1>1. ASSUME Cached' = Cached, UNCHANGED <<cache, fresher, since>>,
             calls'[w].at \in {"idle", "get"} \/ calls'[w] = calls[w]
      PROVE  SoloInv(w)'
  BY <1>1 DEF SoloInv
<1>2. CASE UNCHANGED <<cache, fresher, since, calls>>
  BY <1>1, <1>2 DEF Cached
<1>3. ASSUME NEW ip \in IPs, ReadClock(w, ip)
      PROVE  SoloInv(w)'
  BY <1>1, <1>3 DEF ReadClock, Arrive, Cached, TypeOK
<1>4. CASE Count(w)
  BY <1>1, <1>4 DEF Count, Return, Cached, TypeOK, Idle
<1>5. CASE Get(w)
  <2> DEFINE ip == calls[w].ip
  <2>1. ip \in IPs /\ calls[w] \in Call /\ Cached' = Cached /\ cache' = cache
        /\ Cached \subseteq IPs
    BY <1>5 DEF TypeOK, Get, CacheGet, Cached
  <2>2. /\ calls'[w].at = IF ip \in Cached THEN "count" ELSE "add"
        /\ calls'[w].ip = ip /\ calls'[w].ref = cache[ip]
    BY <1>5, <2>1 DEF Get, TypeOK, Call
  <2>3. since' = [x \in IPs |-> IF x = ip THEN {} ELSE since[x] \cup {ip}]
    BY <1>5 DEF Get
  <2>4. \A x \in Cached : fresher'[x] \subseteq since'[x]
    <3>1. CASE ip \in Cached
      <4>1. fresher' = [x \in IPs |-> IF x \in Cached \ {ip} THEN fresher[x] \cup {ip} ELSE {}]
        BY <1>5, <3>1 DEF Get, CacheGet, Used
      <4> QED BY <2>1, <2>3, <4>1 DEF SoloInv
    <3>2. CASE ip \notin Cached
      <4>1. fresher' = fresher
        BY <1>5, <3>2 DEF Get, CacheGet
      <4> QED BY <2>1, <2>3, <3>2, <4>1 DEF SoloInv
    <3> QED BY <3>1, <3>2
  <2>5. \A x \in IPs \ {ip} : ip \in since'[x]
    BY <2>3
  <2>6. \A x \in IPs : IsFiniteSet(since'[x])
    <3>1. \A x \in IPs : IsFiniteSet(since[x] \cup {ip})
      BY FS_AddElement DEF SoloInv
    <3> QED BY <2>3, <3>1, FS_EmptySet
  <2> QED BY <2>1, <2>2, <2>4, <2>5, <2>6 DEF SoloInv
<1>6. CASE AddCounter(w)
  <2> DEFINE ip == calls[w].ip
             keys == (Cached \cup {ip}) \ Surplus(ip)
  <2>1. ip \in IPs /\ Len(counters) \in Nat /\ cache \in [IPs -> 0 .. Len(counters)]
    BY <1>6, LenProperties DEF TypeOK, AddCounter
  <2>2. /\ cache' = [x \in IPs |-> IF x = ip THEN Len(counters) + 1
                                   ELSE IF x \in keys THEN cache[x] ELSE NoRef]
        /\ fresher' = [x \in IPs |-> IF x \in keys \ {ip} THEN fresher[x] \cup {ip} ELSE {}]
        /\ since' = since
    BY <1>6 DEF AddCounter, CacheAdd, Used
  <2>3. \A x \in IPs \ {ip} : ip \in since[x]
    BY <1>6 DEF SoloInv, AddCounter
  <2>4. calls'[w].at = "idle"
    BY <1>6 DEF AddCounter, Return, Idle, TypeOK
  <2>5. keys \ {ip} \subseteq Cached /\ Cached' \subseteq IPs
    BY DEF Cached
  <2> HIDE DEF ip, keys
  <2>6. \A x \in Cached' : x # ip => x \in keys \ {ip} /\ cache'[x] = cache[x]
    <3>1. ASSUME NEW x \in Cached', x # ip
          PROVE  x \in keys \ {ip} /\ cache'[x] = cache[x]
      <4>1. x \in IPs /\ cache'[x] # NoRef
        BY <3>1 DEF Cached
      <4> QED BY <2>2, <3>1, <4>1
    <3> QED BY <3>1
  <2>7. cache'[ip] = Len(counters) + 1
    BY <2>1, <2>2
  <2>8. \A x, y \in Cached' : x # y => cache'[x] # cache'[y]
    <3>1. \A x \in Cached : cache[x] \in 0 .. Len(counters)
      BY <2>1 DEF Cached
    <3>2. \A x \in Cached' : x # ip => x \in Cached /\ cache'[x] = cache[x]
      BY <2>5, <2>6
    <3> QED BY <2>1, <2>7, <3>1, <3>2 DEF SoloInv
  <2>9. \A x \in Cached' : fresher'[x] \subseteq since'[x]
    BY <2>2, <2>3, <2>5, <2>6 DEF SoloInv
  <2>10. \A x \in IPs : IsFiniteSet(since'[x])
    BY <2>2 DEF SoloInv
  <2> QED BY <2>4, <2>8, <2>9, <2>10 DEF SoloInv
<1> QED BY <1>2, <1>3, <1>4, <1>5, <1>6
        DEF Next, vars, ClockTick, CheckEmpty, Arrive

(* The smaller of two numbers, as FiniteSetsExt defines it. *)
LEMMA MinOfTwo ==
  ASSUME NEW a \in Int, NEW b \in Int
  PROVE  Min({a, b}) = IF a <= b THEN a ELSE b
<1>1. PICK m \in {a, b} : \A y \in {a, b} : m <= y
  BY SMT
<1>2. Min({a, b}) \in {a, b} /\ \A y \in {a, b} : Min({a, b}) <= y
  BY <1>1 DEF Min
<1> QED BY <1>2

(* The window of an address, in numbers. *)
LEMMA WindowOf ==
  ASSUME TypeOK, NEW ip \in IPs
  PROVE  /\ cache[ip] = NoRef => Windows[ip] = Limiter!None
         /\ cache[ip] # NoRef =>
              LET c == counters[cache[ip]]
              IN  /\ c \in Counter
                  /\ Windows[ip] =
                       [start |-> c.updatedAt,
                        used |-> IF c.count <= Limit THEN c.count ELSE Limit]
                  /\ Windows[ip] # Limiter!None
<1>1. CASE cache[ip] = NoRef
  BY <1>1 DEF Windows, Limiter!None
<1>2. CASE cache[ip] # NoRef
  <2> DEFINE c == counters[cache[ip]]
  <2>1. cache[ip] \in 1 .. Len(counters) /\ counters \in Seq(Counter)
    BY <1>2, LenProperties DEF TypeOK, NoRef
  <2>2. c \in Counter
    BY <2>1, ElementOfSeq
  <2> HIDE DEF c
  <2>3. c.count \in Nat /\ c.count >= 1 /\ Limit \in Nat /\ Limit >= 1
    BY <2>2, ConfigAssumption DEF Counter
  <2>4. Min({c.count, Limit}) = IF c.count <= Limit THEN c.count ELSE Limit
    BY <2>3, MinOfTwo
  <2>5. Windows[ip] = [start |-> c.updatedAt, used |-> Min({c.count, Limit})]
    BY <1>2 DEF Windows, c
  <2>6. Windows[ip].used >= 1
    BY <2>3, <2>4, <2>5
  <2>7. Windows[ip] # Limiter!None
    BY <2>6 DEF Limiter!None
  <2> QED BY <1>2, <2>2, <2>4, <2>5, <2>7 DEF c
<1> QED BY <1>1, <1>2

(* A new counter is a new window, and the key it displaces has not been    *)
(* seen for CacheSize other addresses.                                     *)
LEMMA AddRefines ==
  ASSUME NEW w, Workers = {w}, TypeOK, TypeOK', CacheInv, SoloInv(w), AddCounter(w)
  PROVE  Limiter!Admit(calls[w].ip, calls[w].now)
<1> DEFINE ip == calls[w].ip
           now == calls[w].now
           gone == Surplus(ip)
           keys == (Cached \cup {ip}) \ gone
<1>1. /\ ip \in IPs /\ cache[ip] = NoRef /\ ip \notin gone
  BY DEF TypeOK, AddCounter, SoloInv, Cached, Surplus
<1>2. \A x, y \in gone : x = y
  BY DEF Surplus, CacheInv, InOrder
<1>3. ASSUME NEW x \in gone
      PROVE  Cardinality(since[x]) >= CacheSize
  <2> DEFINE wide == Cached \cup {ip}
  <2>1. x \in Cached /\ Cached \ {x} \subseteq fresher[x] /\ x \in IPs
    BY <1>3 DEF Surplus, Cached
  <2>2. wide \ {x} \subseteq since[x]
    BY <1>1, <2>1 DEF SoloInv, AddCounter
  <2>3. IsFiniteSet(wide) /\ Cardinality(wide) \in Nat
    BY FS_AddElement, FS_CardinalityType DEF CacheInv
  <2>4. IsFiniteSet(wide \ {x}) /\ Cardinality(wide \ {x}) = Cardinality(wide) - 1
    BY <2>1, <2>3, FS_RemoveElement
  <2>5. /\ Cardinality(wide \ {x}) <= Cardinality(since[x])
        /\ Cardinality(since[x]) \in Nat
    BY <2>1, <2>2, FS_Subset, FS_CardinalityType DEF SoloInv
  <2>6. ~(Cardinality(wide) <= CacheSize)
    BY <1>3 DEF Surplus
  <2> HIDE DEF wide
  <2> QED BY <2>3, <2>4, <2>5, <2>6, ConfigAssumption
<1>4. gone \in {{}} \cup {{x} : x \in IPs \ {ip}}
  <2>1. gone \subseteq IPs \ {ip}
    BY <1>1 DEF Surplus, Cached
  <2>2. CASE gone # {}
    <3>1. PICK x \in gone : TRUE
      BY <2>2
    <3>2. gone = {x}
      BY <1>2, <3>1
    <3> QED BY <2>1, <3>2
  <2> QED BY <2>2
<1>5. cache' = [x \in IPs |-> IF x = ip THEN Len(counters) + 1
                              ELSE IF x \in keys THEN cache[x] ELSE NoRef]
  BY DEF AddCounter, CacheAdd
<1>6. Len(counters) \in Nat /\ cache \in [IPs -> 0 .. Len(counters)]
  BY LenProperties DEF TypeOK
<1>7. Windows'[ip] = [start |-> now, used |-> 1]
  <2>1. cache'[ip] = Len(counters) + 1 /\ cache'[ip] # NoRef
    BY <1>1, <1>5, <1>6 DEF NoRef
  <2>2. counters'[cache'[ip]] = [count |-> 1, updatedAt |-> now]
    BY <2>1, AddWrites
  <2>3. Min({1, Limit}) = 1
    BY MinOfTwo, ConfigAssumption
  <2>4. Windows'[ip] = [start |-> counters'[cache'[ip]].updatedAt,
                        used |-> Min({counters'[cache'[ip]].count, Limit})]
    BY <1>1, <2>1 DEF Windows
  <2> QED BY <2>2, <2>3, <2>4
<1>8. ASSUME NEW x \in IPs \ {ip}
      PROVE  Windows'[x] = IF x \in gone THEN Limiter!None ELSE Windows[x]
  <2>1. CASE cache'[x] = NoRef
    <3>1. x \in gone \/ cache[x] = NoRef
      BY <1>5, <2>1 DEF Cached
    <3>2. Windows'[x] = Limiter!None
      BY <2>1 DEF Windows, Limiter!None
    <3> QED BY <3>1, <3>2, WindowOf
  <2>2. CASE cache'[x] # NoRef
    <3>1. x \notin gone /\ cache'[x] = cache[x] /\ cache[x] \in 1 .. Len(counters)
      BY <1>5, <1>6, <2>2 DEF NoRef
    <3>2. counters'[cache[x]] = counters[cache[x]]
      BY <3>1, AddWrites
    <3> QED BY <2>2, <3>1, <3>2 DEF Windows
  <2> QED BY <2>1, <2>2
<1>9. Windows' = [x \in IPs |-> IF x = ip THEN [start |-> now, used |-> 1]
                                ELSE IF x \in gone THEN Limiter!None ELSE Windows[x]]
  <2>1. Windows' = [x \in IPs |-> Windows'[x]]
    BY DEF Windows
  <2> QED BY <1>1, <1>7, <1>8, <2>1
<1>10. Limiter!Passed(ip, now) /\ UNCHANGED <<clock, since>>
  BY DEF AddCounter, LetPass, Limiter!Passed
<1>11. Windows[ip] = Limiter!None
  BY <1>1, WindowOf
<1>12. \E forgotten \in {{}} \cup {{x} : x \in IPs \ {ip}} :
         /\ \A x \in forgotten : Cardinality(since[x]) >= CacheSize
         /\ Windows' = [x \in IPs |-> IF x = ip THEN [start |-> now, used |-> 1]
                                     ELSE IF x \in forgotten THEN Limiter!None
                                     ELSE Windows[x]]
  <2> WITNESS gone \in {{}} \cup {{x} : x \in IPs \ {ip}}
  <2> QED BY <1>3, <1>9
<1> HIDE DEF ip, now, gone, keys
<1>13. \A S : Limiter!Cardinality(S) = Cardinality(S)
  BY Zenon DEF Limiter!Cardinality, Cardinality
<1>14. Limiter!Admit(ip, now)
  BY <1>10, <1>11, <1>12, <1>13, Zenon DEF Limiter!Admit
<1> QED BY <1>14 DEF ip, now

(* Counting is a pass in the open window, the opening of a new one, or a   *)
(* refusal, which changes nothing.                                         *)
LEMMA CountRefines ==
  ASSUME NEW w, Workers = {w}, TypeOK, SoloInv(w), Count(w)
  PROVE  LET ip == calls[w].ip
             now == calls[w].now
         IN  Limiter!Reopen(ip, now) \/ Limiter!Pass(ip, now) \/ UNCHANGED Limiter!vars
<1> DEFINE ip == calls[w].ip
           now == calls[w].now
           ref == calls[w].ref
           c == counters[ref]
           new == Counted(c, now)
<1>1. /\ ip \in IPs /\ cache[ip] = ref /\ ref \in 1 .. Len(counters) /\ ref # NoRef
      /\ now \in Times /\ counters \in Seq(Counter)
  BY DEF TypeOK, Count, SoloInv, NoRef, Call
<1>2. c \in Counter /\ counters'[ref] = new
      /\ \A j \in 1 .. Len(counters) \ {ref} : counters'[j] = counters[j]
  BY <1>1, ElementOfSeq, CountWrites
<1>3. /\ UNCHANGED <<clock, cache, since>>
      /\ IF OverLimit(counters'[ref]) THEN UNCHANGED passes ELSE Limiter!Passed(ip, now)
  BY DEF Count, LetPass, Limiter!Passed
<1>4. ASSUME NEW x \in IPs \ {ip}
      PROVE  Windows'[x] = Windows[x]
  <2>1. CASE cache[x] = NoRef
    BY <1>3, <2>1 DEF Windows
  <2>2. CASE cache[x] # NoRef
    <3>1. cache[x] \in 1 .. Len(counters) \ {ref}
      BY <1>1, <2>2, LenProperties DEF TypeOK, SoloInv, Cached, NoRef
    <3>2. counters'[cache[x]] = counters[cache[x]]
      BY <1>2, <3>1
    <3> QED BY <1>3, <2>2, <3>2 DEF Windows
  <2> QED BY <2>1, <2>2
<1>5. Windows[ip] = [start |-> c.updatedAt,
                     used |-> IF c.count <= Limit THEN c.count ELSE Limit]
      /\ Windows[ip] # Limiter!None
  BY <1>1, WindowOf
<1>6. Windows'[ip] = [start |-> new.updatedAt, used |-> Min({new.count, Limit})]
  BY <1>1, <1>2, <1>3 DEF Windows
<1>7. /\ c.count \in Nat /\ c.count >= 1 /\ c.updatedAt \in Nat /\ now \in Nat
      /\ Limit \in Nat /\ Limit >= 1 /\ TTL \in Nat
  BY <1>1, <1>2, ConfigAssumption DEF Counter, Times
<1>8. ASSUME NEW win, Windows'[ip] = win
      PROVE  Windows' = [Windows EXCEPT ![ip] = win]
  <2>1. Windows = [x \in IPs |-> Windows[x]] /\ Windows' = [x \in IPs |-> Windows'[x]]
    BY DEF Windows
  <2> QED BY <1>1, <1>4, <1>8, <2>1
<1>9. CASE Expired(c, now)
  <2>1. new = [count |-> 1, updatedAt |-> now]
    BY <1>9 DEF Counted
  <2>2. Windows' = [Windows EXCEPT ![ip] = [start |-> now, used |-> 1]]
    BY <1>6, <1>7, <1>8, <2>1, MinOfTwo
  <2>3. Limiter!Passed(ip, now)
    BY <1>2, <1>3, <1>7, <2>1 DEF OverLimit
  <2>4. now > Windows[ip].start + TTL
    BY <1>5, <1>7, <1>9 DEF Expired
  <2> QED BY <1>3, <1>5, <2>2, <2>3, <2>4 DEF Limiter!Reopen
<1>10. CASE ~Expired(c, now)
  <2>1. new.count = c.count + 1 /\ new.updatedAt = c.updatedAt
    BY <1>2, <1>10 DEF Counted, Counter
  <2>2. now <= Windows[ip].start + TTL
    BY <1>5, <1>7, <1>10 DEF Expired
  <2>3. CASE c.count < Limit
    <3>1. Windows'[ip] = [start |-> c.updatedAt, used |-> c.count + 1]
      BY <1>6, <1>7, <2>1, <2>3, MinOfTwo
    <3>2. Windows[ip] = [start |-> c.updatedAt, used |-> c.count]
      BY <1>5, <1>7, <2>3
    <3>3. Windows' = [Windows EXCEPT ![ip].used = @ + 1]
      <4>1. [Windows[ip] EXCEPT !.used = @ + 1] = [start |-> c.updatedAt, used |-> c.count + 1]
        BY <3>2
      <4> QED BY <1>8, <3>1, <4>1
    <3>4. Limiter!Passed(ip, now)
      BY <1>2, <1>3, <1>7, <2>1, <2>3 DEF OverLimit
    <3>5. Windows[ip].used < Limit
      BY <2>3, <3>2
    <3> QED BY <1>3, <1>5, <2>2, <3>3, <3>4, <3>5 DEF Limiter!Pass
  <2>4. CASE ~(c.count < Limit)
    <3>1. Windows'[ip] = Windows[ip]
      BY <1>5, <1>6, <1>7, <2>1, <2>4, MinOfTwo
    <3>2. Windows' = Windows
      BY <1>4, <3>1 DEF Windows
    <3>3. passes' = passes
      BY <1>2, <1>3, <1>7, <2>1, <2>4 DEF OverLimit
    <3> QED BY <1>3, <3>2, <3>3 DEF Limiter!vars
  <2> QED BY <2>3, <2>4
<1> QED BY <1>9, <1>10

(* Every step of the one consumer is a step of the limiter or none.        *)
LEMMA LimiterStep ==
  ASSUME NEW w, Workers = {w}, TypeOK, TypeOK', CacheInv, SoloInv(w), [Next]_vars
  PROVE  [Limiter!Next]_(Limiter!vars)
<1> SUFFICES Limiter!Next \/ UNCHANGED Limiter!vars
  OBVIOUS
<1>0. ASSUME UNCHANGED <<cache, counters>> PROVE Windows' = Windows
  BY <1>0 DEF Windows
<1>1. CASE ClockTick
  BY <1>0, <1>1 DEF ClockTick, Limiter!Next, Limiter!Tick
<1>2. CASE CheckEmpty(w)
  <2>1. clock \in 0 .. clock
    BY DEF TypeOK, Times
  <2> QED BY <1>0, <1>2, <2>1
          DEF CheckEmpty, Arrive, Limiter!Next, Limiter!PassUnlimited, Limiter!Passed
<1>3. ASSUME NEW ip \in IPs, ReadClock(w, ip) PROVE UNCHANGED Limiter!vars
  BY <1>0, <1>3 DEF ReadClock, Arrive, Limiter!vars
<1>4. CASE Get(w)
  <2>1. calls[w].ip \in IPs
    BY <1>4 DEF TypeOK, Get
  <2>2. Limiter!See(calls[w].ip)
    BY <1>0, <1>4 DEF Get, CacheGet, Limiter!See
  <2> QED BY <2>1, <2>2 DEF Limiter!Next
<1>5. ASSUME AddCounter(w) \/ Count(w)
      PROVE  calls[w].ip \in IPs /\ calls[w].now \in 0 .. clock
  BY <1>5 DEF TypeOK, AddCounter, Count, Call, Times
<1>6. CASE AddCounter(w)
  BY <1>5, <1>6, AddRefines DEF Limiter!Next
<1>7. CASE Count(w)
  BY <1>5, <1>7, CountRefines DEF Limiter!Next
<1>8. CASE UNCHANGED vars
  BY <1>0, <1>8 DEF vars, Limiter!vars
<1> QED BY <1>1, <1>2, <1>3, <1>4, <1>6, <1>7, <1>8 DEF Next

(* With one consumer the filter is a limiter of the kind RateLimiter       *)
(* describes: windows that begin with a search, Limit searches in each,    *)
(* none forgotten before CacheSize other addresses have been seen.         *)
THEOREM ImplementsRateLimiter == (\E w : Workers = {w}) => (Spec => LimiterSpec)
<1> SUFFICES ASSUME NEW w, Workers = {w} PROVE Spec => LimiterSpec
  OBVIOUS
<1>1. Init => Limiter!Init /\ SoloInv(w)
  <2> SUFFICES ASSUME Init PROVE Limiter!Init /\ SoloInv(w)
    OBVIOUS
  <2>1. Windows = [ip \in IPs |-> Limiter!None]
    BY DEF Init, Windows, Limiter!None
  <2>2. passes = [ip \in IPs \cup {EmptyIP} |-> [t \in DOMAIN passes[ip] |-> 0]]
    BY DEF Init
  <2>3. Limiter!Init
    BY <2>1, <2>2 DEF Init, Limiter!Init
  <2>4. SoloInv(w)
    BY FS_EmptySet DEF Init, SoloInv, Cached, Idle
  <2> QED BY <2>3, <2>4
<1>2. TypeOK /\ TypeOK' /\ CacheInv /\ SoloInv(w) /\ [Next]_vars
        => [Limiter!Next]_(Limiter!vars)
  BY LimiterStep
<1>3. Init => CacheInv
  <2>1. Init => Cached = {}
    BY DEF Init, Cached
  <2> QED BY <2>1, FS_EmptySet, ConfigAssumption DEF CacheInv, InOrder
<1>4. TypeOK /\ CacheInv /\ SoloInv(w) /\ [Next]_vars => CacheInv' /\ SoloInv(w)'
  BY CacheStep, SoloStep
<1> QED BY <1>1, <1>2, <1>3, <1>4, TypeCorrect, PTL DEF Spec, LimiterSpec, Limiter!Spec
=============================================================================
