-------------------------- MODULE AntiFraudBounds --------------------------
(***************************************************************************)
(* Proofs about AntiFraud, continued: how many events of one address get   *)
(* past the filter in how much time, with one consumer and with many       *)
(* goroutines, and that what it drops it drops for a reason.               *)
(***************************************************************************)
EXTENDS AntiFraudProofs

-----------------------------------------------------------------------------
(* Counting events.                                                        *)

Addresses == IPs \cup {EmptyIP}

During(ip, from, to) == {p \in Passes(ip) : from <= p[1] /\ p[1] <= to}

(* The events of an address are finitely many, each at an instant. *)
LEMMA PassesFinite ==
  ASSUME TypeOK, NEW ip \in Addresses
  PROVE  /\ IsFiniteSet(Passes(ip))
         /\ \A p \in Passes(ip) : p[1] \in Times
<1> DEFINE n == passes[ip]
           At == [t \in Times |-> {t} \X (1 .. n[t])]
           sets == {At[t] : t \in Times}
<1>1. n \in [Times -> Nat]
  BY DEF TypeOK, Addresses
<1> HIDE DEF n
<1>2. IsFiniteSet(Times)
  BY FS_Interval, BoundsAssumption DEF Times
<1>3. IsFiniteSet(sets)
  <2>1. At \in Surjection(Times, sets)
    BY DEF Surjection
  <2> QED BY <1>2, <2>1, FS_Surjection
<1>4. ASSUME NEW s \in sets PROVE IsFiniteSet(s)
  <2>1. PICK t \in Times : s = {t} \X (1 .. n[t])
    OBVIOUS
  <2>2. IsFiniteSet({t}) /\ IsFiniteSet(1 .. n[t])
    <3>1. n[t] \in Int
      BY <1>1
    <3>2. IsFiniteSet(1 .. n[t])
      BY <3>1, FS_Interval
    <3> QED BY <3>2, FS_Singleton
  <2> QED BY <2>1, <2>2, FS_Product
<1>5. Passes(ip) = UNION sets
  BY DEF Passes, n
<1>6. IsFiniteSet(Passes(ip))
  <2> HIDE DEF sets
  <2> QED BY <1>3, <1>4, <1>5, FS_UNION
<1> QED BY <1>6 DEF Passes

(* An event let through is one more of its address, at its time, and none  *)
(* of the others.                                                          *)
LEMMA PassAdds ==
  ASSUME TypeOK, NEW ip \in Addresses, NEW now \in Times,
         passes' = [passes EXCEPT ![ip][now] = @ + 1]
  PROVE  /\ \E new : /\ new \notin Passes(ip)
                     /\ new[1] = now
                     /\ Passes(ip)' = Passes(ip) \cup {new}
         /\ \A x \in Addresses \ {ip} : Passes(x)' = Passes(x)
<1>1. passes \in [Addresses -> [Times -> Nat]]
  BY DEF TypeOK, Addresses
<1> DEFINE n == passes[ip]
           new == <<now, n[now] + 1>>
<1>2. n \in [Times -> Nat] /\ passes'[ip] = [n EXCEPT ![now] = @ + 1]
  BY <1>1
<1>3. \A x \in Addresses \ {ip} : passes'[x] = passes[x]
  BY <1>1
<1>4. \A t \in Times : {t} \X (1 .. passes'[ip][t]) =
                         IF t = now THEN ({t} \X (1 .. n[t])) \cup {new}
                         ELSE {t} \X (1 .. n[t])
  <2> SUFFICES ASSUME NEW t \in Times
               PROVE  {t} \X (1 .. passes'[ip][t]) =
                         IF t = now THEN ({t} \X (1 .. n[t])) \cup {new}
                         ELSE {t} \X (1 .. n[t])
    OBVIOUS
  <2>1. CASE t = now
    <3>1. passes'[ip][t] = n[t] + 1 /\ n[t] \in Nat
      BY <1>2, <2>1
    <3>2. 1 .. n[t] + 1 = (1 .. n[t]) \cup {n[t] + 1}
      BY <3>1
    <3> QED BY <2>1, <3>1, <3>2
  <2>2. CASE t # now
    BY <1>2, <2>2
  <2> QED BY <2>1, <2>2
<1>5. new \notin Passes(ip)
  <2>1. \A t \in Times : new \notin {t} \X (1 .. n[t])
    BY <1>2
  <2> QED BY <2>1 DEF Passes
<1>6. Passes(ip)' = Passes(ip) \cup {new}
  <2>1. \A p : p \in Passes(ip) <=> \E t \in Times : p \in {t} \X (1 .. n[t])
    BY DEF Passes
  <2>2. \A p : p \in Passes(ip)' <=> \E t \in Times : p \in {t} \X (1 .. passes'[ip][t])
    BY DEF Passes
  <2> HIDE DEF n, new
  <2> QED BY <1>4, <2>1, <2>2
<1>7. \A x \in Addresses \ {ip} : Passes(x)' = Passes(x)
  BY <1>3 DEF Passes
<1> QED BY <1>5, <1>6, <1>7

(* PassedIn counts a finite set. *)
LEMMA PassedInCounts ==
  ASSUME TypeOK, NEW ip \in Addresses, NEW a \in Int, NEW b \in Int
  PROVE  /\ IsFiniteSet(During(ip, a, b))
         /\ PassedIn(ip, a, b) = Cardinality(During(ip, a, b))
         /\ PassedIn(ip, a, b) \in Nat
<1>1. IsFiniteSet(During(ip, a, b))
  BY PassesFinite, FS_Subset DEF During
<1> QED BY <1>1, FS_CardinalityType DEF PassedIn, During

(* A shorter stretch holds no more. *)
LEMMA PassedInShorter ==
  ASSUME TypeOK, NEW ip \in Addresses, NEW a \in Int, NEW b \in Int, NEW c \in Int, NEW d \in Int,
         a <= c, d <= b
  PROVE  PassedIn(ip, c, d) <= PassedIn(ip, a, b)
<1>1. During(ip, c, d) \subseteq During(ip, a, b)
  BY PassesFinite DEF During, Times
<1> QED BY <1>1, PassedInCounts, FS_Subset

(* Two stretches hold together what the stretch from one to the other      *)
(* does.                                                                   *)
LEMMA PassedInSplit ==
  ASSUME TypeOK, NEW ip \in Addresses, NEW a \in Int, NEW b \in Int, NEW c \in Int
  PROVE  PassedIn(ip, a, c) <= PassedIn(ip, a, b - 1) + PassedIn(ip, b, c)
<1> DEFINE before == During(ip, a, b - 1)
           after == During(ip, b, c)
<1>1. During(ip, a, c) \subseteq before \cup after
  BY PassesFinite DEF During, Times
<1>2. IsFiniteSet(before) /\ IsFiniteSet(after) /\ b - 1 \in Int
  BY PassedInCounts
<1> HIDE DEF before, after
<1>3. /\ IsFiniteSet(before \cup after)
      /\ Cardinality(before \cup after)
           = Cardinality(before) + Cardinality(after) - Cardinality(before \cap after)
  BY <1>2, FS_Union
<1>4. IsFiniteSet(before \cap after)
  BY <1>2, FS_Subset
<1>5. /\ Cardinality(before \cap after) \in Nat /\ Cardinality(before) \in Nat
      /\ Cardinality(after) \in Nat
  BY <1>2, <1>4, FS_CardinalityType
<1>6. Cardinality(During(ip, a, c)) <= Cardinality(before \cup after)
  BY <1>1, <1>3, FS_Subset
<1>7. /\ PassedIn(ip, a, c) = Cardinality(During(ip, a, c))
      /\ PassedIn(ip, a, b - 1) = Cardinality(before)
      /\ PassedIn(ip, b, c) = Cardinality(after)
  BY <1>2, PassedInCounts DEF before, after
<1>8. Cardinality(During(ip, a, c)) \in Nat
  BY PassedInCounts, FS_CardinalityType
<1> QED BY <1>3, <1>5, <1>6, <1>7, <1>8

(* What an event of an address does to the counts, and what no event does. *)
PassAt(ip, now) ==
  \A a, b \in Int :
     PassedIn(ip, a, b)' = IF a <= now /\ now <= b THEN PassedIn(ip, a, b) + 1
                           ELSE PassedIn(ip, a, b)

NoPass(ip) == \A a, b \in Int : PassedIn(ip, a, b)' = PassedIn(ip, a, b)

(* What letting an event through does to every count. *)
LEMMA PassCounted ==
  ASSUME TypeOK, NEW ip \in Addresses, NEW now \in Times,
         passes' = [passes EXCEPT ![ip][now] = @ + 1]
  PROVE  /\ PassAt(ip, now)
         /\ \A x \in Addresses \ {ip} : NoPass(x)
<1>1. PICK new : new \notin Passes(ip) /\ new[1] = now /\ Passes(ip)' = Passes(ip) \cup {new}
  BY PassAdds
<1>2. ASSUME NEW a \in Int, NEW b \in Int
      PROVE  PassedIn(ip, a, b)' = IF a <= now /\ now <= b THEN PassedIn(ip, a, b) + 1
                                   ELSE PassedIn(ip, a, b)
  <2>1. PassedIn(ip, a, b)' = Cardinality(During(ip, a, b)')
    BY DEF PassedIn, During
  <2>2. IsFiniteSet(During(ip, a, b)) /\ PassedIn(ip, a, b) = Cardinality(During(ip, a, b))
    BY PassedInCounts
  <2>3. During(ip, a, b)' = IF a <= now /\ now <= b THEN During(ip, a, b) \cup {new}
                            ELSE During(ip, a, b)
    BY <1>1 DEF During
  <2>4. new \notin During(ip, a, b)
    BY <1>1 DEF During
  <2> QED BY <2>1, <2>2, <2>3, <2>4, FS_AddElement
<1>3. ASSUME NEW x \in Addresses \ {ip} PROVE NoPass(x)
  <2>1. Passes(x)' = Passes(x)
    BY PassAdds
  <2> QED BY <2>1 DEF NoPass, PassedIn
<1> QED BY <1>2, <1>3 DEF PassAt

(* What letting nothing through does to every count. *)
LEMMA NothingCounted ==
  ASSUME passes' = passes
  PROVE  \A x : NoPass(x)
BY DEF NoPass, PassedIn, Passes

-----------------------------------------------------------------------------
(* One consumer: what a step does to the window of an address.             *)

Start(ip)   == counters[cache[ip]].updatedAt
CountOf(ip) == counters[cache[ip]].count
UpTo(n)     == IF n <= Limit THEN n ELSE Limit

(* When a check in progress read the clock, or the clock. *)
Moment(w) == IF calls[w].at = "idle" THEN clock ELSE calls[w].now

SameWindow(ip) ==
  /\ ip \in Cached <=> ip \in Cached'
  /\ ip \in Cached => Start(ip)' = Start(ip) /\ CountOf(ip)' = CountOf(ip)
  /\ NoPass(ip)

Forgotten(ip) ==
  /\ ip \notin Cached'
  /\ ip \in evicted'
  /\ NoPass(ip)

NewWindow(ip, now) ==
  /\ ip \in Cached => now > Start(ip) + TTL
  /\ ip \in Cached'
  /\ Start(ip)' = now
  /\ CountOf(ip)' = 1
  /\ PassAt(ip, now)

NextInWindow(ip, now) ==
  /\ ip \in Cached
  /\ ip \in Cached'
  /\ now <= Start(ip) + TTL
  /\ Start(ip)' = Start(ip)
  /\ CountOf(ip)' = CountOf(ip) + 1
  /\ IF CountOf(ip) < Limit THEN PassAt(ip, now) ELSE NoPass(ip)

WindowStep(ip, now) ==
  \/ SameWindow(ip)
  \/ Forgotten(ip)
  \/ NewWindow(ip, now)
  \/ NextInWindow(ip, now)

(* A cached address has a counter with a start and a count. *)
LEMMA CachedCounter ==
  ASSUME TypeOK, NEW ip \in Cached
  PROVE  /\ ip \in IPs /\ ip \in Addresses
         /\ cache[ip] \in 1 .. Len(counters)
         /\ counters[cache[ip]] \in Counter
         /\ Start(ip) \in Times
         /\ CountOf(ip) \in Nat \ {0}
<1>1. ip \in IPs /\ cache[ip] \in 1 .. Len(counters) /\ counters \in Seq(Counter)
  BY LenProperties DEF TypeOK, Cached, NoRef
<1>2. counters[cache[ip]] \in Counter
  BY <1>1, ElementOfSeq
<1> QED BY <1>1, <1>2 DEF Counter, Start, CountOf, Addresses

(* A check only touches the window of its own address. *)
LEMMA AddIsWindowStep ==
  ASSUME NEW w, Workers = {w}, TypeOK, SoloInv(w), AddCounter(w), NEW ip \in IPs
  PROVE  WindowStep(ip, calls[w].now)
<1> DEFINE me == calls[w].ip
           now == calls[w].now
           keys == (Cached \cup {me}) \ Surplus(me)
<1>1. me \in IPs /\ me \in Addresses /\ now \in Times /\ me \notin Cached /\ me \notin Surplus(me)
  BY DEF TypeOK, AddCounter, SoloInv, Call, Surplus, Addresses
<1>2. cache' = [x \in IPs |-> IF x = me THEN Len(counters) + 1
                              ELSE IF x \in keys THEN cache[x] ELSE NoRef]
      /\ evicted' = evicted \cup Surplus(me)
  BY DEF AddCounter, CacheAdd
<1>3. passes' = [passes EXCEPT ![me][now] = @ + 1]
  BY DEF AddCounter, LetPass
<1>4. Len(counters) \in Nat /\ cache \in [IPs -> 0 .. Len(counters)]
  BY LenProperties DEF TypeOK
<1>5. CASE ip = me
  <2>1. cache'[ip] = Len(counters) + 1
    BY <1>1, <1>2, <1>5
  <2>2. ip \in Cached'
    BY <1>4, <2>1 DEF Cached, NoRef
  <2>3. counters'[cache'[ip]] = [count |-> 1, updatedAt |-> now]
    BY <2>1, AddWrites
  <2>4. PassAt(ip, now)
    <3> HIDE DEF me, now
    <3> QED BY <1>1, <1>3, <1>5, PassCounted
  <2>5. Start(ip)' = now /\ CountOf(ip)' = 1
    BY <2>3 DEF Start, CountOf
  <2> QED BY <1>1, <1>5, <2>2, <2>4, <2>5 DEF WindowStep, NewWindow
<1>6. CASE ip # me
  <2>1. NoPass(ip)
    <3>1. ip \in Addresses \ {me}
      BY <1>6 DEF Addresses
    <3> HIDE DEF me, now
    <3>2. \A x \in Addresses \ {me} : NoPass(x)
      BY <1>1, <1>3, PassCounted
    <3> QED BY <3>1, <3>2
  <2>2. CASE ip \in Surplus(me)
    <3>1. ip \notin Cached'
      BY <1>2, <1>6, <2>2 DEF Cached, NoRef
    <3> QED BY <1>2, <2>1, <2>2, <3>1 DEF WindowStep, Forgotten
  <2>3. CASE ip \notin Surplus(me)
    <3>1. cache'[ip] = cache[ip]
      BY <1>2, <1>6, <2>3 DEF Cached
    <3>2. ip \in Cached <=> ip \in Cached'
      BY <3>1 DEF Cached
    <3>3. ip \in Cached => counters'[cache[ip]] = counters[cache[ip]]
      BY CachedCounter, AddWrites
    <3>4. ip \in Cached => Start(ip)' = Start(ip) /\ CountOf(ip)' = CountOf(ip)
      BY <3>1, <3>3 DEF Start, CountOf
    <3> QED BY <2>1, <3>2, <3>4 DEF WindowStep, SameWindow
  <2> QED BY <2>2, <2>3
<1> QED BY <1>5, <1>6

(* A call of Count moves the window of its address on or leaves it, and    *)
(* drops an event only when the window is used up.                         *)
LEMMA CountIsWindowStep ==
  ASSUME NEW w, Workers = {w}, TypeOK, SoloInv(w), Count(w), NEW ip \in IPs
  PROVE  /\ WindowStep(ip, calls[w].now)
         /\ ip = calls[w].ip /\ passes' = passes
              => /\ ip \in Cached
                 /\ CountOf(ip) >= Limit
                 /\ calls[w].now <= Start(ip) + TTL
<1> DEFINE me == calls[w].ip
           now == calls[w].now
           ref == calls[w].ref
           c == counters[ref]
<1>1. /\ me \in IPs /\ me \in Addresses /\ now \in Times /\ cache[me] = ref /\ me \in Cached
      /\ ref \in 1 .. Len(counters)
  BY DEF TypeOK, Count, SoloInv, Call, Cached, NoRef, Addresses
<1>2. c \in Counter /\ counters'[ref] = Counted(c, now)
      /\ \A j \in 1 .. Len(counters) \ {ref} : counters'[j] = counters[j]
  <2>1. c \in Counter
    BY <1>1, CachedCounter
  <2> QED BY <2>1, CountWrites
<1>3. Cached' = Cached /\ cache' = cache
  BY DEF Count, Cached
<1>4. IF Counted(c, now).count > Limit THEN passes' = passes
      ELSE passes' = [passes EXCEPT ![me][now] = @ + 1]
  BY <1>2 DEF Count, LetPass, OverLimit
<1>5. /\ c.count \in Nat \ {0} /\ c.updatedAt \in Nat /\ now \in Nat
      /\ Limit \in Nat \ {0} /\ TTL \in Nat \ {0}
  BY <1>1, <1>2, ConfigAssumption DEF Counter, Times
<1>6. Start(me) = c.updatedAt /\ CountOf(me) = c.count
  BY <1>1 DEF Start, CountOf
<1>7. CASE ip = me
  <2>1. Start(ip) = c.updatedAt /\ CountOf(ip) = c.count
    BY <1>6, <1>7
  <2>2. Start(ip)' = Counted(c, now).updatedAt /\ CountOf(ip)' = Counted(c, now).count
    BY <1>1, <1>2, <1>3, <1>7 DEF Start, CountOf
  <2>3. ip \in Cached /\ ip \in Cached'
    BY <1>1, <1>3, <1>7
  <2>4. passes' = [passes EXCEPT ![me][now] = @ + 1] => PassAt(ip, now) /\ passes' # passes
    <3> SUFFICES ASSUME passes' = [passes EXCEPT ![me][now] = @ + 1]
                 PROVE  PassAt(ip, now) /\ passes' # passes
      OBVIOUS
    <3>1. PassAt(ip, now)
      <4> HIDE DEF me, now, ref, c
      <4> QED BY <1>1, <1>7, PassCounted
    <3>2. passes \in [IPs \cup {EmptyIP} -> [Times -> Nat]]
      BY DEF TypeOK
    <3>3. passes'[me][now] = passes[me][now] + 1 /\ passes[me][now] \in Nat
      BY <1>1, <3>2 DEF Addresses
    <3> HIDE DEF me, now
    <3> QED BY <3>1, <3>3
  <2>5. passes' = passes => NoPass(ip)
    BY NothingCounted
  <2>6. CASE now > c.updatedAt + TTL
    <3>1. Counted(c, now) = [count |-> 1, updatedAt |-> now]
      BY <1>5, <2>6 DEF Counted, Expired
    <3>2. PassAt(ip, now) /\ passes' # passes
      BY <1>4, <1>5, <2>4, <3>1
    <3> QED BY <2>1, <2>2, <2>3, <2>6, <3>1, <3>2 DEF WindowStep, NewWindow
  <2>7. CASE ~(now > c.updatedAt + TTL)
    <3>1. Counted(c, now).count = c.count + 1 /\ Counted(c, now).updatedAt = c.updatedAt
      BY <1>2, <1>5, <2>7 DEF Counted, Expired, Counter
    <3>2. IF c.count < Limit THEN PassAt(ip, now) /\ passes' # passes ELSE NoPass(ip)
      BY <1>4, <1>5, <2>4, <2>5, <3>1
    <3>3. now <= c.updatedAt + TTL
      BY <1>5, <2>7
    <3>4. WindowStep(ip, now)
      BY <2>1, <2>2, <2>3, <3>1, <3>2, <3>3 DEF WindowStep, NextInWindow
    <3> QED BY <1>5, <2>1, <2>3, <3>2, <3>3, <3>4
  <2> QED BY <2>6, <2>7
<1>8. CASE ip # me
  <2>1. NoPass(ip)
    <3>1. ip \in Addresses \ {me}
      BY <1>8 DEF Addresses
    <3> HIDE DEF me, now, ref, c
    <3>2. CASE passes' = passes
      BY <3>2, NothingCounted
    <3>3. CASE passes' = [passes EXCEPT ![me][now] = @ + 1]
      <4>1. \A x \in Addresses \ {me} : NoPass(x)
        BY <1>1, <3>3, PassCounted
      <4> QED BY <3>1, <4>1
    <3> QED BY <1>4, <3>2, <3>3
  <2>2. ip \in Cached => cache[ip] \in 1 .. Len(counters) \ {ref}
    BY <1>1, <1>8, CachedCounter DEF SoloInv
  <2>3. ip \in Cached => Start(ip)' = Start(ip) /\ CountOf(ip)' = CountOf(ip)
    BY <1>2, <1>3, <2>2 DEF Start, CountOf
  <2>4. SameWindow(ip)
    BY <1>3, <2>1, <2>3 DEF SameWindow
  <2> QED BY <1>8, <2>4 DEF WindowStep
<1> QED BY <1>7, <1>8

(* Of any step of the program, at the moment the check in progress began.  *)
LEMMA EveryStepIsWindowStep ==
  ASSUME NEW w, Workers = {w}, TypeOK, SoloInv(w), [Next]_vars, NEW ip \in IPs
  PROVE  WindowStep(ip, Moment(w))
<1>1. ASSUME UNCHANGED <<cache, counters>>, NoPass(ip)
      PROVE  WindowStep(ip, Moment(w))
  BY <1>1 DEF WindowStep, SameWindow, Cached, Start, CountOf
<1>2. ASSUME UNCHANGED <<cache, counters, passes>>
      PROVE  WindowStep(ip, Moment(w))
  BY <1>1, <1>2, NothingCounted
<1>3. CASE ClockTick
  BY <1>2, <1>3 DEF ClockTick
<1>4. CASE CheckEmpty(w)
  <2>1. EmptyIP \in Addresses /\ clock \in Times /\ ip \in Addresses \ {EmptyIP}
    BY BoundsAssumption DEF TypeOK, Addresses
  <2>2. NoPass(ip)
    BY <1>4, <2>1, PassCounted DEF CheckEmpty
  <2> QED BY <1>1, <1>4, <2>2 DEF CheckEmpty, Arrive
<1>5. ASSUME NEW x \in IPs, ReadClock(w, x) PROVE WindowStep(ip, Moment(w))
  BY <1>2, <1>5 DEF ReadClock, Arrive
<1>6. CASE Get(w)
  BY <1>2, <1>6 DEF Get, CacheGet
<1>7. CASE AddCounter(w)
  <2>1. Moment(w) = calls[w].now
    BY <1>7 DEF Moment, AddCounter
  <2> QED BY <1>7, <2>1, AddIsWindowStep
<1>8. CASE Count(w)
  <2>1. Moment(w) = calls[w].now
    BY <1>8 DEF Moment, Count
  <2> QED BY <1>8, <2>1, CountIsWindowStep
<1>9. CASE UNCHANGED vars
  BY <1>2, <1>9 DEF vars
<1> QED BY <1>3, <1>4, <1>5, <1>6, <1>7, <1>8, <1>9 DEF Next

(* Time does not run backwards for the one consumer. *)
LEMMA MomentGrows ==
  ASSUME NEW w, Workers = {w}, TypeOK, TypeOK', [Next]_vars
  PROVE  /\ Moment(w) \in Nat /\ Moment(w)' \in Nat
         /\ Moment(w) \in Times
         /\ Moment(w) <= Moment(w)'
<1>1. /\ clock \in Times /\ calls[w] \in Call /\ calls[w].now <= clock
      /\ clock' \in Times /\ calls'[w] \in Call /\ calls'[w].now <= clock'
  BY DEF TypeOK
<1>2. clock \in Nat /\ clock' \in Nat /\ calls[w].now \in Times /\ calls'[w].now \in Times
  BY <1>1 DEF Times, Call
<1>3. Moment(w) \in Times /\ Moment(w)' \in Times /\ Moment(w) <= clock
  BY <1>1, <1>2 DEF Moment, Times
<1>4. clock <= clock'
  BY <1>2 DEF Next, vars, ClockTick, CheckEmpty, ReadClock, Arrive, Get, AddCounter, Count
<1>5. ASSUME calls' = calls PROVE Moment(w) <= Moment(w)'
  BY <1>1, <1>2, <1>4, <1>5 DEF Moment, Times
<1>6. ASSUME NEW x \in IPs, ReadClock(w, x) PROVE Moment(w) <= Moment(w)'
  BY <1>2, <1>6 DEF ReadClock, Arrive, Moment, TypeOK
<1>7. ASSUME Get(w) PROVE Moment(w) <= Moment(w)'
  <2>1. calls[w].at = "get" /\ calls'[w].at # "idle" /\ calls'[w].now = calls[w].now
    BY <1>7 DEF Get, TypeOK, Call
  <2> QED BY <1>2, <2>1 DEF Moment, Times
<1>8. ASSUME AddCounter(w) \/ Count(w) PROVE Moment(w) <= Moment(w)'
  <2>1. calls'[w].at = "idle"
    BY <1>8 DEF AddCounter, Count, Return, Idle, TypeOK
  <2> QED BY <1>1, <1>2, <1>4, <2>1 DEF Moment, Times
<1>9. Moment(w) <= Moment(w)'
  BY <1>5, <1>6, <1>7, <1>8 DEF Next, vars, ClockTick, CheckEmpty
<1>10. Moment(w) \in Nat /\ Moment(w)' \in Nat
  BY <1>3 DEF Times
<1> QED BY <1>3, <1>9, <1>10

(* Nothing is dated after the moment. *)
Dated(w) ==
  \A ip \in IPs :
     /\ ip \in Cached => Start(ip) <= Moment(w)
     /\ \A a, b \in Int : a > Moment(w) => PassedIn(ip, a, b) = 0

(* No step dates a window later than the check in progress or lets         *)
(* anything through ahead of it.                                           *)
LEMMA DatedStep ==
  ASSUME NEW w, Workers = {w}, TypeOK, TypeOK', SoloInv(w), Dated(w), [Next]_vars
  PROVE  Dated(w)'
<1>1. /\ Moment(w) \in Nat /\ Moment(w)' \in Nat /\ Moment(w) <= Moment(w)'
  BY MomentGrows
<1>2. ASSUME NEW ip \in IPs
      PROVE  /\ ip \in Cached' => Start(ip)' <= Moment(w)'
             /\ \A a, b \in Int : a > Moment(w)' => PassedIn(ip, a, b)' = 0
  <2>1. WindowStep(ip, Moment(w))
    BY EveryStepIsWindowStep
  <2>2. ip \in Cached => Start(ip) \in Nat
    BY CachedCounter DEF Times
  <2>3. ip \in Cached' => Start(ip)' <= Moment(w)'
    BY <1>1, <2>1, <2>2 DEF WindowStep, SameWindow, Forgotten, NewWindow, NextInWindow, Dated
  <2>4. ASSUME NEW a \in Int, NEW b \in Int, a > Moment(w)'
        PROVE  PassedIn(ip, a, b)' = 0
    <3>1. a > Moment(w) /\ ~(a <= Moment(w))
      BY <1>1, <2>4
    <3>2. PassedIn(ip, a, b) = 0
      BY <3>1 DEF Dated
    <3>3. PassedIn(ip, a, b)' = PassedIn(ip, a, b)
      BY <2>1, <3>1 DEF WindowStep, SameWindow, Forgotten, NewWindow, NextInWindow, PassAt, NoPass
    <3> QED BY <3>2, <3>3
  <2> QED BY <2>3, <2>4
<1> QED BY <1>2 DEF Dated

-----------------------------------------------------------------------------
(* One consumer: quotas.                                                   *)

(* What the window of an address says of the events it has let through:    *)
(* since the window began no more than it counted; fewer still after the   *)
(* first of them, which began it; less than the limit in the TTL before    *)
(* it, the window there having begun earlier; none after its end; and, m   *)
(* windows back, no more than Limit for each.                              *)
WindowQuota(ip) ==
  \A a, b \in Int :
     /\ a > Start(ip) => PassedIn(ip, a, b) <= UpTo(CountOf(ip)) - 1
     /\ a >= Start(ip) - TTL /\ b < Start(ip) => PassedIn(ip, a, b) <= Limit - 1
     /\ a > Start(ip) + TTL => PassedIn(ip, a, b) = 0
     /\ \A m \in Nat :
          Start(ip) - a + TTL < (TTL + 1) * (m + 1)
            => PassedIn(ip, a, b) <= Limit * m + UpTo(CountOf(ip))

Quota(ip) ==
  /\ ip \in Cached => WindowQuota(ip)
  /\ ip \notin Cached => \A a, b \in Int : PassedIn(ip, a, b) = 0

BurstQuota(ip) == \A t \in Int : PassedIn(ip, t, t + TTL) <= 2 * Limit - 1

StretchQuota(ip) ==
  \A a, b \in Int, m \in Nat :
     b - a + TTL < (TTL + 1) * (m + 1) => PassedIn(ip, a, b) <= Limit * (m + 1)

QuotaInv == \A ip \in IPs \ evicted : Quota(ip) /\ BurstQuota(ip) /\ StretchQuota(ip)

(* One window more. *)
LEMMA OneMore ==
  ASSUME NEW k \in Nat, NEW m \in Nat
  PROVE  /\ k * (m + 1) = k * m + k
         /\ k * 0 = 0
         /\ k * m \in Nat
         /\ m # 0 => m - 1 \in Nat /\ k * m = k * (m - 1) + k /\ (k + 1) * ((m - 1) + 1) = (k + 1) * m
BY Z3

(* The numbers the bounds are about are numbers. *)
LEMMA SizesOf ==
  ASSUME TypeOK, NEW ip \in IPs
  PROVE  /\ \A a, b \in Int : PassedIn(ip, a, b) \in Nat
         /\ ip \in Cached => Start(ip) \in Nat /\ CountOf(ip) \in Nat \ {0}
BY PassedInCounts, CachedCounter DEF Addresses, Times

(* Counting stops at the limit. *)
LEMMA UpToNext ==
  ASSUME NEW n \in Nat
  PROVE  /\ UpTo(n) \in Nat /\ UpTo(n) <= Limit
         /\ UpTo(n + 1) = IF n < Limit THEN UpTo(n) + 1 ELSE UpTo(n)
         /\ n # 0 => UpTo(n) # 0
BY ConfigAssumption DEF UpTo

(* A window that opens leaves the quotas in force. *)
LEMMA NewWindowQuota ==
  ASSUME TypeOK, NEW ip \in IPs, NEW now \in Nat, Quota(ip), NewWindow(ip, now)
  PROVE  Quota(ip)'
<1>1. /\ Limit \in Nat \ {0} /\ TTL \in Nat \ {0}
      /\ \A a, b \in Int : PassedIn(ip, a, b) \in Nat
  BY SizesOf, ConfigAssumption
<1>2. ip \in Cached' /\ Start(ip)' = now /\ UpTo(CountOf(ip))' = 1
  BY <1>1 DEF NewWindow, UpTo
<1>3. ASSUME NEW a \in Int, NEW b \in Int
      PROVE  /\ a > now => PassedIn(ip, a, b)' <= 1 - 1
             /\ a >= now - TTL /\ b < now => PassedIn(ip, a, b)' <= Limit - 1
             /\ a > now + TTL => PassedIn(ip, a, b)' = 0
             /\ \A m \in Nat : now - a + TTL < (TTL + 1) * (m + 1)
                                => PassedIn(ip, a, b)' <= Limit * m + 1
  <2>1. PassedIn(ip, a, b)' = IF a <= now /\ now <= b THEN PassedIn(ip, a, b) + 1
                              ELSE PassedIn(ip, a, b)
    BY DEF NewWindow, PassAt
  <2>2. CASE ip \notin Cached
    <3>1. PassedIn(ip, a, b) = 0
      BY <2>2 DEF Quota
    <3>3. PassedIn(ip, a, b)' <= 1 /\ (~(a <= now /\ now <= b) => PassedIn(ip, a, b)' = 0)
          /\ PassedIn(ip, a, b)' \in Nat
      BY <2>1, <3>1
    <3>4. ASSUME NEW m \in Nat PROVE PassedIn(ip, a, b)' <= Limit * m + 1
      <4>1. Limit * m \in Nat
        BY <1>1, OneMore
      <4> QED BY <3>3, <4>1
    <3>5. a > now => PassedIn(ip, a, b)' <= 1 - 1
      BY <3>3
    <3>6. a >= now - TTL /\ b < now => PassedIn(ip, a, b)' <= Limit - 1
      BY <1>1, <3>3
    <3>7. a > now + TTL => PassedIn(ip, a, b)' = 0
      BY <1>1, <3>3
    <3> QED BY <3>4, <3>5, <3>6, <3>7
  <2>3. CASE ip \in Cached
    <3> DEFINE u == Start(ip)
               n == CountOf(ip)
               P == PassedIn(ip, a, b)
    <3>1. u \in Nat /\ n \in Nat \ {0} /\ u + TTL < now /\ P \in Nat
      BY <2>3, <1>1, SizesOf DEF NewWindow
    <3>2. UpTo(n) \in 1 .. Limit
      BY <1>1, <3>1 DEF UpTo
    <3>3. /\ a > u => P <= UpTo(n) - 1
          /\ a > u + TTL => P = 0
          /\ \A m \in Nat : u - a + TTL < (TTL + 1) * (m + 1) => P <= Limit * m + UpTo(n)
      BY <2>3 DEF Quota, WindowQuota
    <3> HIDE DEF u, n, P
    <3>4. ASSUME NEW m \in Nat, now - a + TTL < (TTL + 1) * (m + 1)
          PROVE  P + 1 <= Limit * m + 1
      <4>1. CASE m = 0
        <5>1. Limit * m = 0 /\ (TTL + 1) * (m + 1) = TTL + 1
          BY <1>1, <4>1, OneMore
        <5>2. a > u + TTL
          BY <1>1, <3>1, <3>4, <5>1
        <5> QED BY <3>3, <5>1, <5>2
      <4>2. CASE m # 0
        <5>1. /\ m - 1 \in Nat /\ Limit * m = Limit * (m - 1) + Limit
              /\ (TTL + 1) * ((m - 1) + 1) = (TTL + 1) * m
              /\ (TTL + 1) * (m + 1) = (TTL + 1) * m + (TTL + 1)
              /\ (TTL + 1) * m \in Nat /\ Limit * (m - 1) \in Nat
          BY <1>1, <4>2, OneMore
        <5>2. u - a + TTL < (TTL + 1) * ((m - 1) + 1)
          BY <1>1, <3>1, <3>4, <5>1
        <5>3. P <= Limit * (m - 1) + UpTo(n)
          BY <3>3, <5>1, <5>2
        <5> QED BY <1>1, <3>1, <3>2, <5>1, <5>3
      <4> QED BY <4>1, <4>2
    <3>5. PassedIn(ip, a, b)' <= P + 1 /\ PassedIn(ip, a, b)' \in Nat
          /\ (~(a <= now /\ now <= b) => PassedIn(ip, a, b)' = P)
      BY <2>1, <3>1 DEF P
    <3>6. ASSUME NEW m \in Nat, now - a + TTL < (TTL + 1) * (m + 1)
          PROVE  PassedIn(ip, a, b)' <= Limit * m + 1
      <4>1. Limit * m \in Nat
        BY <1>1, OneMore
      <4> QED BY <3>1, <3>4, <3>5, <3>6, <4>1
    <3>7. a > now => PassedIn(ip, a, b)' <= 1 - 1
      BY <1>1, <3>1, <3>3, <3>5
    <3>8. a >= now - TTL /\ b < now => PassedIn(ip, a, b)' <= Limit - 1
      BY <1>1, <3>1, <3>2, <3>3, <3>5
    <3>9. a > now + TTL => PassedIn(ip, a, b)' = 0
      BY <1>1, <3>1, <3>3, <3>5
    <3> QED BY <3>6, <3>7, <3>8, <3>9
  <2> QED BY <2>2, <2>3
<1> QED BY <1>2, <1>3 DEF Quota, WindowQuota

(* The next event of a window leaves the quotas in force. *)
LEMMA NextInWindowQuota ==
  ASSUME TypeOK, NEW ip \in IPs, NEW now \in Nat, Quota(ip), NextInWindow(ip, now),
         Start(ip) <= now
  PROVE  Quota(ip)'
<1>1. /\ Limit \in Nat \ {0} /\ TTL \in Nat \ {0}
      /\ \A a, b \in Int : PassedIn(ip, a, b) \in Nat
  BY SizesOf, ConfigAssumption
<1>0. PICK u \in Nat, n \in Nat \ {0} : u = Start(ip) /\ n = CountOf(ip)
  BY SizesOf DEF NextInWindow
<1>2. /\ ip \in Cached /\ ip \in Cached' /\ u <= now /\ now <= u + TTL
      /\ Start(ip)' = u /\ CountOf(ip)' = n + 1
  BY <1>0 DEF NextInWindow
<1> DEFINE some == IF n < Limit THEN 1 ELSE 0
           more == UpTo(n) + some
<1>3. /\ some \in Nat /\ UpTo(n) \in Nat
      /\ UpTo(n + 1) = more
  BY UpToNext
<1>4. UpTo(CountOf(ip))' = more
  BY <1>2, <1>3 DEF UpTo
<1>5. ASSUME NEW a \in Int, NEW b \in Int
      PROVE  /\ a > u => PassedIn(ip, a, b)' <= more - 1
             /\ a >= u - TTL /\ b < u => PassedIn(ip, a, b)' <= Limit - 1
             /\ a > u + TTL => PassedIn(ip, a, b)' = 0
             /\ \A m \in Nat : u - a + TTL < (TTL + 1) * (m + 1)
                                => PassedIn(ip, a, b)' <= Limit * m + more
  <2> DEFINE P == PassedIn(ip, a, b)
             most == UpTo(n)
  <2>1. P \in Nat
    BY <1>1
  <2>2. /\ PassedIn(ip, a, b)' \in Nat
        /\ PassedIn(ip, a, b)' <= P + some
        /\ ~(a <= now /\ now <= b) => PassedIn(ip, a, b)' = P
    <3>1. CASE n < Limit
      <4>1. some = 1 /\ PassedIn(ip, a, b)' = IF a <= now /\ now <= b THEN P + 1 ELSE P
        BY <1>0, <3>1 DEF NextInWindow, PassAt
      <4> HIDE DEF some, P
      <4> QED BY <2>1, <4>1
    <3>2. CASE ~(n < Limit)
      <4>1. some = 0 /\ PassedIn(ip, a, b)' = P
        BY <1>0, <3>2 DEF NextInWindow, NoPass
      <4> HIDE DEF some, P
      <4> QED BY <2>1, <4>1
    <3> QED BY <3>1, <3>2
  <2>3. /\ a > u => P <= most - 1
        /\ a >= u - TTL /\ b < u => P <= Limit - 1
        /\ a > u + TTL => P = 0
        /\ \A m \in Nat : u - a + TTL < (TTL + 1) * (m + 1) => P <= Limit * m + most
    BY <1>0, <1>2 DEF Quota, WindowQuota
  <2>4. more = most + some /\ most \in Nat /\ some \in Nat /\ u \in Nat /\ u <= now /\ now <= u + TTL
    BY <1>1, <1>2, <1>3
  <2> HIDE DEF some, more, P, most
  <2>5. ASSUME NEW m \in Nat, u - a + TTL < (TTL + 1) * (m + 1)
        PROVE  PassedIn(ip, a, b)' <= Limit * m + more
    <3>1. Limit * m \in Nat /\ P <= Limit * m + most
      BY <1>1, <2>3, <2>5, OneMore
    <3> QED BY <2>1, <2>2, <2>4, <3>1
  <2>6. a > u => PassedIn(ip, a, b)' <= more - 1
    BY <2>1, <2>2, <2>3, <2>4
  <2>7. ASSUME a >= u - TTL, b < u PROVE PassedIn(ip, a, b)' <= Limit - 1
    <3>1. ~(now <= b)
      BY <2>4, <2>7
    <3> QED BY <2>2, <2>3, <2>7, <3>1
  <2>8. ASSUME a > u + TTL PROVE PassedIn(ip, a, b)' = 0
    <3>1. ~(a <= now)
      BY <1>1, <2>4, <2>8
    <3> QED BY <2>2, <2>3, <2>8, <3>1
  <2> QED BY <2>5, <2>6, <2>7, <2>8
<1> HIDE DEF some, more
<1>6. WindowQuota(ip)'
  BY <1>2, <1>4, <1>5 DEF WindowQuota
<1> QED BY <1>2, <1>6 DEF Quota

(* The windows just before and after an event: less than two limits.       *)
LEMMA PassInBurst ==
  ASSUME TypeOK, NEW ip \in IPs, NEW now \in Nat, Quota(ip),
         \/ NewWindow(ip, now)
         \/ (NextInWindow(ip, now) /\ CountOf(ip) < Limit /\ Start(ip) <= now),
         NEW t \in Int, t <= now, now <= t + TTL
  PROVE  PassedIn(ip, t, t + TTL) + 1 <= 2 * Limit - 1
<1>1. /\ Limit \in Nat \ {0} /\ TTL \in Nat \ {0} /\ t + TTL \in Int
      /\ \A a, b \in Int : PassedIn(ip, a, b) \in Nat
  BY SizesOf, ConfigAssumption
<1>2. CASE ip \notin Cached
  <2>1. PassedIn(ip, t, t + TTL) = 0
    BY <1>1, <1>2 DEF Quota
  <2> QED BY <1>1, <2>1
<1>3. CASE ip \in Cached
  <2>1. PICK u \in Nat, n \in Nat \ {0} : u = Start(ip) /\ n = CountOf(ip)
    BY <1>3, SizesOf
  <2>2. \A a, b \in Int :
          /\ a > u => PassedIn(ip, a, b) <= UpTo(n) - 1
          /\ a >= u - TTL /\ b < u => PassedIn(ip, a, b) <= Limit - 1
          /\ a > u + TTL => PassedIn(ip, a, b) = 0
          /\ \A m \in Nat : u - a + TTL < (TTL + 1) * (m + 1)
                              => PassedIn(ip, a, b) <= Limit * m + UpTo(n)
    BY <1>3, <2>1 DEF Quota, WindowQuota
  <2>3. UpTo(n) \in Nat /\ UpTo(n) <= Limit /\ (n < Limit => UpTo(n) < Limit)
    BY <1>1, UpToNext DEF UpTo
  <2>4. \A a, b \in Int : a >= u => PassedIn(ip, a, b) <= UpTo(n)
    <3> SUFFICES ASSUME NEW a \in Int, NEW b \in Int, a >= u PROVE PassedIn(ip, a, b) <= UpTo(n)
      OBVIOUS
    <3>1. (TTL + 1) * (0 + 1) = TTL + 1 /\ Limit * 0 = 0
      BY <1>1, OneMore
    <3>2. u - a + TTL < (TTL + 1) * (0 + 1)
      BY <1>1, <3>1
    <3>3. PassedIn(ip, a, b) <= Limit * 0 + UpTo(n)
      BY <2>2, <3>2
    <3> QED BY <2>3, <3>1, <3>3
  <2> DEFINE P == PassedIn(ip, t, t + TTL)
  <2>9. now - 1 \in Int /\ u - 1 \in Int /\ now \in Int /\ u \in Int
    OBVIOUS
  <2>5. P \in Nat /\ PassedIn(ip, t, now - 1) \in Nat /\ PassedIn(ip, now, t + TTL) \in Nat
        /\ PassedIn(ip, t, u - 1) \in Nat /\ PassedIn(ip, u, t + TTL) \in Nat
    <3> HIDE DEF P
    <3>1. \A a, b \in Int : PassedIn(ip, a, b) \in Nat
      BY <1>1
    <3> QED BY <1>1, <2>9, <3>1, Zenon DEF P
  <2>6. /\ P <= PassedIn(ip, t, now - 1) + PassedIn(ip, now, t + TTL)
        /\ P <= PassedIn(ip, t, u - 1) + PassedIn(ip, u, t + TTL)
    <3>1. ip \in Addresses
      BY DEF Addresses
    <3> QED BY <1>1, <2>9, <3>1, PassedInSplit, Zenon
  <2>10. Limit \in Nat /\ UpTo(n) \in Nat /\ UpTo(n) <= Limit /\ Limit >= 1
    BY <1>1, <2>3
  <2>7. ASSUME NewWindow(ip, now) PROVE P + 1 <= 2 * Limit - 1
    <3>1. now > u + TTL
      BY <1>3, <2>1, <2>7 DEF NewWindow
    <3>2. PassedIn(ip, now, t + TTL) = 0
      BY <1>1, <2>2, <2>9, <3>1, Zenon
    <3>3. PassedIn(ip, t, now - 1) <= UpTo(n) - 1
      <4>1. t > u
        BY <1>1, <3>1
      <4> QED BY <2>2, <2>9, <4>1, Zenon
    <3> HIDE DEF P
    <3> QED BY <2>5, <2>6, <2>10, <3>2, <3>3
  <2>8. ASSUME NextInWindow(ip, now), CountOf(ip) < Limit, Start(ip) <= now
        PROVE  P + 1 <= 2 * Limit - 1
    <3>1. n < Limit /\ u <= now /\ now <= u + TTL
      BY <2>1, <2>8 DEF NextInWindow
    <3>2. CASE t > u
      <4>1. P <= UpTo(n) - 1
        BY <1>1, <2>2, <3>2, Zenon
      <4> HIDE DEF P
      <4> QED BY <2>5, <2>10, <4>1
    <3>3. CASE ~(t > u)
      <4>1. t >= u - TTL /\ u - 1 < u /\ u - 1 \in Int
        BY <1>1, <3>1
      <4>2. PassedIn(ip, t, u - 1) <= Limit - 1
        BY <2>2, <4>1
      <4>3. PassedIn(ip, u, t + TTL) <= UpTo(n)
        <5>1. u >= u
          OBVIOUS
        <5> QED BY <1>1, <2>4, <2>9, <5>1, Zenon
      <4>4. UpTo(n) <= Limit - 1
        BY <1>1, <2>3, <3>1
      <4> HIDE DEF P
      <4> QED BY <2>5, <2>6, <2>10, <4>2, <4>3, <4>4
    <3> QED BY <3>2, <3>3
  <2> QED BY <2>7, <2>8
<1> QED BY <1>2, <1>3

(* A step keeps all three quotas of an address the cache still holds. *)
LEMMA QuotaStep ==
  ASSUME NEW w, Workers = {w}, TypeOK, TypeOK', SoloInv(w), Dated(w), QuotaInv, [Next]_vars
  PROVE  QuotaInv'
<1>1. Moment(w) \in Nat
  BY MomentGrows
<1>2. PICK now \in Nat : now = Moment(w)
  BY <1>1
<1>3. evicted \subseteq evicted'
  BY DEF Next, vars, ClockTick, CheckEmpty, ReadClock, Arrive, Get, AddCounter, CacheAdd, Count
<1>4. ASSUME NEW ip \in IPs, ip \notin evicted'
      PROVE  (Quota(ip) /\ BurstQuota(ip) /\ StretchQuota(ip))'
  <2>1. Quota(ip) /\ BurstQuota(ip) /\ StretchQuota(ip)
    BY <1>3, <1>4 DEF QuotaInv
  <2>2. WindowStep(ip, now)
    BY <1>2, EveryStepIsWindowStep
  <2>3. /\ Limit \in Nat \ {0} /\ TTL \in Nat \ {0}
        /\ \A a, b \in Int : PassedIn(ip, a, b) \in Nat
    BY SizesOf, ConfigAssumption
  <2>4. ip \in Cached => Start(ip) <= now
    BY <1>2 DEF Dated
  <2>5. Quota(ip)'
    <3>1. CASE SameWindow(ip)
      <4>1. CASE ip \in Cached
        BY <2>1, <3>1, <4>1 DEF Quota, WindowQuota, SameWindow, NoPass
      <4>2. CASE ip \notin Cached
        BY <2>1, <3>1, <4>2 DEF Quota, SameWindow, NoPass
      <4> QED BY <4>1, <4>2
    <3>2. CASE Forgotten(ip)
      BY <1>4, <3>2 DEF Forgotten
    <3>3. CASE NewWindow(ip, now)
      BY <2>1, <3>3, NewWindowQuota
    <3>4. CASE NextInWindow(ip, now)
      <4>1. Start(ip) <= now
        BY <2>4, <3>4 DEF NextInWindow
      <4> QED BY <2>1, <3>4, <4>1, NextInWindowQuota
    <3> QED BY <2>2, <3>1, <3>2, <3>3, <3>4 DEF WindowStep
  <2>6. CASE NoPass(ip)
    <3>1. BurstQuota(ip)'
      <4>1. \A t \in Int : t + TTL \in Int
        BY <2>3
      <4>2. \A t \in Int : PassedIn(ip, t, t + TTL)' = PassedIn(ip, t, t + TTL)
        BY <2>6, <4>1 DEF NoPass
      <4> QED BY <2>1, <4>2 DEF BurstQuota
    <3>2. StretchQuota(ip)'
      BY <2>1, <2>6, Zenon DEF NoPass, StretchQuota
    <3> QED BY <2>5, <3>1, <3>2
  <2>7. CASE /\ PassAt(ip, now)
             /\ NewWindow(ip, now) \/ (NextInWindow(ip, now) /\ CountOf(ip) < Limit)
    <3>1. \/ NewWindow(ip, now)
          \/ (NextInWindow(ip, now) /\ CountOf(ip) < Limit /\ Start(ip) <= now)
      BY <2>4, <2>7 DEF NextInWindow
    <3>2. ASSUME NEW t \in Int
          PROVE  PassedIn(ip, t, t + TTL)' <= 2 * Limit - 1
      <4>1. PassedIn(ip, t, t + TTL)' = IF t <= now /\ now <= t + TTL
                                        THEN PassedIn(ip, t, t + TTL) + 1
                                        ELSE PassedIn(ip, t, t + TTL)
        <5>1. t + TTL \in Int
          BY <2>3
        <5> QED BY <2>7, <5>1 DEF PassAt
      <4>2. t <= now /\ now <= t + TTL => PassedIn(ip, t, t + TTL) + 1 <= 2 * Limit - 1
        BY <2>1, <3>1, PassInBurst
      <4>3. PassedIn(ip, t, t + TTL) <= 2 * Limit - 1
        BY <2>1 DEF BurstQuota
      <4> QED BY <4>1, <4>2, <4>3
    <3>3. ASSUME NEW a \in Int, NEW b \in Int, NEW m \in Nat,
                 b - a + TTL < (TTL + 1) * (m + 1)
          PROVE  PassedIn(ip, a, b)' <= Limit * (m + 1)
      <4>1. CASE a <= now /\ now <= b
        <5>1. PICK u \in Nat, n \in Nat : u = Start(ip)' /\ n = CountOf(ip)' /\ u <= now
          <6>1. CASE NewWindow(ip, now)
            BY <6>1 DEF NewWindow
          <6>2. CASE NextInWindow(ip, now) /\ Start(ip) <= now
            <7>1. Start(ip) \in Nat /\ CountOf(ip) \in Nat
              BY <6>2, SizesOf DEF NextInWindow
            <7> QED BY <6>2, <7>1 DEF NextInWindow
          <6> QED BY <3>1, <6>1, <6>2
        <5>2. ip \in Cached'
          BY <2>7 DEF NewWindow, NextInWindow
        <5>3. u - a + TTL < (TTL + 1) * (m + 1)
          <6>1. PICK k \in Nat : k = (TTL + 1) * (m + 1)
            <7>1. TTL + 1 \in Nat /\ m + 1 \in Nat
              BY <2>3
            <7> QED BY <7>1, OneMore
          <6>2. b - a + TTL < k
            BY <3>3, <6>1
          <6> QED BY <2>3, <4>1, <5>1, <6>1, <6>2
        <5>4. PassedIn(ip, a, b)' <= Limit * m + UpTo(n)
          <6>1. WindowQuota(ip)'
            BY <2>5, <5>2 DEF Quota
          <6>2. UpTo(CountOf(ip))' = UpTo(n)
            BY <5>1 DEF UpTo
          <6> QED BY <5>1, <5>3, <6>1, <6>2 DEF WindowQuota
        <5>5. UpTo(n) \in Nat /\ UpTo(n) <= Limit
          BY UpToNext
        <5>6. Limit * (m + 1) = Limit * m + Limit /\ Limit * m \in Nat
          BY <2>3, OneMore
        <5>7. PassedIn(ip, a, b)' \in Nat
          <6>1. PassedIn(ip, a, b) \in Nat
            BY <2>3
          <6>2. PassedIn(ip, a, b)' = PassedIn(ip, a, b) + 1
            BY <2>7, <4>1 DEF PassAt
          <6> QED BY <6>1, <6>2
        <5> QED BY <2>3, <5>4, <5>5, <5>6, <5>7
      <4>2. CASE ~(a <= now /\ now <= b)
        <5>1. PassedIn(ip, a, b)' = PassedIn(ip, a, b)
          BY <2>7, <4>2 DEF PassAt
        <5> QED BY <2>1, <3>3, <5>1 DEF StretchQuota
      <4> QED BY <4>1, <4>2
    <3>4. BurstQuota(ip)'
      BY <3>2 DEF BurstQuota
    <3>5. StretchQuota(ip)'
      BY <3>3 DEF StretchQuota
    <3> QED BY <2>5, <3>4, <3>5
  <2>8. \/ NoPass(ip)
        \/ /\ PassAt(ip, now)
           /\ NewWindow(ip, now) \/ (NextInWindow(ip, now) /\ CountOf(ip) < Limit)
    BY <2>2, Zenon DEF WindowStep, SameWindow, Forgotten, NewWindow, NextInWindow
  <2> QED BY <2>6, <2>7, <2>8
<1> QED BY <1>4 DEF QuotaInv

-----------------------------------------------------------------------------
(* One consumer: what is dropped.                                          *)

(* What the counter of an address has counted, it has let through.         *)
Justified(w) ==
  \A ip \in Cached, b \in Int :
     Moment(w) <= b => PassedIn(ip, Start(ip), b) >= UpTo(CountOf(ip))

(* No step lets a counter count what was not let through. *)
LEMMA JustifiedStep ==
  ASSUME NEW w, Workers = {w}, TypeOK, TypeOK', SoloInv(w), Dated(w), Justified(w), [Next]_vars
  PROVE  Justified(w)'
<1>1. /\ Moment(w) \in Nat /\ Moment(w)' \in Nat /\ Moment(w) <= Moment(w)'
  BY MomentGrows
<1>2. PICK now \in Nat : now = Moment(w)
  BY <1>1
<1>3. ASSUME NEW ip \in Cached', NEW b \in Int, Moment(w)' <= b
      PROVE  PassedIn(ip, Start(ip), b)' >= UpTo(CountOf(ip))'
  <2>1. ip \in IPs
    BY <1>3 DEF Cached
  <2>2. WindowStep(ip, now)
    BY <1>2, <2>1, EveryStepIsWindowStep
  <2>3. now <= b
    BY <1>1, <1>2, <1>3
  <2>4. CASE SameWindow(ip)
    <3>1. ip \in Cached
      BY <1>3, <2>4 DEF SameWindow
    <3>2. PICK u \in Int, n \in Nat : u = Start(ip) /\ n = CountOf(ip)
      BY <2>1, <3>1, SizesOf
    <3>3. Start(ip)' = u /\ CountOf(ip)' = n
      BY <2>4, <3>1, <3>2 DEF SameWindow
    <3>4. PassedIn(ip, u, b) >= UpTo(n)
      BY <1>2, <2>3, <3>1, <3>2 DEF Justified
    <3>5. PassedIn(ip, u, b)' = PassedIn(ip, u, b)
      BY <2>4 DEF SameWindow, NoPass
    <3>6. PassedIn(ip, u, b)' >= UpTo(n)
      BY <3>4, <3>5
    <3> QED BY <3>3, <3>6 DEF PassedIn, UpTo, Passes
  <2>5. CASE NewWindow(ip, now)
    <3>1. PassedIn(ip, now, b)' = PassedIn(ip, now, b) + 1 /\ PassedIn(ip, now, b) \in Nat
      BY <2>1, <2>3, <2>5, SizesOf DEF NewWindow, PassAt
    <3>2. UpTo(1) = 1
      BY ConfigAssumption DEF UpTo
    <3>3. PassedIn(ip, now, b)' >= UpTo(1)
      BY <3>1, <3>2
    <3>4. Start(ip)' = now /\ CountOf(ip)' = 1
      BY <2>5 DEF NewWindow
    <3> QED BY <3>3, <3>4 DEF PassedIn, UpTo, Passes
  <2>6. CASE NextInWindow(ip, now)
    <3>1. PICK u \in Nat, n \in Nat : u = Start(ip) /\ n = CountOf(ip)
      BY <2>1, <2>6, SizesOf DEF NextInWindow
    <3>2. Start(ip)' = u /\ CountOf(ip)' = n + 1 /\ ip \in Cached
      BY <2>6, <3>1 DEF NextInWindow
    <3>3. PassedIn(ip, u, b) >= UpTo(n) /\ PassedIn(ip, u, b) \in Nat
      BY <1>2, <2>1, <2>3, <3>1, <3>2, SizesOf DEF Justified
    <3>4. u <= now
      BY <1>2, <2>1, <3>1, <3>2 DEF Dated
    <3>5. PassedIn(ip, u, b)' = IF n < Limit THEN PassedIn(ip, u, b) + 1 ELSE PassedIn(ip, u, b)
      BY <2>3, <2>6, <3>1, <3>4 DEF NextInWindow, PassAt, NoPass
    <3>6. UpTo(n) \in Nat /\ UpTo(n + 1) = IF n < Limit THEN UpTo(n) + 1 ELSE UpTo(n)
      BY UpToNext
    <3>7. PassedIn(ip, u, b)' >= UpTo(n + 1)
      BY <3>3, <3>5, <3>6
    <3> QED BY <3>2, <3>7 DEF PassedIn, UpTo, Passes
  <2> QED BY <1>3, <2>2, <2>4, <2>5, <2>6 DEF WindowStep, Forgotten
<1> QED BY <1>3 DEF Justified

(* A refusal: the window is open and full.                                 *)
LEMMA RefusalJustified ==
  ASSUME NEW w, Workers = {w}, TypeOK, SoloInv(w), Justified(w), Count(w), passes' = passes
  PROVE  PassedIn(calls[w].ip, calls[w].now - TTL, calls[w].now) >= Limit
<1> DEFINE ip == calls[w].ip
           now == calls[w].now
<1>1. ip \in IPs /\ now \in Nat /\ Moment(w) = now
  BY DEF TypeOK, Count, Call, Times, Moment
<1>2. ip \in Cached /\ CountOf(ip) >= Limit /\ now <= Start(ip) + TTL
  BY <1>1, CountIsWindowStep
<1>3. /\ Limit \in Nat /\ TTL \in Nat /\ Start(ip) \in Nat /\ CountOf(ip) \in Nat
      /\ ip \in Addresses
  BY <1>1, <1>2, SizesOf, ConfigAssumption DEF Addresses
<1> HIDE DEF ip, now
<1>4. UpTo(CountOf(ip)) = Limit
  BY <1>2, <1>3 DEF UpTo
<1>5. now \in Int /\ now - TTL \in Int /\ now - TTL <= Start(ip) /\ Start(ip) \in Int /\ now <= now
  BY <1>1, <1>2, <1>3
<1>6. PassedIn(ip, Start(ip), now) >= Limit
  BY <1>1, <1>2, <1>4, <1>5 DEF Justified
<1>7. PassedIn(ip, Start(ip), now) <= PassedIn(ip, now - TTL, now)
  BY <1>3, <1>5, PassedInShorter
<1>8. PassedIn(ip, Start(ip), now) \in Nat /\ PassedIn(ip, now - TTL, now) \in Nat
  BY <1>1, <1>5, SizesOf
<1>9. PassedIn(ip, now - TTL, now) >= Limit
  BY <1>3, <1>6, <1>7, <1>8
<1> QED BY <1>9 DEF ip, now

-----------------------------------------------------------------------------
(* One consumer: together.                                                 *)

OneConsumer(w) ==
  TypeOK /\ CacheInv /\ SoloInv(w) /\ Dated(w) /\ QuotaInv /\ Justified(w)

(* A filter nothing has gone through, at any time of day. *)
Unused ==
  /\ clock \in Times
  /\ cache = [ip \in IPs |-> NoRef]
  /\ fresher = [ip \in IPs |-> {}]
  /\ counters = << >>
  /\ calls = [w \in Workers |-> Idle]
  /\ checks = 0
  /\ passes = [ip \in Addresses |-> [t \in Times |-> 0]]
  /\ evicted = {}
  /\ since = [ip \in IPs |-> {}]

(* An unused filter has let nothing through. *)
LEMMA NonePassed ==
  ASSUME Unused, NEW ip \in IPs, NEW a \in Int, NEW b \in Int
  PROVE  PassedIn(ip, a, b) = 0
<1>1. Passes(ip) = {}
  BY DEF Unused, Passes, Addresses
<1>2. {p \in Passes(ip) : a <= p[1] /\ p[1] <= b} = {}
  BY <1>1
<1> QED BY <1>2, FS_EmptySet DEF PassedIn

(* The invariant of one consumer holds of an unused filter, *)
LEMMA OneConsumerInit ==
  ASSUME NEW w, Workers = {w}, Unused
  PROVE  OneConsumer(w)
<1>1. Cached = {}
  BY DEF Unused, Cached
<1>2. TypeOK
  <2>1. counters \in Seq(Counter) /\ Len(counters) = 0
    BY DEF Unused
  <2>2. Idle \in Call /\ Idle.now = 0 /\ Idle.at = "idle"
    BY BoundsAssumption DEF Idle, Call, Times, NoRef
  <2> QED BY <2>1, <2>2, BoundsAssumption DEF Unused, TypeOK, Times, NoRef, Addresses
<1>3. CacheInv
  BY <1>1, FS_EmptySet, ConfigAssumption DEF CacheInv, InOrder
<1>4. SoloInv(w)
  BY <1>1, FS_EmptySet DEF Unused, SoloInv, Idle
<1>5. ASSUME NEW ip \in IPs, NEW a \in Int, NEW b \in Int
      PROVE  PassedIn(ip, a, b) = 0
  BY NonePassed
<1>6. Dated(w)
  BY <1>1, <1>5 DEF Dated
<1>7. QuotaInv
  <2>1. Limit \in Nat \ {0} /\ TTL \in Nat
    BY ConfigAssumption
  <2>2. ASSUME NEW ip \in IPs PROVE Quota(ip)
    BY <1>1, <1>5 DEF Quota
  <2>3. ASSUME NEW ip \in IPs PROVE BurstQuota(ip)
    <3> SUFFICES ASSUME NEW t \in Int PROVE PassedIn(ip, t, t + TTL) <= 2 * Limit - 1
      BY DEF BurstQuota
    <3>1. PassedIn(ip, t, t + TTL) = 0
      BY <1>5, <2>1
    <3> QED BY <2>1, <3>1
  <2>4. ASSUME NEW ip \in IPs PROVE StretchQuota(ip)
    <3> SUFFICES ASSUME NEW a \in Int, NEW b \in Int, NEW m \in Nat
                 PROVE  PassedIn(ip, a, b) <= Limit * (m + 1)
      BY DEF StretchQuota
    <3>1. Limit * (m + 1) \in Nat
      <4>1. m + 1 \in Nat
        OBVIOUS
      <4> QED BY <2>1, <4>1, OneMore
    <3>2. PassedIn(ip, a, b) = 0
      BY <1>5
    <3> QED BY <3>1, <3>2
  <2> QED BY <2>2, <2>3, <2>4 DEF QuotaInv
<1>8. Justified(w)
  BY <1>1 DEF Justified
<1> QED BY <1>2, <1>3, <1>4, <1>6, <1>7, <1>8 DEF OneConsumer

(* is kept by every step, *)
LEMMA OneConsumerStep ==
  ASSUME NEW w, Workers = {w}, OneConsumer(w), [Next]_vars
  PROVE  OneConsumer(w)'
<1>1. TypeOK' /\ CacheInv' /\ SoloInv(w)'
  BY TypeStep, CacheStep, SoloStep DEF OneConsumer
<1>2. Dated(w)' /\ QuotaInv' /\ Justified(w)'
  BY <1>1, DatedStep, QuotaStep, JustifiedStep DEF OneConsumer
<1> QED BY <1>1, <1>2 DEF OneConsumer

(* and so holds for good. *)
LEMMA OneConsumerInvariant ==
  ASSUME NEW w, Workers = {w}
  PROVE  Spec => []OneConsumer(w)
<1>1. Init => OneConsumer(w)
  <2>1. Init => Unused
    BY BoundsAssumption DEF Init, Unused, Times, Addresses
  <2> QED BY <2>1, OneConsumerInit
<1>2. OneConsumer(w) /\ [Next]_vars => OneConsumer(w)'
  BY OneConsumerStep
<1> QED BY <1>1, <1>2, PTL DEF Spec

(* The limiter of RateLimiter, for a filter that is not started at 0.      *)
LEMMA LimiterBegins ==
  /\ Unused => Limiter!Init
  /\ \A w : Workers = {w} /\ OneConsumer(w) /\ [Next]_vars => [Limiter!Next]_(Limiter!vars)
<1>1. Unused => Limiter!Init
  <2> SUFFICES ASSUME Unused PROVE Limiter!Init
    OBVIOUS
  <2>1. Windows = [ip \in IPs |-> Limiter!None]
    BY DEF Unused, Windows, Limiter!None
  <2>2. passes = [ip \in IPs \cup {EmptyIP} |-> [t \in DOMAIN passes[ip] |-> 0]]
    BY DEF Unused, Addresses
  <2>3. clock \in Nat
    BY DEF Unused, Times
  <2> QED BY <2>1, <2>2, <2>3 DEF Unused, Limiter!Init
<1>2. ASSUME NEW w, Workers = {w}, OneConsumer(w), [Next]_vars
      PROVE  [Limiter!Next]_(Limiter!vars)
  <2>1. OneConsumer(w)'
    BY <1>2, OneConsumerStep
  <2> QED BY <1>2, <2>1, LimiterStep DEF OneConsumer
<1> QED BY <1>1, <1>2

(* One consumer: whatever other addresses do and however the cache orders  *)
(* them, no stretch of TTL lets through more than twice the limit less one *)
(* of an address the cache has kept.                                       *)
THEOREM BurstBounded == (\E w : Workers = {w}) => (Spec => []BurstBound)
<1> SUFFICES ASSUME NEW w, Workers = {w} PROVE Spec => []BurstBound
  OBVIOUS
<1>1. OneConsumer(w) => BurstBound
  BY DEF OneConsumer, QuotaInv, BurstQuota, BurstBound, Times
<1>2. Spec => []OneConsumer(w)
  BY OneConsumerInvariant
<1> QED BY <1>1, <1>2, PTL

(* One consumer: an event is dropped only if Limit events of its address   *)
(* passed in the TTL before it, evictions and other addresses or not.      *)
THEOREM RejectionsJustified == (\E w : Workers = {w}) => (Spec => RejectJustified)
<1> SUFFICES ASSUME NEW k, Workers = {k} PROVE Spec => RejectJustified
  OBVIOUS
<1>1. OneConsumer(k) /\ [Next]_vars =>
        [\A w \in Workers :
           calls[w].at = "count" /\ calls'[w].at = "idle" /\ passes' = passes
           => PassedIn(calls[w].ip, calls[w].now - TTL, calls[w].now) >= Limit]_vars
  <2> SUFFICES ASSUME OneConsumer(k), [Next]_vars,
                      calls[k].at = "count", calls'[k].at = "idle", passes' = passes
               PROVE  PassedIn(calls[k].ip, calls[k].now - TTL, calls[k].now) >= Limit
    OBVIOUS
  <2>1. Count(k)
    BY DEF Next, vars, ClockTick, CheckEmpty, ReadClock, Arrive, Get, AddCounter
  <2> QED BY <2>1, RefusalJustified DEF OneConsumer
<1>2. Spec => []OneConsumer(k)
  BY OneConsumerInvariant
<1> QED BY <1>1, <1>2, PTL DEF Spec, RejectJustified

-----------------------------------------------------------------------------
(* Many goroutines: the first window of an address.                        *)

(* The counters an event of the address can still be counted by: the       *)
(* cached one, and those found by a lookup of a check in progress.         *)
Live(ip) ==
  {r \in 1 .. Len(counters) :
     \/ cache[ip] = r
     \/ \E w \in Workers : calls[w].at = "count" /\ calls[w].ip = ip /\ calls[w].ref = r}

(* What these counters will still let through. *)
Room(ip) == {x \in Live(ip) \X (1 .. Limit) : x[2] > counters[x[1]].count}

(* The checks that found no counter and will start one. *)
Adding(ip) == {w \in Workers : calls[w].at = "add" /\ calls[w].ip = ip}

(* No event of the address passed before t, and t is less than TTL ago. *)
Young(ip, t) ==
  /\ clock <= t + TTL
  /\ \A p \in Passes(ip) : p[1] >= t

(* Every goroutine can let through one window of events: it has done so,   *)
(* a counter it started has room for them, or it is about to start one.    *)
Budget(ip) ==
  Limit * Cardinality(Adding(ip)) + Cardinality(Room(ip)) + Cardinality(Passes(ip))
    <= Limit * Cardinality(Workers)

Cold(ip) ==
  /\ \A r \in Live(ip) : \E p \in Passes(ip) : p[1] = counters[r].updatedAt
  /\ \A p \in Passes(ip) : p[1] <= clock
  /\ ip \notin evicted =>
       /\ ip \notin Cached => Passes(ip) = {} /\ Live(ip) = {}
       /\ \A t \in Times : Young(ip, t) => Budget(ip)

ColdInv ==
  /\ \A x, y \in IPs : x # y => Live(x) \cap Live(y) = {}
  /\ \A x \in IPs : Cold(x)

(* The sets the budget adds up are finite. *)
LEMMA BudgetSizes ==
  ASSUME IsFiniteSet(Workers), TypeOK, NEW ip \in IPs
  PROVE  /\ IsFiniteSet(Adding(ip)) /\ Cardinality(Adding(ip)) \in Nat
         /\ IsFiniteSet(Room(ip)) /\ Cardinality(Room(ip)) \in Nat
         /\ IsFiniteSet(Passes(ip)) /\ Cardinality(Passes(ip)) \in Nat
         /\ Cardinality(Workers) \in Nat
<1>1. IsFiniteSet(Adding(ip))
  BY FS_Subset DEF Adding
<1>2. IsFiniteSet(Room(ip))
  <2>1. Len(counters) \in Int /\ Limit \in Int
    BY LenProperties, ConfigAssumption DEF TypeOK
  <2>2. IsFiniteSet(1 .. Len(counters)) /\ IsFiniteSet(1 .. Limit)
    BY <2>1, FS_Interval
  <2>3. IsFiniteSet(Live(ip))
    BY <2>2, FS_Subset DEF Live
  <2>4. IsFiniteSet(Live(ip) \X (1 .. Limit))
    BY <2>2, <2>3, FS_Product
  <2> QED BY <2>4, FS_Subset DEF Room
<1>3. IsFiniteSet(Passes(ip))
  BY PassesFinite DEF Addresses
<1> QED BY <1>1, <1>2, <1>3, FS_CardinalityType

(* A product grows with its factor. *)
LEMMA TimesOrder ==
  ASSUME NEW k \in Nat, NEW m \in Nat, NEW n \in Nat, m <= n
  PROVE  k * m <= k * n /\ k * m \in Nat /\ k * n \in Nat
BY Z3

(* A union is no larger than its parts together. *)
LEMMA UnionAtMost ==
  ASSUME NEW A, NEW B, IsFiniteSet(A), IsFiniteSet(B)
  PROVE  /\ IsFiniteSet(A \cup B)
         /\ Cardinality(A \cup B) <= Cardinality(A) + Cardinality(B)
<1>1. IsFiniteSet(A \cap B)
  BY FS_Subset
<1>2. /\ Cardinality(A) \in Nat /\ Cardinality(B) \in Nat /\ Cardinality(A \cap B) \in Nat
  BY <1>1, FS_CardinalityType
<1>3. /\ IsFiniteSet(A \cup B)
      /\ Cardinality(A \cup B) = Cardinality(A) + Cardinality(B) - Cardinality(A \cap B)
  BY FS_Union
<1> QED BY <1>2, <1>3

(* A step that brings no counter, event or check to an address. *)
LEMMA ColdKept ==
  ASSUME IsFiniteSet(Workers), TypeOK, TypeOK', NEW x \in IPs, Cold(x),
         Live(x)' \subseteq Live(x), Adding(x)' \subseteq Adding(x),
         \A r \in Live(x)' : counters'[r] = counters[r],
         Passes(x)' = Passes(x), clock <= clock',
         evicted \subseteq evicted',
         x \in Cached /\ x \notin evicted' => x \in Cached'
  PROVE  Cold(x)'
<1>1. \A r \in Live(x)' : \E p \in Passes(x)' : p[1] = counters'[r].updatedAt
  BY DEF Cold
<1>2. \A p \in Passes(x)' : p[1] \in Times /\ p[1] <= clock /\ p[1] <= clock'
  <2>1. \A p \in Passes(x) : p[1] \in Times
    BY PassesFinite DEF Addresses
  <2>2. clock \in Times /\ clock' \in Times
    BY DEF TypeOK
  <2> QED BY <2>1, <2>2 DEF Cold, Times
<1>3. ASSUME x \notin evicted', x \notin Cached'
      PROVE  Passes(x)' = {} /\ Live(x)' = {}
  BY <1>3 DEF Cold
<1>4. ASSUME x \notin evicted', NEW t \in Times, Young(x, t)'
      PROVE  Budget(x)'
  <2>1. Young(x, t)
    <3>1. clock \in Nat /\ clock' \in Nat /\ t \in Nat /\ TTL \in Nat
      BY ConfigAssumption DEF TypeOK, Times
    <3> QED BY <1>4, <3>1 DEF Young
  <2>2. Budget(x)
    BY <1>4, <2>1 DEF Cold
  <2>3. Room(x)' \subseteq Room(x)
    BY DEF Room
  <2>4. /\ Cardinality(Adding(x)') <= Cardinality(Adding(x)) /\ Cardinality(Adding(x)') \in Nat
        /\ Cardinality(Room(x)') <= Cardinality(Room(x)) /\ Cardinality(Room(x)') \in Nat
    BY <2>3, BudgetSizes, FS_Subset, FS_CardinalityType
  <2>5. /\ Cardinality(Adding(x)) \in Nat /\ Cardinality(Room(x)) \in Nat
        /\ Cardinality(Passes(x)) \in Nat /\ Cardinality(Workers) \in Nat
    BY BudgetSizes
  <2>6. /\ Limit * Cardinality(Adding(x)') <= Limit * Cardinality(Adding(x))
        /\ Limit * Cardinality(Adding(x)') \in Nat /\ Limit * Cardinality(Adding(x)) \in Nat
    BY <2>4, <2>5, TimesOrder, ConfigAssumption
  <2>7. Limit * Cardinality(Workers) \in Nat
    BY <2>5, TimesOrder, ConfigAssumption
  <2>8. Limit * Cardinality(Adding(x)) + Cardinality(Room(x)) + Cardinality(Passes(x))
          <= Limit * Cardinality(Workers)
    BY <2>2 DEF Budget
  <2> DEFINE a == Limit * Cardinality(Adding(x))
             b == Limit * Cardinality(Adding(x)')
             most == Limit * Cardinality(Workers)
  <2> HIDE DEF a, b, most
  <2>9. b + Cardinality(Room(x)') + Cardinality(Passes(x)) <= most
    BY <2>4, <2>5, <2>6, <2>7, <2>8 DEF a, b, most
  <2>10. Cardinality(Passes(x)') = Cardinality(Passes(x))
    OBVIOUS
  <2>11. b + Cardinality(Room(x)') + Cardinality(Passes(x)') <= most
    BY <2>9, <2>10
  <2> QED BY <2>11 DEF Budget, a, b, most
<1> QED BY <1>1, <1>2, <1>3, <1>4 DEF Cold

(* A lookup that finds nothing in a cache that has not dropped the address *)
(* comes before any event of it has passed.                                *)
LEMMA GetCold ==
  ASSUME IsFiniteSet(Workers), TypeOK, TypeOK', ColdInv, NEW w \in Workers, Get(w)
  PROVE  ColdInv'
<1>1. PICK me \in IPs : me = calls[w].ip
  BY DEF TypeOK, Get
<1>2. /\ calls' = [calls EXCEPT ![w].at = IF me \in Cached THEN "count" ELSE "add",
                                ![w].ref = cache[me]]
      /\ UNCHANGED <<clock, cache, counters, passes, evicted>>
      /\ calls[w].at = "get" /\ calls[w] \in Call
  BY <1>1 DEF Get, CacheGet, TypeOK
<1>3. /\ calls'[w].at = IF me \in Cached THEN "count" ELSE "add"
      /\ calls'[w].ref = cache[me] /\ calls'[w].ip = me
      /\ \A v \in Workers \ {w} : calls'[v] = calls[v]
  BY <1>1, <1>2 DEF TypeOK, Call
<1>4. ASSUME NEW x \in IPs
      PROVE  /\ Live(x)' \subseteq Live(x)
             /\ Passes(x)' = Passes(x)
             /\ x # me \/ me \in Cached => Adding(x)' \subseteq Adding(x)
  <2>1. ASSUME NEW r \in Live(x)' PROVE r \in Live(x)
    <3>1. r \in 1 .. Len(counters)
      BY <1>2, <2>1 DEF Live
    <3>2. CASE cache[x] = r
      BY <3>1, <3>2 DEF Live
    <3>3. CASE cache[x] # r
      <4>1. PICK v \in Workers : calls'[v].at = "count" /\ calls'[v].ip = x /\ calls'[v].ref = r
        BY <1>2, <2>1, <3>3 DEF Live
      <4>2. v # w
        BY <1>3, <3>3, <4>1
      <4> QED BY <1>3, <3>1, <4>1, <4>2 DEF Live
    <3> QED BY <3>2, <3>3
  <2>2. Passes(x)' = Passes(x)
    BY <1>2 DEF Passes
  <2>3. ASSUME x # me \/ me \in Cached, NEW v \in Adding(x)' PROVE v \in Adding(x)
    <3>1. v \in Workers /\ calls'[v].at = "add" /\ calls'[v].ip = x
      BY <2>3 DEF Adding
    <3>2. v # w
      BY <1>3, <2>3, <3>1
    <3> QED BY <1>3, <3>1, <3>2 DEF Adding
  <2> QED BY <2>1, <2>2, <2>3
<1>5. ASSUME NEW x \in IPs, x # me \/ me \in Cached
      PROVE  Cold(x)'
  <2>1. Adding(x)' \subseteq Adding(x) /\ Live(x)' \subseteq Live(x) /\ Passes(x)' = Passes(x)
    BY <1>4, <1>5
  <2>2. clock <= clock' /\ Cached' = Cached
    BY <1>2 DEF TypeOK, Times, Cached
  <2>3. Cold(x)
    BY DEF ColdInv
  <2> QED BY <1>2, <2>1, <2>2, <2>3, ColdKept
<1>6. ASSUME me \notin Cached PROVE Cold(me)'
  <2>1. Cold(me) /\ Live(me)' \subseteq Live(me) /\ Passes(me)' = Passes(me)
    BY <1>4 DEF ColdInv
  <2>2. ASSUME me \notin evicted, NEW t \in Times PROVE Budget(me)'
    <3>1. Passes(me)' = {} /\ Live(me)' = {}
      BY <1>6, <2>1, <2>2 DEF Cold
    <3>2. Room(me)' = {}
      BY <3>1 DEF Room
    <3>3. Adding(me)' \subseteq Workers
      BY DEF Adding
    <3>4. /\ Cardinality(Adding(me)') <= Cardinality(Workers)
          /\ Cardinality(Adding(me)') \in Nat /\ Cardinality(Workers) \in Nat
      BY <3>3, FS_Subset, FS_CardinalityType
    <3>5. /\ Limit * Cardinality(Adding(me)') <= Limit * Cardinality(Workers)
          /\ Limit * Cardinality(Adding(me)') \in Nat
      BY <3>4, TimesOrder, ConfigAssumption
    <3>6. Cardinality(Room(me)') = 0 /\ Cardinality(Passes(me)') = 0
      BY <3>1, <3>2, FS_EmptySet
    <3> DEFINE b == Limit * Cardinality(Adding(me)')
               most == Limit * Cardinality(Workers)
    <3> HIDE DEF b, most
    <3>7. b + Cardinality(Room(me)') + Cardinality(Passes(me)') <= most
      BY <3>5, <3>6 DEF b, most
    <3> QED BY <3>7 DEF Budget, b, most
  <2>3. /\ \A r \in Live(me)' : \E p \in Passes(me)' : p[1] = counters'[r].updatedAt
        /\ \A p \in Passes(me)' : p[1] <= clock'
    BY <1>2, <2>1 DEF Cold
  <2>4. me \notin evicted' /\ me \notin Cached' => Passes(me)' = {} /\ Live(me)' = {}
    BY <1>2, <2>1 DEF Cold, Cached
  <2> QED BY <1>2, <2>2, <2>3, <2>4 DEF Cold
<1>7. \A x, y \in IPs : x # y => Live(x)' \cap Live(y)' = {}
  BY <1>4 DEF ColdInv
<1> QED BY <1>5, <1>6, <1>7 DEF ColdInv

(* A new counter: the goroutine that starts it has spent its turn, and its *)
(* own event is the first of a window.                                     *)
LEMMA AddCold ==
  ASSUME IsFiniteSet(Workers), TypeOK, TypeOK', ColdInv, NEW w \in Workers, AddCounter(w)
  PROVE  ColdInv'
<1>1. PICK me \in IPs, now \in Times : me = calls[w].ip /\ now = calls[w].now /\ now <= clock
  BY DEF TypeOK, AddCounter, Call
<1> DEFINE keys == (Cached \cup {me}) \ Surplus(me)
<1>2. /\ cache' = [x \in IPs |-> IF x = me THEN Len(counters) + 1
                                 ELSE IF x \in keys THEN cache[x] ELSE NoRef]
      /\ evicted' = evicted \cup Surplus(me)
  BY <1>1 DEF AddCounter, CacheAdd
<1>3. /\ passes' = [passes EXCEPT ![me][now] = @ + 1]
      /\ clock' = clock
      /\ calls[w].at = "add"
      /\ \A v \in Workers : calls'[v] = IF v = w THEN Idle ELSE calls[v]
  BY <1>1 DEF AddCounter, LetPass, Return, TypeOK
<1>4. PICK r \in Nat : r = Len(counters) + 1
  BY LenProperties DEF TypeOK
<1>5. /\ Len(counters) \in Nat /\ Len(counters') = r /\ r \notin 1 .. Len(counters)
      /\ 1 .. r = (1 .. Len(counters)) \cup {r}
      /\ counters'[r].count = 1 /\ counters'[r].updatedAt = now
      /\ \A j \in 1 .. Len(counters) : counters'[j] = counters[j]
  <2>1. Len(counters) \in Nat
    BY LenProperties DEF TypeOK
  <2>2. r \notin 1 .. Len(counters) /\ 1 .. r = (1 .. Len(counters)) \cup {r}
    BY <1>4, <2>1
  <2>3. /\ Len(counters') = Len(counters) + 1
        /\ counters'[Len(counters) + 1] = [count |-> 1, updatedAt |-> calls[w].now]
        /\ \A j \in 1 .. Len(counters) : counters'[j] = counters[j]
    BY AddWrites, Zenon
  <2>4. counters'[r] = [count |-> 1, updatedAt |-> now]
    BY <1>1, <1>4, <2>3
  <2> QED BY <1>4, <2>1, <2>2, <2>3, <2>4
<1>6. ASSUME NEW x \in IPs
      PROVE  /\ Live(x)' \subseteq Live(x) \cup (IF x = me THEN {r} ELSE {})
             /\ Live(x) \subseteq 1 .. Len(counters)
             /\ Adding(x)' \subseteq Adding(x) \ {w}
  <2>1. ASSUME NEW j \in Live(x)'
        PROVE  j \in Live(x) \cup (IF x = me THEN {r} ELSE {})
    <3>1. j \in 1 .. r
      BY <1>5, <2>1 DEF Live
    <3>2. CASE cache'[x] = j
      <4>1. CASE x = me
        BY <1>2, <1>4, <3>2, <4>1
      <4>2. CASE x # me
        <5>1. cache[x] = j
          BY <1>2, <3>1, <3>2, <4>2 DEF NoRef
        <5>2. cache[x] \in 0 .. Len(counters)
          BY DEF TypeOK
        <5>3. j \in 1 .. Len(counters)
          BY <1>5, <3>1, <5>1, <5>2
        <5> QED BY <5>1, <5>3 DEF Live
      <4> QED BY <4>1, <4>2
    <3>3. CASE cache'[x] # j
      <4>1. PICK v \in Workers : calls'[v].at = "count" /\ calls'[v].ip = x /\ calls'[v].ref = j
        BY <2>1, <3>3 DEF Live
      <4>2. v # w /\ calls'[v] = calls[v]
        BY <1>3, <4>1 DEF Idle
      <4>3. calls[v].ref \in 1 .. Len(counters)
        BY <4>1, <4>2 DEF TypeOK
      <4> QED BY <4>1, <4>2, <4>3 DEF Live
    <3> QED BY <3>2, <3>3
  <2>2. ASSUME NEW v \in Adding(x)' PROVE v \in Adding(x) \ {w}
    BY <1>3, <2>2 DEF Adding, Idle
  <2> QED BY <2>1, <2>2 DEF Live
<1>7. ASSUME NEW x \in IPs, x # me PROVE Cold(x)'
  <2>1. Live(x)' \subseteq Live(x) /\ Adding(x)' \subseteq Adding(x)
        /\ \A j \in Live(x)' : counters'[j] = counters[j]
    BY <1>5, <1>6, <1>7
  <2>2. Passes(x)' = Passes(x)
    BY <1>3, <1>7, PassAdds DEF Addresses
  <2>3. x \in Cached /\ x \notin evicted' => x \in Cached'
    BY <1>2, <1>7 DEF Cached
  <2>4. clock <= clock' /\ evicted \subseteq evicted' /\ Cold(x)
    BY <1>2, <1>3 DEF TypeOK, Times, ColdInv
  <2> QED BY <2>1, <2>2, <2>3, <2>4, ColdKept
<1>8. Cold(me)'
  <2>1. Cold(me)
    BY DEF ColdInv
  <2>2. PICK new : new \notin Passes(me) /\ new[1] = now /\ Passes(me)' = Passes(me) \cup {new}
    BY <1>3, PassAdds DEF Addresses
  <2>3. \A j \in Live(me)' : \E p \in Passes(me)' : p[1] = counters'[j].updatedAt
    BY <1>5, <1>6, <2>1, <2>2 DEF Cold
  <2>4. \A p \in Passes(me)' : p[1] <= clock'
    BY <1>1, <1>3, <2>1, <2>2 DEF Cold
  <2>5. me \in Cached'
    BY <1>2, <1>5 DEF Cached, NoRef
  <2>6. ASSUME me \notin evicted', NEW t \in Times, Young(me, t)'
        PROVE  Budget(me)'
    <3>1. Budget(me)
      BY <1>2, <1>3, <2>1, <2>2, <2>6 DEF Cold, Young
    <3>2. /\ Cardinality(Adding(me)) \in Nat /\ Cardinality(Room(me)) \in Nat
          /\ Cardinality(Passes(me)) \in Nat /\ Cardinality(Workers) \in Nat
          /\ IsFiniteSet(Adding(me)) /\ IsFiniteSet(Room(me)) /\ IsFiniteSet(Passes(me))
      BY BudgetSizes
    <3>3. Cardinality(Passes(me)') = Cardinality(Passes(me)) + 1
      BY <2>2, <3>2, FS_AddElement
    <3>4. Cardinality(Adding(me)') <= Cardinality(Adding(me)) - 1
          /\ Cardinality(Adding(me)') \in Nat /\ Cardinality(Adding(me)) - 1 \in Nat
      <4>1. w \in Adding(me)
        BY <1>1, <1>3 DEF Adding
      <4>2. IsFiniteSet(Adding(me) \ {w})
            /\ Cardinality(Adding(me) \ {w}) = Cardinality(Adding(me)) - 1
        BY <3>2, <4>1, FS_RemoveElement
      <4>3. Cardinality(Adding(me) \ {w}) \in Nat
        BY <4>2, FS_CardinalityType
      <4> QED BY <1>6, <4>2, <4>3, FS_Subset, FS_CardinalityType
    <3>5. Cardinality(Room(me)') <= Cardinality(Room(me)) + (Limit - 1)
          /\ Cardinality(Room(me)') \in Nat
      <4> DEFINE rest == {r} \X (2 .. Limit)
      <4>1. Limit \in Nat /\ Limit >= 1 /\ 2 \in Int /\ Limit \in Int
        BY ConfigAssumption
      <4>2. IsFiniteSet(2 .. Limit) /\ Cardinality(2 .. Limit) = Limit - 1
        BY <4>1, FS_Interval
      <4>3. IsFiniteSet(rest) /\ Cardinality(rest) = Limit - 1
        <5>1. IsFiniteSet({r}) /\ Cardinality({r}) = 1
          BY FS_Singleton
        <5>2. IsFiniteSet(rest) /\ Cardinality(rest) = 1 * (Limit - 1)
          BY <4>2, <5>1, FS_Product
        <5> QED BY <4>1, <5>2
      <4>4. ASSUME NEW x \in Room(me)' PROVE x \in Room(me) \cup rest
        <5>1. x \in Live(me)' \X (1 .. Limit) /\ x[2] > counters'[x[1]].count
          BY <4>4 DEF Room
        <5>2. CASE x[1] = r
          <6>1. x[2] \in 2 .. Limit
            BY <1>5, <4>1, <5>1, <5>2
          <6> QED BY <5>1, <5>2, <6>1
        <5>3. CASE x[1] # r
          <6>1. x[1] \in Live(me) /\ counters'[x[1]] = counters[x[1]]
            BY <1>5, <1>6, <5>1, <5>3
          <6> QED BY <5>1, <6>1 DEF Room
        <5> QED BY <5>2, <5>3
      <4> HIDE DEF rest
      <4>5. /\ IsFiniteSet(Room(me) \cup rest)
            /\ Cardinality(Room(me) \cup rest) <= Cardinality(Room(me)) + Cardinality(rest)
        BY <3>2, <4>3, UnionAtMost
      <4>6. /\ Cardinality(Room(me)') <= Cardinality(Room(me) \cup rest)
            /\ Cardinality(Room(me)') \in Nat /\ Cardinality(Room(me) \cup rest) \in Nat
        BY <4>4, <4>5, FS_Subset, FS_CardinalityType
      <4> QED BY <3>2, <4>1, <4>3, <4>5, <4>6
    <3> DEFINE a == Limit * Cardinality(Adding(me))
               b == Limit * Cardinality(Adding(me)')
               most == Limit * Cardinality(Workers)
    <3>6. a \in Nat /\ b \in Nat /\ most \in Nat /\ b <= a - Limit
      <4>1. PICK k \in Nat : k = Cardinality(Adding(me)) - 1
        BY <3>4
      <4>2. Limit * Cardinality(Adding(me)') <= Limit * k /\ Limit * k \in Nat /\ b \in Nat
        BY <3>4, <4>1, TimesOrder, ConfigAssumption
      <4>3. Limit * (k + 1) = Limit * k + Limit
        BY ConfigAssumption, OneMore
      <4>4. Cardinality(Adding(me)) = k + 1
        BY <3>2, <4>1
      <4>5. most \in Nat
        BY <3>2, TimesOrder, ConfigAssumption
      <4>6. a = Limit * k + Limit
        BY <4>3, <4>4
      <4> HIDE DEF a, most
      <4> QED BY <4>2, <4>5, <4>6, ConfigAssumption
    <3> HIDE DEF a, b, most
    <3>7. a + Cardinality(Room(me)) + Cardinality(Passes(me)) <= most
      BY <3>1 DEF Budget, a, most
    <3>8. b + Cardinality(Room(me)') + Cardinality(Passes(me)') <= most
      BY <3>2, <3>3, <3>5, <3>6, <3>7, ConfigAssumption
    <3> QED BY <3>8 DEF Budget, b, most
  <2> QED BY <2>3, <2>4, <2>5, <2>6 DEF Cold
<1>9. \A x, y \in IPs : x # y => Live(x)' \cap Live(y)' = {}
  <2> SUFFICES ASSUME NEW x \in IPs, NEW y \in IPs, x # y, NEW j \in Live(x)', j \in Live(y)'
               PROVE  FALSE
    OBVIOUS
  <2>1. Live(x) \cap Live(y) = {}
    BY DEF ColdInv
  <2> QED BY <1>5, <1>6, <2>1
<1> QED BY <1>7, <1>8, <1>9 DEF ColdInv

(* Counting within the first window takes room, and gives none back.       *)
LEMMA CountCold ==
  ASSUME IsFiniteSet(Workers), TypeOK, TypeOK', ColdInv, NEW w \in Workers, Count(w)
  PROVE  ColdInv'
<1>1. PICK me \in IPs, now \in Times, r \in 1 .. Len(counters) :
        /\ me = calls[w].ip /\ now = calls[w].now /\ r = calls[w].ref
        /\ now <= clock
  BY DEF TypeOK, Count, Call
<1>2. PICK c \in Counter : c = counters[r]
  BY <1>1, ElementOfSeq DEF TypeOK
<1>3. /\ counters'[r] = Counted(c, now)
      /\ Len(counters') = Len(counters)
      /\ \A j \in 1 .. Len(counters) \ {r} : counters'[j] = counters[j]
  BY <1>1, <1>2, CountWrites
<1>4. /\ UNCHANGED <<clock, cache, evicted>>
      /\ calls[w].at = "count"
      /\ \A v \in Workers : calls'[v] = IF v = w THEN Idle ELSE calls[v]
  BY DEF Count, Return, TypeOK
<1>5. IF Counted(c, now).count > Limit THEN passes' = passes
      ELSE passes' = [passes EXCEPT ![me][now] = @ + 1]
  BY <1>1, <1>3 DEF Count, LetPass, OverLimit
<1>6. r \in Live(me)
  BY <1>1, <1>4 DEF Live
<1>7. ASSUME NEW x \in IPs
      PROVE  Live(x)' \subseteq Live(x) /\ Adding(x)' \subseteq Adding(x)
             /\ Live(x) \subseteq 1 .. Len(counters)
  BY <1>3, <1>4 DEF Live, Adding, Idle
<1>8. ASSUME NEW x \in IPs, x # me PROVE Cold(x)'
  <2>1. r \notin Live(x)
    BY <1>6, <1>8 DEF ColdInv
  <2>2. \A j \in Live(x)' : counters'[j] = counters[j]
    BY <1>3, <1>7, <2>1
  <2>3. Passes(x)' = Passes(x)
    <3>1. CASE passes' = passes
      BY <3>1 DEF Passes
    <3>2. CASE passes' = [passes EXCEPT ![me][now] = @ + 1]
      BY <1>8, <3>2, PassAdds DEF Addresses
    <3> QED BY <1>5, <3>1, <3>2
  <2>4. clock <= clock' /\ Cold(x) /\ Cached' = Cached
    BY <1>4 DEF TypeOK, Times, ColdInv, Cached
  <2> QED BY <1>4, <1>7, <2>2, <2>3, <2>4, ColdKept
<1>9. Cold(me)'
  <2>1. Cold(me) /\ Cached' = Cached
    BY <1>4 DEF ColdInv, Cached
  <2>2. /\ c.count \in Nat \ {0} /\ c.updatedAt \in Nat /\ now \in Nat /\ clock \in Nat
        /\ Limit \in Nat \ {0} /\ TTL \in Nat \ {0}
    <3>1. c.count \in Nat \ {0} /\ c.updatedAt \in Times
      BY <1>2 DEF Counter
    <3>2. clock \in Times
      BY DEF TypeOK
    <3>3. Times \subseteq Nat
      BY DEF Times
    <3> QED BY <1>1, <3>1, <3>2, <3>3, ConfigAssumption
  <2>3. Counted(c, now).count \in Nat
    BY <1>2, CountedType DEF Counter
  <2>4. /\ passes' = passes => Passes(me)' = Passes(me)
        /\ passes' # passes =>
             \E new : /\ new \notin Passes(me) /\ new[1] = now
                      /\ Passes(me)' = Passes(me) \cup {new}
    <3>1. passes' = passes => Passes(me)' = Passes(me)
      BY DEF Passes
    <3>2. passes' = [passes EXCEPT ![me][now] = @ + 1] =>
             \E new : /\ new \notin Passes(me) /\ new[1] = now
                      /\ Passes(me)' = Passes(me) \cup {new}
      BY PassAdds DEF Addresses
    <3> QED BY <1>5, <3>1, <3>2
  <2>5. Passes(me) \subseteq Passes(me)' /\ \A p \in Passes(me)' : p \in Passes(me) \/ p[1] = now
    BY <2>4
  <2>6. \A p \in Passes(me)' : p[1] <= clock'
    BY <1>1, <1>4, <2>1, <2>5 DEF Cold
  <2>7. Counted(c, now) = IF now - c.updatedAt > TTL THEN [count |-> 1, updatedAt |-> now]
                          ELSE [c EXCEPT !.count = @ + 1]
    BY DEF Counted, Expired
  <2>8. \A j \in Live(me)' : \E p \in Passes(me)' : p[1] = counters'[j].updatedAt
    <3> SUFFICES ASSUME NEW j \in Live(me)'
                 PROVE  \E p \in Passes(me)' : p[1] = counters'[j].updatedAt
      OBVIOUS
    <3>1. PICK p \in Passes(me) : p[1] = counters[j].updatedAt
      BY <1>7, <2>1 DEF Cold
    <3>2. CASE j # r \/ ~(now - c.updatedAt > TTL)
      <4>1. counters'[j].updatedAt = counters[j].updatedAt
        BY <1>2, <1>3, <1>7, <2>7, <3>2 DEF Counter
      <4> QED BY <2>5, <3>1, <4>1
    <3>3. CASE j = r /\ now - c.updatedAt > TTL
      <4>1. Counted(c, now) = [count |-> 1, updatedAt |-> now]
        BY <2>7, <3>3
      <4>2. counters'[j].updatedAt = now /\ passes' = [passes EXCEPT ![me][now] = @ + 1]
        BY <1>3, <1>5, <2>2, <3>3, <4>1
      <4>3. PICK new : new[1] = now /\ Passes(me)' = Passes(me) \cup {new}
        BY <4>2, PassAdds DEF Addresses
      <4> QED BY <4>2, <4>3
    <3> QED BY <3>2, <3>3
  <2>9. me \notin Cached' /\ me \notin evicted' => Passes(me)' = {} /\ Live(me)' = {}
    BY <1>4, <1>6, <2>1 DEF Cold
  <2>10. ASSUME me \notin evicted', NEW t \in Times, Young(me, t)'
         PROVE  Budget(me)'
    <3>1. Young(me, t)
      BY <1>4, <2>5, <2>10 DEF Young
    <3>2. Budget(me)
      BY <1>4, <2>1, <2>10, <3>1 DEF Cold
    <3>3. PICK p \in Passes(me) : p[1] = c.updatedAt
      BY <1>2, <1>6, <2>1 DEF Cold
    <3>4. ~(now - c.updatedAt > TTL)
      <4>1. p[1] >= t /\ clock <= t + TTL /\ t \in Nat
        BY <3>1, <3>3 DEF Young, Times
      <4> QED BY <1>1, <2>2, <3>3, <4>1
    <3>5. counters'[r].count = c.count + 1
      BY <1>2, <1>3, <2>7, <3>4 DEF Counter
    <3>6. /\ Cardinality(Adding(me)) \in Nat /\ Cardinality(Room(me)) \in Nat
          /\ Cardinality(Passes(me)) \in Nat /\ Cardinality(Workers) \in Nat
          /\ IsFiniteSet(Adding(me)) /\ IsFiniteSet(Room(me)) /\ IsFiniteSet(Passes(me))
      BY BudgetSizes
    <3>7. ASSUME NEW x \in Room(me)' PROVE x \in Room(me) /\ x # <<r, c.count + 1>>
      <4>1. x \in Live(me) \X (1 .. Limit) /\ x[2] > counters'[x[1]].count
        BY <1>7, <3>7 DEF Room
      <4>2. CASE x[1] = r
        <5>1. x[2] > c.count + 1 /\ x[2] \in Nat /\ counters[x[1]].count = c.count
          BY <1>2, <3>5, <4>1, <4>2
        <5>2. x[2] > counters[x[1]].count
          BY <2>2, <5>1
        <5> QED BY <2>2, <4>1, <5>1, <5>2 DEF Room
      <4>3. CASE x[1] # r
        <5>1. counters'[x[1]] = counters[x[1]]
          BY <1>3, <1>7, <4>1, <4>3
        <5> QED BY <4>1, <4>3, <5>1 DEF Room
      <4> QED BY <4>2, <4>3
    <3>8. Cardinality(Room(me)') + Cardinality(Passes(me)')
            <= Cardinality(Room(me)) + Cardinality(Passes(me))
          /\ Cardinality(Room(me)') \in Nat /\ Cardinality(Passes(me)') \in Nat
      <4>1. CASE passes' = passes
        <5>1. /\ Cardinality(Room(me)') <= Cardinality(Room(me))
              /\ Cardinality(Room(me)') \in Nat
          BY <3>6, <3>7, FS_Subset, FS_CardinalityType
        <5>2. Passes(me)' = Passes(me)
          BY <2>4, <4>1
        <5> QED BY <3>6, <5>1, <5>2
      <4>2. CASE passes' # passes
        <5>1. PICK new : new \notin Passes(me) /\ Passes(me)' = Passes(me) \cup {new}
          BY <2>4, <4>2
        <5>2. Cardinality(Passes(me)') = Cardinality(Passes(me)) + 1
          <6>1. Cardinality(Passes(me) \cup {new}) = Cardinality(Passes(me)) + 1
            BY <3>6, <5>1, FS_AddElement
          <6> QED BY <5>1, <6>1
        <5>3. c.count + 1 <= Limit
          BY <1>3, <1>5, <2>2, <3>5, <4>2
        <5> DEFINE filled == <<r, c.count + 1>>
        <5>4. filled \in Room(me)
          BY <1>2, <1>6, <2>2, <5>3 DEF Room
        <5>5. /\ IsFiniteSet(Room(me) \ {filled})
              /\ Cardinality(Room(me) \ {filled}) = Cardinality(Room(me)) - 1
          <6> HIDE DEF filled
          <6> QED BY <3>6, <5>4, FS_RemoveElement
        <5>6. /\ Cardinality(Room(me)') <= Cardinality(Room(me) \ {filled})
              /\ Cardinality(Room(me)') \in Nat
          <6>1. Room(me)' \subseteq Room(me) \ {filled}
            BY <3>7
          <6> HIDE DEF filled
          <6> QED BY <5>5, <6>1, FS_Subset, FS_CardinalityType
        <5> HIDE DEF filled
        <5>7. Cardinality(Room(me)') <= Cardinality(Room(me)) - 1
          BY <5>5, <5>6
        <5> QED BY <3>6, <5>2, <5>6, <5>7
      <4> QED BY <4>1, <4>2
    <3>9. /\ Cardinality(Adding(me)') <= Cardinality(Adding(me)) /\ Cardinality(Adding(me)') \in Nat
      BY <1>7, <3>6, FS_Subset, FS_CardinalityType
    <3> DEFINE a == Limit * Cardinality(Adding(me))
               b == Limit * Cardinality(Adding(me)')
               most == Limit * Cardinality(Workers)
    <3>10. a \in Nat /\ b \in Nat /\ most \in Nat /\ b <= a
      BY <3>6, <3>9, TimesOrder, ConfigAssumption
    <3> HIDE DEF a, b, most
    <3>11. a + Cardinality(Room(me)) + Cardinality(Passes(me)) <= most
      BY <3>2 DEF Budget, a, most
    <3>12. b + Cardinality(Room(me)') + Cardinality(Passes(me)') <= most
      BY <3>6, <3>8, <3>10, <3>11
    <3> QED BY <3>12 DEF Budget, b, most
  <2> QED BY <2>6, <2>8, <2>9, <2>10 DEF Cold
<1>10. \A x, y \in IPs : x # y => Live(x)' \cap Live(y)' = {}
  BY <1>7 DEF ColdInv
<1> QED BY <1>8, <1>9, <1>10 DEF ColdInv

(* At the start nothing has passed, and no counter exists. *)
LEMMA ColdInit ==
  ASSUME IsFiniteSet(Workers), Init
  PROVE  ColdInv
<1>1. \A x \in IPs : Live(x) = {}
  <2>1. counters = << >> /\ Len(counters) = 0
    BY DEF Init
  <2> QED BY <2>1 DEF Live
<1>2. \A x \in IPs : Passes(x) = {}
  <2> SUFFICES ASSUME NEW x \in IPs PROVE Passes(x) = {}
    OBVIOUS
  <2>1. \A t \in Times : passes[x][t] = 0
    BY DEF Init
  <2> QED BY <2>1 DEF Passes
<1>3. \A x \in IPs : Adding(x) = {} /\ Room(x) = {}
  BY <1>1 DEF Adding, Room, Init, Idle
<1>4. ASSUME NEW x \in IPs PROVE Budget(x)
  <2>1. Cardinality(Workers) \in Nat /\ 0 \in Nat /\ Limit \in Nat
    BY FS_CardinalityType, ConfigAssumption
  <2>2. Limit * 0 <= Limit * Cardinality(Workers)
    BY <2>1, TimesOrder
  <2>3. Limit * 0 + 0 + 0 <= Limit * Cardinality(Workers)
    <3> DEFINE most == Limit * Cardinality(Workers)
    <3>1. most \in Nat
      BY <2>1, TimesOrder
    <3>2. Limit * 0 = 0 /\ 0 <= most
      BY <2>1, <2>2
    <3> HIDE DEF most
    <3>3. Limit * 0 + 0 + 0 <= most
      BY <3>1, <3>2
    <3> QED BY <3>3 DEF most
  <2>4. Cardinality(Adding(x)) = 0 /\ Cardinality(Room(x)) = 0 /\ Cardinality(Passes(x)) = 0
    BY <1>2, <1>3, FS_EmptySet
  <2> QED BY <2>3, <2>4 DEF Budget
<1> QED BY <1>1, <1>2, <1>4 DEF ColdInv, Cold

(* A step that leaves the calls, the cache and the counters alone.          *)
LEMMA IdleCold ==
  ASSUME IsFiniteSet(Workers), TypeOK, TypeOK', ColdInv,
         UNCHANGED <<cache, counters, evicted>>, clock <= clock',
         \A x \in IPs : Passes(x)' = Passes(x),
         \A v \in Workers : calls'[v] = calls[v] \/ calls'[v].at = "get"
  PROVE  ColdInv'
<1>1. ASSUME NEW x \in IPs
      PROVE  Live(x)' \subseteq Live(x) /\ Adding(x)' \subseteq Adding(x)
  BY DEF Live, Adding
<1>2. Cached' = Cached
  BY DEF Cached
<1>3. ASSUME NEW x \in IPs PROVE Cold(x)'
  BY <1>1, <1>2, ColdKept DEF ColdInv
<1>4. \A x, y \in IPs : x # y => Live(x)' \cap Live(y)' = {}
  BY <1>1 DEF ColdInv
<1> QED BY <1>3, <1>4 DEF ColdInv

(* ColdInv is inductive. *)
LEMMA ColdStep ==
  ASSUME IsFiniteSet(Workers), TypeOK, TypeOK', ColdInv, [Next]_vars
  PROVE  ColdInv'
<1>0. clock \in Nat
  BY DEF TypeOK, Times
<1>1. CASE UNCHANGED vars
  <2>1. \A x \in IPs : Passes(x)' = Passes(x)
    BY <1>1 DEF vars, Passes
  <2> QED BY <1>0, <1>1, <2>1, IdleCold DEF vars
<1>2. CASE ClockTick
  <2>1. \A x \in IPs : Passes(x)' = Passes(x)
    BY <1>2 DEF ClockTick, Passes
  <2>2. clock <= clock'
    BY <1>0, <1>2 DEF ClockTick
  <2> QED BY <1>2, <2>1, <2>2, IdleCold DEF ClockTick
<1>3. ASSUME NEW w \in Workers, CheckEmpty(w) PROVE ColdInv'
  <2>1. PICK now \in Times : now = clock
    BY DEF TypeOK
  <2>2. passes' = [passes EXCEPT ![EmptyIP][now] = @ + 1]
    BY <1>3, <2>1 DEF CheckEmpty
  <2>3. \A x \in IPs : Passes(x)' = Passes(x)
    BY <2>2, PassAdds, BoundsAssumption DEF Addresses
  <2> QED BY <1>0, <1>3, <2>3, IdleCold DEF CheckEmpty, Arrive
<1>4. ASSUME NEW w \in Workers, NEW ip \in IPs, ReadClock(w, ip) PROVE ColdInv'
  <2>1. \A x \in IPs : Passes(x)' = Passes(x)
    BY <1>4 DEF ReadClock, Passes
  <2>2. \A v \in Workers : calls'[v] = calls[v] \/ calls'[v].at = "get"
    BY <1>4 DEF ReadClock, TypeOK
  <2> QED BY <1>0, <1>4, <2>1, <2>2, IdleCold DEF ReadClock, Arrive
<1> QED BY <1>1, <1>2, <1>3, <1>4, GetCold, AddCold, CountCold DEF Next

(* What the budget is for: no pass of ip before t means a young address.   *)
LEMMA ColdBound ==
  ASSUME IsFiniteSet(Workers), TypeOK, ColdInv
  PROVE  ColdStartBound
<1> SUFFICES ASSUME NEW ip \in IPs \ evicted, NEW t \in Times,
                    PassedIn(ip, 0, t - 1) = 0, clock <= t + TTL
             PROVE  PassedIn(ip, t, clock) <= Limit * Cardinality(Workers)
  BY DEF ColdStartBound
<1>1. IsFiniteSet(Passes(ip)) /\ \A p \in Passes(ip) : p[1] \in Nat
  BY PassesFinite DEF Addresses, Times
<1>2. Young(ip, t)
  <2>1. {p \in Passes(ip) : 0 <= p[1] /\ p[1] <= t - 1} = {}
    BY <1>1, FS_Subset, FS_EmptySet DEF PassedIn
  <2>2. t \in Nat
    BY DEF Times
  <2>3. ASSUME NEW p \in Passes(ip), ~(p[1] >= t) PROVE FALSE
    <3>1. 0 <= p[1] /\ p[1] <= t - 1
      BY <1>1, <2>2, <2>3
    <3> QED BY <2>1, <3>1
  <2> QED BY <2>3 DEF Young
<1>3. Budget(ip)
  BY <1>2 DEF ColdInv, Cold
<1>4. /\ Cardinality(Adding(ip)) \in Nat /\ Cardinality(Room(ip)) \in Nat
      /\ Cardinality(Passes(ip)) \in Nat /\ Cardinality(Workers) \in Nat
  BY BudgetSizes
<1>5. PassedIn(ip, t, clock) <= Cardinality(Passes(ip)) /\ PassedIn(ip, t, clock) \in Nat
  <2>1. {p \in Passes(ip) : t <= p[1] /\ p[1] <= clock} \subseteq Passes(ip)
    OBVIOUS
  <2> QED BY <1>1, <2>1, FS_Subset, FS_CardinalityType DEF PassedIn
<1> DEFINE a == Limit * Cardinality(Adding(ip))
           most == Limit * Cardinality(Workers)
<1>6. a \in Nat /\ most \in Nat
  BY <1>4, ConfigAssumption
<1> HIDE DEF a, most
<1>7. a + Cardinality(Room(ip)) + Cardinality(Passes(ip)) <= most
  BY <1>3 DEF Budget, a, most
<1>8. PassedIn(ip, t, clock) <= most
  BY <1>4, <1>5, <1>6, <1>7
<1> QED BY <1>8 DEF most

(* However many goroutines call Check, as long as there are finitely many:  *)
(* within the first TTL of an address the filter lets at most Limit events *)
(* per goroutine through.  Two calls that both find no counter start two,  *)
(* and one of them replaces the other's in the cache; the budget counts    *)
(* what the counter that was replaced may still let pass.                  *)
THEOREM ColdStartBounded == IsFiniteSet(Workers) => (Spec => []ColdStartBound)
<1> SUFFICES ASSUME IsFiniteSet(Workers) PROVE Spec => []ColdStartBound
  OBVIOUS
<1>1. Init => ColdInv
  BY ColdInit
<1>2. TypeOK /\ TypeOK' /\ ColdInv /\ [Next]_vars => ColdInv'
  BY ColdStep
<1>3. TypeOK /\ ColdInv => ColdStartBound
  BY ColdBound
<1> QED BY <1>1, <1>2, <1>3, TypeCorrect, PTL DEF Spec

(* For one goroutine the cold-start bound is Limit itself: the service, with *)
(* its single consumer, has what TestAntiFraudFilter_Check_Concurrency asks *)
(* of many (and what many do not give, see the run antifraud_race).         *)
THEOREM LimitForOneConsumer == (\E w : Workers = {w}) => (Spec => []LimitPerWindow)
<1> SUFFICES ASSUME NEW w, Workers = {w} PROVE Spec => []LimitPerWindow
  OBVIOUS
<1>1. IsFiniteSet(Workers) /\ Cardinality(Workers) = 1
  BY FS_Singleton
<1>2. ColdStartBound => LimitPerWindow
  <2>1. Limit * Cardinality(Workers) = Limit
    <3>1. Limit * 1 = Limit
      BY ConfigAssumption
    <3> QED BY <1>1, <3>1
  <2> QED BY <2>1 DEF ColdStartBound, LimitPerWindow
<1>3. Spec => []ColdStartBound
  BY <1>1, ColdStartBounded
<1> QED BY <1>2, <1>3, PTL
=============================================================================
