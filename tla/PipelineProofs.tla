-------------------------- MODULE PipelineProofs --------------------------
(***************************************************************************)
(* Proofs about Pipeline, for any queries, words, addresses and            *)
(* administrators, any number of events and requests, and any delay and    *)
(* skew: both filters keep inside it what they promise on their own, a ban *)
(* reaches the ring, the anti-fraud filter is fair by the timestamps of    *)
(* the events, and an address's share of a slice is bounded.               *)
(***************************************************************************)
EXTENDS Pipeline, SliceArithmetic, FiniteSetTheorems, TLAPS

-----------------------------------------------------------------------------
(* The stop list inside the pipeline keeps what StopListProofs proves.     *)

List == INSTANCE StopListProofs WITH
  Checkers <- {Consumer}, MaxChecks <- MaxEvents, MaxWords <- Cardinality(RawWords)

(* Constants of one are constants of the other. *)
LEMMA ListAssumption == List!WordsAssumption
BY PipelineAssumption DEF Stop!WordsAssumption, List!WordsAssumption

(* Where the consumer's event is: in hand exactly while one of the filters *)
(* has it, with a timestamp as late or early as the pipeline allows.       *)
Event == [query : Queries, ip : IPs \cup {EmptyIP}, timestamp : Int,
          fate : {"in hand", "fraud", "counted", "banned"}]

Free(place) == place[Consumer].at = "idle"

EventInHand ==
  /\ events # <<>>
  /\ InHand.fate = "in hand"
  /\ InHand.timestamp \in clock - MaxLate .. clock + MaxSkew
  /\ Free(checks) \/ checks[Consumer].query = InHand.query

HandInv ==
  /\ clock \in StartClock .. MaxClock
  /\ events \in Seq(Event)
  /\ DOMAIN calls = {Consumer}
  /\ Free(calls) \/ Free(checks)
  /\ (Free(calls) /\ Free(checks)) \/ EventInHand

(* What happens to the stop list in a step of the pipeline is a step of    *)
(* the stop list.                                                          *)
LEMMA ListStep ==
  ASSUME HandInv, [Next]_vars
  PROVE  [List!Next]_(List!vars)
<1>1. ASSUME NEW query \in Queries, List!BeginCheck(Consumer, query)
      PROVE  List!Next
  BY <1>1 DEF List!Next, List!Queries, Queries
<1>2. ASSUME NEW query \in Queries, NEW ip \in IPs \cup {EmptyIP},
             NEW timestamp \in clock - MaxLate .. clock + MaxSkew, Receive(query, ip, timestamp)
      PROVE  [List!Next]_(List!vars)
  <2>1. List!BeginCheck(Consumer, query) \/ UNCHANGED stopVars
    BY <1>2 DEF Receive, Stop!BeginCheck, List!BeginCheck
  <2> QED BY <1>1, <2>1 DEF stopVars, List!vars
<1>3. CASE LetPass
  <2>1. List!BeginCheck(Consumer, InHand.query)
    BY <1>3 DEF LetPass, Stop!BeginCheck, List!BeginCheck
  <2>2. InHand.query \in Queries
    <3>1. ~Free(calls)
      BY <1>3 DEF LetPass, Fraud!AddCounter, Fraud!Count, Free
    <3>2. events \in Seq(Event) /\ events # <<>>
      BY <3>1 DEF HandInv, EventInHand
    <3>3. InHand \in Event
      BY <3>2 DEF InHand
    <3> QED BY <3>3 DEF Event
  <2> QED BY <1>1, <2>1, <2>2
<1>4. CASE SearchQuery
  <2>1. List!ReadMachine(Consumer) \/ List!Search(Consumer)
    BY <1>4 DEF SearchQuery, Stop!ReadMachine, List!ReadMachine, Stop!Search, List!Search,
                Stop!Passes, List!Passes
  <2> QED BY <2>1 DEF List!Next
<1>5. CASE JudgeQuery
  <2>1. List!EndCheck(Consumer)
    BY <1>5 DEF JudgeQuery, Stop!EndCheck, List!EndCheck
  <2> QED BY <2>1 DEF List!Next
<1>6. ASSUME NEW c \in Clients, Administrate(c)
      PROVE  List!Next
  <2>1. CASE \E op \in {"add", "delete"}, raws \in SUBSET RawWords : Stop!Call(c, op, raws)
    <3>1. PICK op \in {"add", "delete"}, raws \in SUBSET RawWords : List!Call(c, op, raws)
      BY <2>1 DEF Stop!Call, List!Call, Stop!InFlight, List!InFlight, Stop!Opposite,
                  List!Opposite, Stop!CleanWords, List!CleanWords
    <3>2. Cardinality(raws) <= Cardinality(RawWords)
      BY PipelineAssumption, FS_Subset
    <3>3. \E x \in {"add", "delete"}, y \in SUBSET RawWords :
            Cardinality(y) <= Cardinality(RawWords) /\ List!Call(c, x, y)
      BY <3>1, <3>2
    <3>4. \A S : List!Cardinality(S) = Cardinality(S)
      BY Zenon DEF List!Cardinality, Cardinality
    <3> QED BY <3>3, <3>4 DEF List!Next
  <2>2. CASE Stop!Add(c)
    <3>1. List!Add(c)
      BY <2>2 DEF Stop!Add, List!Add, Stop!CleanWords, List!CleanWords, Stop!Rebuild,
                  List!Rebuild, Stop!Answer, List!Answer, Stop!Builds, List!Builds,
                  Stop!AddStatus, List!AddStatus
    <3> QED BY <3>1 DEF List!Next
  <2>3. CASE Stop!Delete(c)
    <3>1. List!Delete(c)
      BY <2>3 DEF Stop!Delete, List!Delete, Stop!CleanWords, List!CleanWords, Stop!Rebuild,
                  List!Rebuild, Stop!Answer, List!Answer, Stop!Builds, List!Builds,
                  Stop!DeleteStatus, List!DeleteStatus
    <3> QED BY <3>1 DEF List!Next
  <2>4. CASE Stop!Return(c)
    <3>1. List!Return(c)
      BY <2>4 DEF Stop!Return, List!Return, Stop!CleanWords, List!CleanWords,
                  Stop!NoRequest, List!NoRequest
    <3> QED BY <3>1 DEF List!Next
  <2>5. CASE Stop!Refuse(c)
    <3>1. List!Refuse(c)
      BY <2>5 DEF Stop!Refuse, List!Refuse, Stop!Answer, List!Answer
    <3> QED BY <3>1 DEF List!Next
  <2> QED BY <1>6, <2>1, <2>2, <2>3, <2>4, <2>5 DEF Administrate
<1>7. CASE LookUp \/ DropAsFraud \/ Tick \/ UNCHANGED vars
  BY <1>7 DEF LookUp, DropAsFraud, Tick, vars, stopVars, List!vars
<1> QED BY <1>2, <1>3, <1>4, <1>5, <1>6, <1>7 DEF Next

(* The process starts with the filter of the stop list as it is alone. *)
LEMMA ListInit == Init => List!Init
BY DEF Init, Stop!Init, List!Init, Stop!CleanWords, List!CleanWords, Stop!NoRequest,
       List!NoRequest, Stop!NoCheck, List!NoCheck, Stop!AnyQuery, List!AnyQuery,
       Stop!Queries, List!Queries

(* The consumer starts with nothing in hand. *)
LEMMA HandInit == Init => HandInv
<1> SUFFICES ASSUME Init PROVE HandInv
  OBVIOUS
<1>1. Free(calls) /\ DOMAIN calls = {Consumer}
  BY DEF Init, Free, Fraud!Idle
<1>2. Free(checks)
  BY DEF Init, Stop!Init, Stop!NoCheck, Free
<1>3. clock \in StartClock .. MaxClock
  BY PipelineAssumption DEF Init, Ring!ClockAssumption
<1> QED BY <1>1, <1>2, <1>3 DEF Init, HandInv

(* A new event is the last one; a decision changes the fate of the last.   *)
LEMMA Appended ==
  ASSUME NEW S, NEW seq \in Seq(S), NEW e \in S
  PROVE  LET longer == Append(seq, e)
         IN  longer \in Seq(S) /\ longer # <<>> /\ longer[Len(longer)] = e
OBVIOUS

(* Deciding about the event in hand keeps the type of the events. *)
LEMMA DecidedType ==
  ASSUME HandInv, events # <<>>, NEW fate \in {"fraud", "counted", "banned"}, Decided(fate)
  PROVE  events' \in Seq(Event)
<1>1. events \in Seq(Event) /\ Len(events) \in DOMAIN events /\ InHand \in Event
  BY DEF HandInv, InHand
<1>2. [InHand EXCEPT !.fate = fate] \in Event
  BY <1>1 DEF Event
<1>3. events' = [events EXCEPT ![Len(events)] = [InHand EXCEPT !.fate = fate]]
  BY DEF Decided, InHand
<1> QED BY <1>1, <1>2, <1>3

(* The filters hold the event the consumer has in hand, one at a time. *)
LEMMA HandStep ==
  ASSUME HandInv, List!TypeOK, [Next]_vars
  PROVE  HandInv'
<1>1. /\ MaxClock \in Nat /\ StartClock \in Nat /\ MaxLate \in Nat /\ MaxSkew \in Nat
      /\ clock \in Nat
  BY PipelineAssumption DEF Ring!ClockAssumption, HandInv
<1>2. checks \in [{Consumer} -> [at : {"idle", "asked", "searching", "answered"},
                                query : Queries, machine : SUBSET Words, verdict : BOOLEAN]]
  BY DEF List!TypeOK, List!Queries, Queries
<1>3. events # <<>> => Len(events) \in DOMAIN events /\ InHand \in Event
  BY DEF HandInv, InHand
<1>4. ASSUME NEW query \in Queries, NEW ip \in IPs \cup {EmptyIP},
             NEW timestamp \in clock - MaxLate .. clock + MaxSkew, Receive(query, ip, timestamp)
      PROVE  HandInv'
  <2> DEFINE e == [query |-> query, ip |-> ip, timestamp |-> timestamp, fate |-> "in hand"]
  <2>1. e \in Event
    BY <1>1 DEF Event
  <2>2. events' \in Seq(Event) /\ events' # <<>> /\ InHand' = e
    <3>1. events' = Append(events, e)
      BY <1>4 DEF Receive
    <3> HIDE DEF e
    <3> QED BY <2>1, <3>1, Appended DEF HandInv, InHand
  <2>3. clock' = clock
    BY <1>4 DEF Receive, Fraud!CheckEmpty, Fraud!ReadClock, Fraud!Arrive
  <2>4. CASE Fraud!CheckEmpty(Consumer) /\ Stop!BeginCheck(Consumer, query)
    <3>1. calls' = calls /\ checks'[Consumer].query = query
      BY <1>2, <2>4 DEF Fraud!CheckEmpty, Stop!BeginCheck
    <3>2. Free(calls)
      BY <1>4 DEF Receive, Free
    <3> QED BY <2>2, <2>3, <3>1, <3>2 DEF HandInv, EventInHand, Free
  <2>5. CASE Fraud!ReadClock(Consumer, Key(ip)) /\ UNCHANGED stopVars
    <3>1. checks' = checks /\ DOMAIN calls' = {Consumer} /\ Free(checks)
      BY <1>4, <2>5 DEF HandInv, Fraud!ReadClock, stopVars, Receive, Free
    <3> QED BY <2>2, <2>3, <3>1 DEF HandInv, EventInHand, Free
  <2> QED BY <1>4, <2>4, <2>5 DEF Receive
<1>5. CASE LookUp
  <2>1. UNCHANGED <<clock, events, checks>> /\ DOMAIN calls' = {Consumer} /\ ~Free(calls)
    BY <1>5 DEF LookUp, Fraud!Get, stopVars, HandInv, Free
  <2> QED BY <2>1 DEF HandInv, EventInHand, InHand, Free
<1>6. CASE DropAsFraud
  <2>1. /\ UNCHANGED <<clock, checks>> /\ DOMAIN calls' = {Consumer}
        /\ ~Free(calls) /\ calls'[Consumer].at = "idle"
    BY <1>6 DEF DropAsFraud, Fraud!Count, Fraud!Return, Fraud!Idle, stopVars, HandInv, Free
  <2>2. events' \in Seq(Event)
    BY <1>6, <2>1, DecidedType DEF DropAsFraud, HandInv, EventInHand
  <2> QED BY <2>1, <2>2 DEF HandInv, Free
<1>7. CASE LetPass
  <2>1. /\ UNCHANGED <<clock, events>> /\ DOMAIN calls' = {Consumer}
        /\ ~Free(calls) /\ calls'[Consumer].at = "idle"
    BY <1>7 DEF LetPass, Fraud!AddCounter, Fraud!Count, Fraud!Return, Fraud!Idle, HandInv, Free
  <2>2. checks'[Consumer].query = InHand.query
    BY <1>2, <1>7 DEF LetPass, Stop!BeginCheck
  <2> QED BY <2>1, <2>2 DEF HandInv, EventInHand, InHand, Free
<1>8. CASE SearchQuery
  <2>1. /\ UNCHANGED <<clock, events, calls>> /\ ~Free(checks)
        /\ checks'[Consumer].query = checks[Consumer].query
    BY <1>2, <1>8 DEF SearchQuery, Stop!ReadMachine, Stop!Search, fraudVars, Free
  <2> QED BY <2>1 DEF HandInv, EventInHand, InHand, Free
<1>9. CASE JudgeQuery
  <2>1. /\ UNCHANGED <<clock, calls>> /\ ~Free(checks) /\ checks'[Consumer].at = "idle"
    BY <1>2, <1>9 DEF JudgeQuery, Stop!EndCheck, Ring!AddQuery, fraudVars, Free
  <2>2. events' \in Seq(Event)
    <3>1. Decided("counted") \/ Decided("banned")
      BY <1>9 DEF JudgeQuery
    <3> QED BY <2>1, <3>1, DecidedType DEF HandInv, EventInHand
  <2> QED BY <2>1, <2>2 DEF HandInv, Free
<1>10. ASSUME NEW c \in Clients, Administrate(c) PROVE HandInv'
  <2>1. UNCHANGED <<clock, events, calls, checks>>
    BY <1>10 DEF Administrate, Stop!Call, Stop!Refuse, Stop!Add, Stop!Delete, Stop!Return,
                 fraudVars
  <2> QED BY <2>1 DEF HandInv, EventInHand, InHand, Free
<1>11. CASE Tick
  <2>1. /\ UNCHANGED <<events, calls, checks>> /\ clock' = clock + 1 /\ clock < MaxClock
    BY <1>11 DEF Tick, Ring!ClockTick, fraudVars, stopVars
  <2>2. EventInHand => clock < InHand.timestamp + MaxLate
    BY <1>3, <1>11 DEF Tick, Having, EventInHand, InHand
  <2>3. EventInHand => EventInHand'
    <3>1. InHand' = InHand /\ Free(checks)' = Free(checks)
      BY <2>1 DEF InHand, Free
    <3>2. ASSUME NEW t \in clock - MaxLate .. clock + MaxSkew, clock < t + MaxLate
          PROVE  t \in clock' - MaxLate .. clock' + MaxSkew
      BY <1>1, <2>1, <3>2
    <3> QED BY <2>1, <2>2, <3>1, <3>2 DEF EventInHand
  <2> QED BY <1>1, <2>1, <2>3 DEF HandInv, Free
<1>12. CASE UNCHANGED vars
  BY <1>12 DEF vars, fraudVars, stopVars, HandInv, EventInHand, InHand, Free
<1> QED BY <1>4, <1>5, <1>6, <1>7, <1>8, <1>9, <1>10, <1>11, <1>12 DEF Next

(* Both hold together. *)
LEMMA HandInvariant == Spec => [](HandInv /\ List!TypeOK)
<1>1. Init => HandInv /\ List!TypeOK
  BY ListInit, HandInit, ListAssumption, List!TypeInit
<1>2. HandInv /\ List!TypeOK /\ [Next]_vars => (HandInv /\ List!TypeOK)'
  BY ListStep, HandStep, ListAssumption, List!TypeStep
<1> QED BY <1>1, <1>2, PTL DEF Spec

(* The stop list of the pipeline behaves like the stop list alone: every   *)
(* behaviour of the pipeline is one of StopList, so that all that is       *)
(* proved of it holds here.                                                *)
THEOREM ImplementsStopList == Spec => List!Spec
<1>1. HandInv /\ List!TypeOK /\ [Next]_vars => [List!Next]_(List!vars)
  BY ListStep
<1> QED BY <1>1, ListInit, HandInvariant, PTL DEF Spec, List!Spec

(* In particular what administrators are told. *)
LEMMA Promises == ~BuildMayFail => (Spec => []List!PromiseInv)
<1> SUFFICES ASSUME ~BuildMayFail PROVE Spec => []List!PromiseInv
  OBVIOUS
<1>1. List!Spec => []List!PromiseInv
  BY ListAssumption, List!PromiseInvariant
<1> QED BY <1>1, ImplementsStopList, PTL

-----------------------------------------------------------------------------
(* The ring inside the pipeline.                                           *)

(* A stamp is the start of a slice of the bucket's slot, or still 0, and   *)
(* ahead of the clock by no more than MaxSkew.                             *)
Stamped(i, s) ==
  /\ buckets[i].expiresAt = s * Ring!BucketSec
  /\ s = 0 \/ s % Ring!NumBuckets = i

StampsOK ==
  /\ buckets \in [Ring!Slots -> [expiresAt : Nat, counters : [Queries -> Nat]]]
  /\ \A i \in Ring!Slots : /\ \E s \in Nat : Stamped(i, s)
                           /\ buckets[i].expiresAt <= clock + MaxSkew

(* The numbers of the configuration. *)
LEMMA Numbers ==
  /\ Ring!NumBuckets \in Nat \ {0} /\ Ring!BucketSec \in Nat \ {0}
  /\ MaxClock \in Nat /\ StartClock \in Nat /\ MaxLate \in Nat /\ MaxSkew \in Nat
  /\ StartClock - MaxLate \in Nat
<1>1. Ring!NumBuckets \in Nat \ {0}
  BY PipelineAssumption, Z3 DEF Ring!ConfigAssumption, Ring!NumBuckets
<1>2. Ring!BucketSec \in Nat \ {0}
  BY PipelineAssumption, Z3 DEF Ring!ConfigAssumption, Ring!BucketSec
<1> QED BY <1>1, <1>2, PipelineAssumption DEF Ring!ClockAssumption

(* The slice, stamp and slot of a timestamp. *)
LEMMA SliceOfTimestamp ==
  ASSUME NEW ts \in Nat
  PROVE  /\ Ring!SliceOf(ts) \in Nat
         /\ Ring!StampOf(ts) \in Nat
         /\ Ring!StampOf(ts) <= ts
         /\ ts < Ring!StampOf(ts) + Ring!BucketSec
         /\ Ring!SlotOf(ts) \in Ring!Slots
<1>1. /\ Ring!SliceOf(ts) \in Nat
      /\ Ring!SliceOf(ts) * Ring!BucketSec <= ts
      /\ ts < Ring!SliceOf(ts) * Ring!BucketSec + Ring!BucketSec
  BY Numbers, DivBounds DEF Ring!SliceOf
<1>2. Ring!StampOf(ts) \in Nat
  BY <1>1, Numbers, MulOrder DEF Ring!StampOf
<1>3. \A s \in Nat : s % Ring!NumBuckets \in Ring!Slots
  BY Numbers, Z3 DEF Ring!Slots
<1> QED BY <1>1, <1>2, <1>3 DEF Ring!StampOf, Ring!SlotOf

(* Under OnTime an event never meets a bucket stamped with a later slice.  *)
LEMMA NeverTooLate ==
  ASSUME Ring!OnTime, StampsOK, clock \in StartClock .. MaxClock,
         NEW ts \in clock - MaxLate .. clock + MaxSkew
  PROVE  buckets[Ring!SlotOf(ts)].expiresAt <= Ring!StampOf(ts)
<1> DEFINE B == Ring!BucketSec
           N == Ring!NumBuckets
           s == Ring!SliceOf(ts)
           i == Ring!SlotOf(ts)
<1>1. /\ N \in Nat \ {0} /\ B \in Nat \ {0} /\ MaxLate \in Nat /\ MaxSkew \in Nat
      /\ clock \in Nat /\ ts \in Nat
  BY Numbers
<1>2. /\ s \in Nat /\ i \in Ring!Slots /\ i = s % N
      /\ Ring!StampOf(ts) = s * B
      /\ ts < s * B + B
  BY <1>1, SliceOfTimestamp DEF Ring!SlotOf, Ring!StampOf
<1>3. PICK t \in Nat : Stamped(i, t)
  BY <1>2 DEF StampsOK
<1>4. buckets[i].expiresAt = t * B /\ t * B <= clock + MaxSkew
  BY <1>2, <1>3 DEF StampsOK, Stamped
<1>5. t = 0 \/ t % N = s % N
  BY <1>2, <1>3 DEF Stamped
<1>6. MaxLate + MaxSkew <= (N - 1) * B
  BY DEF Ring!OnTime
<1> HIDE DEF B, N, s, i
<1>7. (N - 1) * B = N * B - B /\ s * B \in Nat /\ t * B \in Nat /\ N * B \in Nat
  BY <1>1, <1>2, Z3
<1>8. SUFFICES ASSUME s * B < t * B PROVE FALSE
  BY <1>2, <1>4, <1>7 DEF i, s, B
<1>9. s < t
  BY <1>1, <1>2, <1>8, MulOrder
<1>10. s * B + N * B <= t * B
  <2>1. s % N = t % N
    BY <1>2, <1>5, <1>9
  <2> QED BY <1>1, <1>2, <1>9, <2>1, SameSlotStamps
<1>11. clock - MaxLate <= ts
  BY <1>1
<1> QED BY <1>1, <1>2, <1>4, <1>6, <1>7, <1>10, <1>11

-----------------------------------------------------------------------------
(* What a ban means for the event in hand and for the ring.                *)

(* The word was answered for after the event, so it may still be counted.  *)
Excused(ts, w) == ts <= answeredAt[w] + MaxSkew

(* A verdict that is not given yet will be against a banned query, unless  *)
(* the ban came after the automaton was copied; and so is one that is.     *)
VerdictOK ==
  \A w \in assured :
     \/ Excused(InHand.timestamp, w)
     \/ /\ checks[Consumer].at = "searching" => w \in checks[Consumer].machine
        /\ checks[Consumer].at = "answered" /\ w \in Contains[checks[Consumer].query]
           => ~checks[Consumer].verdict

BanInv ==
  /\ answeredAt \in [Words -> Nat]
  /\ StampsOK
  /\ Free(checks) \/ VerdictOK
  /\ BanReachesRing

(* The event in hand. *)
LEMMA HeldEvent ==
  ASSUME HandInv, EventInHand
  PROVE  /\ InHand \in Event
         /\ InHand.timestamp \in Nat
         /\ InHand.timestamp <= clock + MaxSkew
<1>1. events \in Seq(Event) /\ events # <<>>
  BY DEF HandInv, EventInHand
<1>2. InHand \in Event
  BY <1>1 DEF InHand
<1>3. InHand.timestamp \in clock - MaxLate .. clock + MaxSkew
  BY DEF EventInHand
<1>4. \A t \in clock - MaxLate .. clock + MaxSkew : t \in Nat /\ t <= clock + MaxSkew
  BY Numbers DEF HandInv
<1> QED BY <1>2, <1>3, <1>4

(* At the start nothing is counted. *)
LEMMA BanInit == Init => BanInv
<1> SUFFICES ASSUME Init PROVE BanInv
  OBVIOUS
<1>1. Free(checks) /\ assured = {}
  BY DEF Init, Stop!Init, Stop!NoCheck, Free
<1>2. StampsOK
  <2>1. buckets = [i \in Ring!Slots |-> [expiresAt |-> 0, counters |-> [q \in Queries |-> 0]]]
    BY DEF Init, Ring!NoCounts
  <2>2. \A i \in Ring!Slots : Stamped(i, 0)
    BY <2>1, Numbers DEF Stamped
  <2> QED BY <2>1, <2>2, Numbers DEF StampsOK, Init
<1>3. answeredAt \in [Words -> Nat]
  BY DEF Init
<1> QED BY <1>1, <1>2, <1>3 DEF BanInv, BanReachesRing

(* Steps that leave the ring, the answers and the event alone.             *)
LEMMA CheckKeepsBans ==
  ASSUME BanInv, HandInv, List!PromiseInv, SearchQuery
  PROVE  BanInv'
<1>1. /\ UNCHANGED <<clock, events, answeredAt, buckets, assured>>
      /\ checks[Consumer].at \in {"asked", "searching"}
  BY DEF SearchQuery, ringVars, Stop!ReadMachine, Stop!Search
<1>2. /\ assured \subseteq machine
      /\ checks \in [{Consumer} -> [at : {"idle", "asked", "searching", "answered"},
                                   query : Queries, machine : SUBSET Words, verdict : BOOLEAN]]
  BY DEF List!PromiseInv, List!PromisesKept, List!MachineCurrent, List!TypeOK, List!Queries,
         Queries
<1>3. VerdictOK'
  <2> SUFFICES ASSUME NEW w \in assured, ~Excused(InHand.timestamp, w)
               PROVE  /\ checks'[Consumer].at = "searching" => w \in checks'[Consumer].machine
                      /\ /\ checks'[Consumer].at = "answered"
                         /\ w \in Contains[checks'[Consumer].query]
                         => ~checks'[Consumer].verdict
    BY <1>1 DEF VerdictOK, Excused, InHand
  <2>1. CASE Stop!ReadMachine(Consumer)
    BY <1>2, <2>1 DEF Stop!ReadMachine
  <2>2. CASE Stop!Search(Consumer)
    <3>1. w \in checks[Consumer].machine
      BY <2>2 DEF BanInv, VerdictOK, Free, Stop!Search
    <3> QED BY <1>2, <2>2, <3>1 DEF Stop!Search, Stop!Passes
  <2> QED BY <2>1, <2>2 DEF SearchQuery
<1>4. StampsOK' /\ BanReachesRing'
  BY <1>1 DEF BanInv, StampsOK, Stamped, BanReachesRing
<1> QED BY <1>1, <1>3, <1>4 DEF BanInv

(* An administrator's step: a word that is assured now excuses every event *)
(* so far.                                                                 *)
LEMMA AdministrateKeepsBans ==
  ASSUME BanInv, HandInv, List!TypeOK', NEW c \in Clients, Administrate(c)
  PROVE  BanInv'
<1>1. UNCHANGED <<clock, events, buckets, checks>>
  BY DEF Administrate, ringVars, Stop!Call, Stop!Refuse, Stop!Add, Stop!Delete, Stop!Return
<1>2. answeredAt' = [w \in Words |-> IF w \in assured' \ assured THEN clock ELSE answeredAt[w]]
  BY DEF Administrate
<1>3. assured' \subseteq Words /\ clock \in Nat /\ MaxSkew \in Nat
  BY Numbers DEF List!TypeOK, HandInv
<1>4. \A w \in assured' : \/ w \in assured /\ answeredAt'[w] = answeredAt[w]
                         \/ answeredAt'[w] = clock
  BY <1>2, <1>3
<1>5. Free(checks)' \/ VerdictOK'
  <2> SUFFICES ASSUME ~Free(checks) PROVE VerdictOK'
    BY <1>1 DEF Free
  <2>1. VerdictOK /\ InHand.timestamp <= clock + MaxSkew
    BY HeldEvent DEF BanInv, HandInv
  <2> QED BY <1>1, <1>4, <2>1 DEF VerdictOK, Excused, InHand
<1>6. BanReachesRing'
  BY <1>1, <1>4 DEF BanInv, BanReachesRing, StampsOK
<1>7. StampsOK' /\ answeredAt' \in [Words -> Nat]
  BY <1>1, <1>2, <1>3 DEF BanInv, StampsOK, Stamped
<1> QED BY <1>5, <1>6, <1>7 DEF BanInv

(* What Add does to a bucket that is not stamped later.                    *)
LEMMA AddEffect ==
  ASSUME StampsOK, NEW q \in Queries, NEW ts \in Nat, Ring!AddQuery(q, ts),
         buckets[Ring!SlotOf(ts)].expiresAt <= Ring!StampOf(ts)
  PROVE  /\ buckets' \in [Ring!Slots -> [expiresAt : Nat, counters : [Queries -> Nat]]]
         /\ buckets'[Ring!SlotOf(ts)].expiresAt = Ring!StampOf(ts)
         /\ \A x \in Queries \ {q} :
               buckets'[Ring!SlotOf(ts)].counters[x] > 0 =>
                 /\ buckets[Ring!SlotOf(ts)].counters[x] > 0
                 /\ buckets[Ring!SlotOf(ts)].expiresAt = Ring!StampOf(ts)
         /\ \A i \in Ring!Slots \ {Ring!SlotOf(ts)} : buckets'[i] = buckets[i]
<1> DEFINE i == Ring!SlotOf(ts)
           stamp == Ring!StampOf(ts)
           old == buckets[i]
           b == Ring!Rolled(old, stamp)
           new == [b EXCEPT !.counters[q] = @ + 1]
<1>1. i \in Ring!Slots /\ stamp \in Nat
  BY SliceOfTimestamp
<1>2. old \in [expiresAt : Nat, counters : [Queries -> Nat]]
  BY <1>1 DEF StampsOK
<1>3. /\ b \in [expiresAt : Nat, counters : [Queries -> Nat]]
      /\ b.expiresAt = stamp
      /\ \A x \in Queries : b.counters[x] > 0 => old.counters[x] > 0 /\ old.expiresAt = stamp
  <2> HIDE DEF i, stamp, old
  <2>1. CASE Ring!Outdated(old, stamp)
    BY <1>1, <2>1 DEF Ring!Rolled, Ring!NoCounts
  <2>2. CASE ~Ring!Outdated(old, stamp)
    <3>1. old.expiresAt = stamp
      BY <1>1, <1>2, <2>2 DEF Ring!Outdated, i, stamp, old
    <3> QED BY <1>2, <2>2, <3>1 DEF Ring!Rolled
  <2> QED BY <2>1, <2>2
<1>4. buckets' = [buckets EXCEPT ![i] = new]
  BY DEF Ring!AddQuery
<1>5. /\ new \in [expiresAt : Nat, counters : [Queries -> Nat]]
      /\ new.expiresAt = stamp
      /\ \A x \in Queries \ {q} : new.counters[x] = b.counters[x]
  <2> HIDE DEF b
  <2> QED BY <1>3
<1> HIDE DEF new, b
<1>6. buckets'[i] = new /\ \A j \in Ring!Slots \ {i} : buckets'[j] = buckets[j]
  BY <1>1, <1>4 DEF StampsOK
<1>7. buckets' \in [Ring!Slots -> [expiresAt : Nat, counters : [Queries -> Nat]]]
  BY <1>1, <1>4, <1>5 DEF StampsOK
<1> QED BY <1>3, <1>5, <1>6, <1>7

(* The verdict was for the event, so no ban forbids to count it.           *)
LEMMA JudgeKeepsBans ==
  ASSUME Ring!OnTime, BanInv, HandInv, List!TypeOK, JudgeQuery
  PROVE  BanInv'
<1> DEFINE q == InHand.query
           ts == InHand.timestamp
           i == Ring!SlotOf(ts)
<1>1. /\ checks[Consumer].at = "answered"
      /\ checks'[Consumer].at = "idle"
      /\ UNCHANGED <<clock, answeredAt, assured>>
  BY DEF JudgeQuery, Stop!EndCheck, Ring!AddQuery, List!TypeOK
<1>2. CASE Accepted(checks[Consumer].verdict)
  <2>1. Ring!AddQuery(q, ts) /\ checks[Consumer].verdict
    BY <1>2 DEF JudgeQuery, Accepted
  <2>2. EventInHand /\ VerdictOK
    BY <1>1 DEF HandInv, BanInv, Free
  <2>3. /\ q \in Queries /\ ts \in clock - MaxLate .. clock + MaxSkew /\ ts \in Nat
        /\ clock \in Nat /\ MaxSkew \in Nat
    <3>1. ts \in clock - MaxLate .. clock + MaxSkew
      BY <2>2 DEF EventInHand
    <3>2. q \in Queries
      BY <2>2, HeldEvent DEF Event
    <3> QED BY <2>2, <3>1, <3>2, HeldEvent, Numbers DEF HandInv
  <2>4. \A w \in assured : w \in Contains[q] => Excused(ts, w)
    BY <1>1, <2>1, <2>2 DEF VerdictOK, EventInHand, Free
  <2>5. StampsOK
    BY DEF BanInv
  <2> HIDE DEF q, ts
  <2>6. buckets[i].expiresAt <= Ring!StampOf(ts)
    BY <2>3, <2>5, NeverTooLate DEF HandInv
  <2>7. /\ i \in Ring!Slots /\ Ring!StampOf(ts) <= ts /\ Ring!StampOf(ts) \in Nat
        /\ Ring!SliceOf(ts) \in Nat
    BY <2>3, SliceOfTimestamp
  <2>8. /\ buckets' \in [Ring!Slots -> [expiresAt : Nat, counters : [Queries -> Nat]]]
        /\ buckets'[i].expiresAt = Ring!StampOf(ts)
        /\ \A x \in Queries \ {q} :
              buckets'[i].counters[x] > 0 => /\ buckets[i].counters[x] > 0
                                            /\ buckets[i].expiresAt = Ring!StampOf(ts)
        /\ \A j \in Ring!Slots \ {i} : buckets'[j] = buckets[j]
    BY <2>1, <2>3, <2>5, <2>6, AddEffect
  <2>9. PICK slice \in Nat : /\ buckets'[i].expiresAt = slice * Ring!BucketSec
                             /\ slice % Ring!NumBuckets = i
    BY <2>7, <2>8 DEF Ring!StampOf, Ring!SlotOf
  <2>10. StampsOK'
    <3>1. ASSUME NEW j \in Ring!Slots
          PROVE  (\E s \in Nat : Stamped(j, s)') /\ buckets'[j].expiresAt <= clock + MaxSkew
      <4>1. CASE j = i
        <5>1. Stamped(j, slice)'
          BY <2>9, <4>1 DEF Stamped
        <5> QED BY <2>3, <2>7, <2>8, <4>1, <5>1
      <4>2. CASE j # i
        BY <2>5, <2>8, <4>2 DEF StampsOK, Stamped
      <4> QED BY <4>1, <4>2
    <3> QED BY <1>1, <2>8, <3>1 DEF StampsOK
  <2>11. BanReachesRing'
    <3> SUFFICES ASSUME NEW j \in Ring!Slots, NEW x \in Queries, NEW w \in assured,
                        w \in Contains[x], buckets'[j].counters[x] > 0
                 PROVE  buckets'[j].expiresAt <= answeredAt[w] + MaxSkew
      BY <1>1 DEF BanReachesRing
    <3>1. CASE j # i
      BY <2>8, <3>1 DEF BanInv, BanReachesRing
    <3>2. CASE j = i /\ x # q
      BY <2>7, <2>8, <3>2 DEF BanInv, BanReachesRing
    <3>3. CASE j = i /\ x = q
      <4>1. answeredAt[w] \in Nat
        BY DEF BanInv, List!TypeOK
      <4>2. ts <= answeredAt[w] + MaxSkew
        BY <2>4, <3>3 DEF Excused
      <4> QED BY <2>3, <2>7, <2>8, <3>3, <4>1, <4>2
    <3> QED BY <3>1, <3>2, <3>3
  <2> QED BY <1>1, <2>10, <2>11 DEF BanInv, Free
<1>3. CASE ~Accepted(checks[Consumer].verdict)
  <2>1. UNCHANGED buckets
    BY <1>3 DEF JudgeQuery, ringVars
  <2> QED BY <1>1, <2>1 DEF BanInv, StampsOK, Stamped, BanReachesRing, Free
<1> QED BY <1>2, <1>3

(* The other steps leave no check with a verdict or an automaton.          *)
LEMMA OtherKeepsBans ==
  ASSUME BanInv, HandInv, List!TypeOK, UNCHANGED <<answeredAt, buckets, assured>>,
         clock' \in {clock, clock + 1},
         \/ UNCHANGED <<events, checks>>
         \/ checks'[Consumer].at \in {"idle", "asked"}
  PROVE  BanInv'
<1>1. clock \in Nat /\ clock' \in Nat /\ clock <= clock' /\ MaxSkew \in Nat
  BY Numbers DEF HandInv
<1>2. StampsOK'
  <2>1. \A i \in Ring!Slots : buckets[i].expiresAt \in Nat
    BY DEF BanInv, StampsOK
  <2> QED BY <1>1, <2>1 DEF BanInv, StampsOK, Stamped
<1>3. Free(checks)' \/ VerdictOK'
  BY DEF BanInv, VerdictOK, Excused, InHand, Free
<1> QED BY <1>2, <1>3 DEF BanInv, BanReachesRing

(* Every step keeps what a ban means. *)
LEMMA BanStep ==
  ASSUME Ring!OnTime, BanInv, HandInv, List!PromiseInv, List!TypeOK', [Next]_vars
  PROVE  BanInv'
<1>1. /\ List!TypeOK
      /\ checks \in [{Consumer} -> [at : {"idle", "asked", "searching", "answered"},
                                   query : Queries, machine : SUBSET Words, verdict : BOOLEAN]]
  BY DEF List!PromiseInv, List!TypeOK, List!Queries, Queries
<1>2. ASSUME NEW query \in Queries, NEW ip \in IPs \cup {EmptyIP},
             NEW timestamp \in clock - MaxLate .. clock + MaxSkew, Receive(query, ip, timestamp)
      PROVE  BanInv'
  <2>1. /\ UNCHANGED <<clock, answeredAt, buckets, assured>>
        /\ checks'[Consumer].at \in {"idle", "asked"}
    BY <1>1, <1>2 DEF Receive, ringVars, stopVars, Fraud!CheckEmpty, Fraud!ReadClock,
                      Fraud!Arrive, Stop!BeginCheck
  <2> QED BY <1>1, <2>1, OtherKeepsBans
<1>3. CASE LookUp
  <2>1. UNCHANGED <<clock, events, answeredAt, buckets, assured, checks>>
    BY <1>3 DEF LookUp, ringVars, stopVars, Fraud!Get
  <2> QED BY <1>1, <2>1, OtherKeepsBans
<1>4. CASE DropAsFraud
  <2>1. UNCHANGED <<clock, answeredAt, buckets, assured, checks>> /\ Free(checks)
    BY <1>4 DEF DropAsFraud, ringVars, stopVars, Fraud!Count, HandInv, Free
  <2> QED BY <1>1, <2>1, OtherKeepsBans DEF Free
<1>5. CASE LetPass
  <2>1. /\ UNCHANGED <<clock, answeredAt, buckets, assured>>
        /\ checks'[Consumer].at = "asked"
    BY <1>1, <1>5 DEF LetPass, ringVars, Fraud!AddCounter, Fraud!Count, Stop!BeginCheck
  <2> QED BY <1>1, <2>1, OtherKeepsBans
<1>6. CASE SearchQuery
  BY <1>6, CheckKeepsBans
<1>7. CASE JudgeQuery
  BY <1>1, <1>7, JudgeKeepsBans
<1>8. ASSUME NEW c \in Clients, Administrate(c) PROVE BanInv'
  BY <1>8, AdministrateKeepsBans
<1>9. CASE Tick
  <2>1. UNCHANGED <<events, answeredAt, buckets, assured, checks>> /\ clock' = clock + 1
    BY <1>9 DEF Tick, Ring!ClockTick, stopVars
  <2> QED BY <1>1, <2>1, OtherKeepsBans
<1>10. CASE UNCHANGED vars
  <2>1. UNCHANGED <<clock, events, answeredAt, buckets, assured, checks>>
    BY <1>10 DEF vars, ringVars, stopVars
  <2> QED BY <1>1, <2>1, OtherKeepsBans
<1> QED BY <1>2, <1>3, <1>4, <1>5, <1>6, <1>7, <1>8, <1>9, <1>10 DEF Next

(* A ban reaches the top list: if no build of an automaton fails, and for  *)
(* every delay and skew the ring absorbs, no slice that begins more than   *)
(* MaxSkew after the ban was answered counts the banned query, although    *)
(* Check, Add and the administrators interleave in any way and a verdict   *)
(* may be old when it is acted upon.                                       *)
THEOREM BansReachRing == Ring!OnTime /\ ~BuildMayFail => (Spec => []BanReachesRing)
<1> SUFFICES ASSUME Ring!OnTime, ~BuildMayFail PROVE Spec => []BanReachesRing
  OBVIOUS
<1>1. BanInv /\ HandInv /\ List!PromiseInv /\ List!TypeOK' /\ [Next]_vars => BanInv'
  BY BanStep
<1>2. BanInv => BanReachesRing
  BY DEF BanInv
<1> QED BY <1>1, <1>2, BanInit, HandInvariant, Promises, PTL DEF Spec

-----------------------------------------------------------------------------
(* The anti-fraud filter inside the pipeline keeps what AntiFraudBounds    *)
(* proves of it with one consumer.                                         *)

Filter == INSTANCE AntiFraudBounds WITH
  Workers <- {Consumer}, MaxChecks <- MaxEvents, checks <- Len(events)

(* Constants of one are constants of the other. *)
LEMMA FilterAssumption ==
  /\ Filter!ConfigAssumption /\ Filter!BoundsAssumption
  /\ Limit \in Nat \ {0} /\ TTL \in Nat \ {0} /\ EmptyIP \notin IPs
BY PipelineAssumption DEF Fraud!ConfigAssumption, Filter!ConfigAssumption,
       Fraud!BoundsAssumption, Filter!BoundsAssumption

(* The counting of an event is the filter's. *)
LEMMA FilterCount == Fraud!Count(Consumer) => Filter!Count(Consumer)
BY DEF Fraud!Count, Filter!Count, Fraud!Counted, Filter!Counted, Fraud!Expired,
       Filter!Expired, Fraud!OverLimit, Filter!OverLimit, Fraud!LetPass, Filter!LetPass,
       Fraud!Return, Filter!Return, Fraud!Idle, Filter!Idle, Fraud!NoRef, Filter!NoRef

(* What happens to the filter in a step of the pipeline is a step of the   *)
(* filter; the decision about an event leaves the number of events.        *)
LEMMA FilterStep ==
  ASSUME HandInv, [Next]_vars
  PROVE  [Filter!Next]_(Filter!vars)
<1>1. ASSUME NEW query \in Queries, NEW ip \in IPs \cup {EmptyIP},
             NEW timestamp \in clock - MaxLate .. clock + MaxSkew, Receive(query, ip, timestamp)
      PROVE  Filter!Next
  <2>1. CASE ip = EmptyIP
    <3>1. Fraud!CheckEmpty(Consumer)
      BY <1>1, <2>1 DEF Receive, Key
    <3>2. Filter!CheckEmpty(Consumer)
      BY <3>1 DEF Fraud!CheckEmpty, Filter!CheckEmpty, Fraud!Arrive, Filter!Arrive
    <3> QED BY <3>2 DEF Filter!Next
  <2>2. CASE ip # EmptyIP
    <3>1. Fraud!ReadClock(Consumer, ip) /\ ip \in IPs
      BY <1>1, <2>2 DEF Receive, Key
    <3>2. Filter!ReadClock(Consumer, ip)
      BY <3>1 DEF Fraud!ReadClock, Filter!ReadClock, Fraud!Arrive, Filter!Arrive,
                  Fraud!NoRef, Filter!NoRef
    <3> QED BY <3>1, <3>2 DEF Filter!Next
  <2> QED BY <2>1, <2>2
<1>2. CASE LookUp
  <2>1. Filter!Get(Consumer)
    BY <1>2 DEF LookUp, Fraud!Get, Filter!Get, Fraud!CacheGet, Filter!CacheGet, Fraud!Used,
                Filter!Used, Fraud!Cached, Filter!Cached, Fraud!NoRef, Filter!NoRef
  <2> QED BY <2>1 DEF Filter!Next
<1>3. ASSUME Fraud!AddCounter(Consumer) PROVE Filter!Next
  <2>1. Filter!AddCounter(Consumer)
    <3>1. \A S : Fraud!Cardinality(S) = Filter!Cardinality(S)
      BY Zenon DEF Fraud!Cardinality, Filter!Cardinality
    <3>2. \A ip : Fraud!Surplus(ip) = Filter!Surplus(ip)
      BY <3>1 DEF Fraud!Surplus, Filter!Surplus, Fraud!Cached, Filter!Cached,
                  Fraud!NoRef, Filter!NoRef
    <3> QED BY <1>3, <3>2 DEF Fraud!AddCounter, Filter!AddCounter, Fraud!CacheAdd, Filter!CacheAdd,
                       Fraud!Used, Filter!Used, Fraud!Cached, Filter!Cached, Fraud!NoRef,
                       Filter!NoRef, Fraud!LetPass, Filter!LetPass, Fraud!Return, Filter!Return,
                       Fraud!Idle, Filter!Idle
  <2> QED BY <2>1 DEF Filter!Next
<1>4. ASSUME Fraud!Count(Consumer) PROVE Filter!Next
  BY <1>4, FilterCount DEF Filter!Next
<1>5. CASE DropAsFraud \/ LetPass
  BY <1>3, <1>4, <1>5 DEF DropAsFraud, LetPass
<1>6. CASE Tick
  <2>1. Filter!ClockTick
    BY <1>6 DEF Tick, Ring!ClockTick, Filter!ClockTick, fraudVars
  <2> QED BY <2>1 DEF Filter!Next
<1>7. CASE JudgeQuery
  <2>1. Len(events') = Len(events)
    BY <1>7 DEF JudgeQuery, Decided, HandInv
  <2>2. UNCHANGED <<clock, fraudVars>>
    BY <1>7 DEF JudgeQuery, Ring!AddQuery
  <2> QED BY <2>1, <2>2 DEF fraudVars, Filter!vars
<1>8. CASE SearchQuery \/ UNCHANGED vars \/ \E c \in Clients : Administrate(c)
  BY <1>8 DEF SearchQuery, Administrate, vars, fraudVars, Filter!vars
<1> QED BY <1>1, <1>2, <1>5, <1>6, <1>7, <1>8 DEF Next

(* The filter starts unused, at whatever time of day the service starts.   *)
LEMMA FilterInit == Init => Filter!Unused
<1> SUFFICES ASSUME Init PROVE Filter!Unused
  OBVIOUS
<1>1. clock \in Filter!Times
  BY PipelineAssumption DEF Init, Ring!ClockAssumption, Filter!Times
<1>2. Len(events) = 0
  BY DEF Init
<1> QED BY <1>1, <1>2 DEF Init, Filter!Unused, Fraud!NoRef, Filter!NoRef, Fraud!Idle,
           Filter!Idle, Filter!Addresses, Fraud!Times, Filter!Times

(* What AntiFraudBounds proves of one consumer holds in the pipeline. *)
LEMMA FilterInvariant == Spec => [](HandInv /\ List!TypeOK /\ Filter!OneConsumer(Consumer))
<1>1. Init => Filter!OneConsumer(Consumer)
  BY FilterInit, FilterAssumption, Filter!OneConsumerInit
<1>2. HandInv /\ Filter!OneConsumer(Consumer) /\ [Next]_vars => Filter!OneConsumer(Consumer)'
  BY FilterStep, FilterAssumption, Filter!OneConsumerStep
<1> QED BY <1>1, <1>2, HandInvariant, PTL DEF Spec

(* Inside the pipeline, between a stop list, a ring and the clock they     *)
(* share, the anti-fraud filter implements the limiter.                    *)
THEOREM ImplementsRateLimiter == Spec => Filter!LimiterSpec
<1>1. Init => Filter!Limiter!Init
  BY FilterInit, FilterAssumption, Filter!LimiterBegins
<1>2. HandInv /\ Filter!OneConsumer(Consumer) /\ [Next]_vars
        => [Filter!Limiter!Next]_(Filter!Limiter!vars)
  BY FilterStep, FilterAssumption, Filter!LimiterBegins
<1> QED BY <1>1, <1>2, FilterInvariant, PTL DEF Spec, Filter!LimiterSpec, Filter!Limiter!Spec

-----------------------------------------------------------------------------
(* Events and passes.  An event is checked at the moment it is received,   *)
(* so what the filter let through in a stretch of its time and the events  *)
(* with timestamps in that stretch differ by lateness and skew.            *)

Final == {"fraud", "counted", "banned"}

(* The events the filter has let through. *)
LetThrough ==
  {j \in DOMAIN events : \/ events[j].fate \in {"counted", "banned"}
                         \/ events[j].fate = "in hand" /\ Free(calls)}

Through(ip, a, b) ==
  {j \in LetThrough : /\ events[j].ip = ip
                      /\ a <= events[j].timestamp /\ events[j].timestamp <= b}

SeenAsPassed ==
  \A ip \in IPs, a, b \in Int :
     /\ Cardinality(Through(ip, a, b)) <= Filter!PassedIn(ip, a - MaxSkew, b + MaxLate)
     /\ Filter!PassedIn(ip, a, b) <= Cardinality(Through(ip, a - MaxLate, b + MaxSkew))

(* Only the last event may be in hand; while the filter has it, its check  *)
(* goes by the moment it was received and by its own address.              *)
OneInHand ==
  /\ \A j \in DOMAIN events :
       events[j].fate \in Final \/ (j = Len(events) /\ ~(Free(calls) /\ Free(checks)))
  /\ ~Free(calls) => /\ calls[Consumer].ip = InHand.ip
                     /\ InHand.timestamp \in calls[Consumer].now - MaxLate
                                               .. calls[Consumer].now + MaxSkew

Near(i) ==
  {j \in 1 .. i - 1 : /\ events[j].ip = events[i].ip
                      /\ events[j].fate # "fraud"
                      /\ Apart(events[i], events[j]) <= TTL + MaxLate + MaxSkew}

JudgedInv == OneInHand /\ SeenAsPassed /\ HonestPasses

(* What is known in every state, for short. *)
Known == HandInv /\ List!TypeOK /\ Filter!OneConsumer(Consumer)

(* The counts are finite numbers. *)
LEMMA ThroughSizes ==
  ASSUME Known, NEW ip \in IPs, NEW a \in Int, NEW b \in Int
  PROVE  /\ IsFiniteSet(Through(ip, a, b))
         /\ Cardinality(Through(ip, a, b)) \in Nat
         /\ Filter!PassedIn(ip, a, b) \in Nat
<1>1. IsFiniteSet(DOMAIN events)
  <2>1. Len(events) \in Int /\ 1 \in Int /\ DOMAIN events = 1 .. Len(events)
    BY DEF Known, HandInv
  <2> QED BY <2>1, FS_Interval
<1>2. Through(ip, a, b) \subseteq DOMAIN events
  BY DEF Through, LetThrough
<1>3. Filter!TypeOK
  BY DEF Known, Filter!OneConsumer
<1>4. Filter!PassedIn(ip, a, b) \in Nat
  BY <1>3, FilterAssumption, Filter!SizesOf
<1> QED BY <1>1, <1>2, <1>4, FS_Subset, FS_CardinalityType

(* A step that lets nothing through. *)
LEMMA PassesKept ==
  ASSUME passes' = passes
  PROVE  \A x \in IPs : Filter!NoPass(x)
BY FilterAssumption, Filter!NothingCounted

(* Nothing let through and nothing read: the comparison stands. *)
LEMMA NothingSeen ==
  ASSUME SeenAsPassed, \A x \in IPs : Filter!NoPass(x),
         \A x \in IPs, a, b \in Int : Through(x, a, b)' = Through(x, a, b)
  PROVE  SeenAsPassed'
<1> SUFFICES ASSUME NEW ip \in IPs, NEW a \in Int, NEW b \in Int
             PROVE  /\ Cardinality(Through(ip, a, b)')
                         <= Filter!PassedIn(ip, a - MaxSkew, b + MaxLate)'
                    /\ Filter!PassedIn(ip, a, b)'
                         <= Cardinality(Through(ip, a - MaxLate, b + MaxSkew)')
  BY DEF SeenAsPassed
<1>1. ASSUME NEW c \in Int, NEW d \in Int
      PROVE  /\ Filter!PassedIn(ip, c, d)' = Filter!PassedIn(ip, c, d)
             /\ Through(ip, c, d)' = Through(ip, c, d)
  BY DEF Filter!NoPass
<1>2. PICK c1 \in Int, d1 \in Int : c1 = a - MaxSkew /\ d1 = b + MaxLate
  BY Numbers
<1>3. PICK c2 \in Int, d2 \in Int : c2 = a - MaxLate /\ d2 = b + MaxSkew
  BY Numbers
<1>4. /\ Cardinality(Through(ip, a, b)) <= Filter!PassedIn(ip, c1, d1)
      /\ Filter!PassedIn(ip, a, b) <= Cardinality(Through(ip, c2, d2))
  BY <1>2, <1>3 DEF SeenAsPassed
<1>5. Filter!PassedIn(ip, c1, d1)' = Filter!PassedIn(ip, a - MaxSkew, b + MaxLate)'
  BY <1>2
<1>6. Through(ip, c2, d2)' = Through(ip, a - MaxLate, b + MaxSkew)'
  BY <1>3
<1>7. /\ Filter!PassedIn(ip, c1, d1)' = Filter!PassedIn(ip, c1, d1)
      /\ Filter!PassedIn(ip, a, b)' = Filter!PassedIn(ip, a, b)
      /\ Through(ip, c2, d2)' = Through(ip, c2, d2)
      /\ Through(ip, a, b)' = Through(ip, a, b)
  BY <1>1
<1> QED BY <1>4, <1>5, <1>6, <1>7

(* The check of the event in hand: where and when it counts. *)
LEMMA HandChecked ==
  ASSUME Known, OneInHand, ~Free(calls)
  PROVE  /\ calls[Consumer].ip \in IPs /\ calls[Consumer].now \in Filter!Times
         /\ calls[Consumer].ip = InHand.ip
         /\ InHand.timestamp \in calls[Consumer].now - MaxLate .. calls[Consumer].now + MaxSkew
         /\ InHand.timestamp \in Int /\ calls[Consumer].now \in Nat
         /\ InHand = events[Len(events)] /\ Len(events) \in DOMAIN events
         /\ InHand.fate = "in hand"
         /\ events \in Seq(Event)
<1>1. EventInHand /\ events \in Seq(Event) /\ events # <<>>
  BY DEF Known, HandInv, EventInHand
<1>2. calls[Consumer] \in Filter!Call /\ calls[Consumer].ip \in IPs
  BY DEF Known, Filter!OneConsumer, Filter!TypeOK, Free
<1>3. calls[Consumer].now \in Filter!Times /\ calls[Consumer].now \in Nat
  BY <1>2 DEF Filter!Call, Filter!Times
<1>4. InHand \in Event /\ Len(events) \in DOMAIN events
  BY <1>1 DEF InHand
<1> QED BY <1>1, <1>2, <1>3, <1>4 DEF OneInHand, EventInHand, InHand, Event

(* An event let through is one more on both sides. *)
LEMMA PassSeen ==
  ASSUME Known, OneInHand, SeenAsPassed, LetPass
  PROVE  SeenAsPassed'
<1>1. ~Free(calls) /\ Free(calls)' /\ events' = events
  BY DEF LetPass, Fraud!AddCounter, Fraud!Count, Fraud!Return, Fraud!Idle, Free, Known, HandInv
<1>2. PICK me \in IPs, now \in Filter!Times, ts \in Int, last \in DOMAIN events :
        /\ me = calls[Consumer].ip /\ now = calls[Consumer].now
        /\ ts = InHand.timestamp /\ last = Len(events)
        /\ now \in Nat /\ ts \in now - MaxLate .. now + MaxSkew
        /\ events[last] = InHand
        /\ InHand.ip = me /\ InHand.timestamp = ts /\ InHand.fate = "in hand"
  BY <1>1, HandChecked
<1>3. passes' = [passes EXCEPT ![me][now] = @ + 1]
  BY <1>2 DEF LetPass, Fraud!AddCounter, Fraud!Count, Fraud!LetPass
<1>4. /\ Filter!PassAt(me, now)
      /\ \A x \in IPs \ {me} : Filter!NoPass(x)
  <2>1. Filter!TypeOK
    BY DEF Known, Filter!OneConsumer
  <2>2. me \in Filter!Addresses /\ IPs \subseteq Filter!Addresses
    BY DEF Filter!Addresses
  <2>3. /\ Filter!PassAt(me, now)
        /\ \A x \in Filter!Addresses \ {me} : Filter!NoPass(x)
    BY <1>3, <2>1, <2>2, FilterAssumption, Filter!PassCounted
  <2> QED BY <2>2, <2>3
<1>5. LetThrough' = LetThrough \cup {last} /\ last \notin LetThrough
  <2>1. \A j \in DOMAIN events : events[j].fate \in Final \/ j = last
    BY <1>2 DEF OneInHand
  <2> QED BY <1>1, <1>2, <2>1 DEF LetThrough, Final
<1>6. ASSUME NEW x \in IPs, NEW a \in Int, NEW b \in Int
      PROVE  Cardinality(Through(x, a, b)') =
               IF x = me /\ a <= ts /\ ts <= b THEN Cardinality(Through(x, a, b)) + 1
               ELSE Cardinality(Through(x, a, b))
  <2>1. Through(x, a, b)' = IF x = me /\ a <= ts /\ ts <= b THEN Through(x, a, b) \cup {last}
                            ELSE Through(x, a, b)
    BY <1>1, <1>2, <1>5 DEF Through
  <2>2. last \notin Through(x, a, b)
    BY <1>5 DEF Through
  <2>3. Cardinality(Through(x, a, b) \cup {last}) = Cardinality(Through(x, a, b)) + 1
    BY <2>2, ThroughSizes, FS_AddElement
  <2> QED BY <2>1, <2>3
<1>7. /\ MaxLate \in Nat /\ MaxSkew \in Nat /\ now \in Int /\ ts \in Int
      /\ now - MaxLate <= ts /\ ts <= now + MaxSkew
  <2>1. ts \in now - MaxLate .. now + MaxSkew /\ now \in Nat
    BY <1>2
  <2> QED BY <2>1, Numbers
<1>8. ASSUME NEW x \in IPs, NEW a \in Int, NEW b \in Int
      PROVE  Filter!PassedIn(x, a, b)' = IF x = me /\ a <= now /\ now <= b
                                         THEN Filter!PassedIn(x, a, b) + 1
                                         ELSE Filter!PassedIn(x, a, b)
  BY <1>4 DEF Filter!PassAt, Filter!NoPass
<1> SUFFICES ASSUME NEW x \in IPs, NEW a \in Int, NEW b \in Int
             PROVE  /\ Cardinality(Through(x, a, b)')
                         <= Filter!PassedIn(x, a - MaxSkew, b + MaxLate)'
                    /\ Filter!PassedIn(x, a, b)'
                         <= Cardinality(Through(x, a - MaxLate, b + MaxSkew)')
  BY DEF SeenAsPassed
<1>9. Cardinality(Through(x, a, b)') <= Filter!PassedIn(x, a - MaxSkew, b + MaxLate)'
  <2>1. PICK c \in Int, d \in Int : c = a - MaxSkew /\ d = b + MaxLate
    BY <1>7
  <2>2. Cardinality(Through(x, a, b)) <= Filter!PassedIn(x, c, d)
    BY <2>1 DEF SeenAsPassed
  <2>3. a <= ts /\ ts <= b => c <= now /\ now <= d
    BY <1>7, <2>1
  <2>4. Cardinality(Through(x, a, b)) \in Nat /\ Filter!PassedIn(x, c, d) \in Nat
    BY ThroughSizes
  <2>5. Filter!PassedIn(x, c, d)' = IF x = me /\ c <= now /\ now <= d
                                    THEN Filter!PassedIn(x, c, d) + 1
                                    ELSE Filter!PassedIn(x, c, d)
    BY <1>8
  <2>6. Cardinality(Through(x, a, b)') <= Filter!PassedIn(x, c, d)'
    BY <1>6, <2>2, <2>3, <2>4, <2>5
  <2>7. Filter!PassedIn(x, c, d)' = Filter!PassedIn(x, a - MaxSkew, b + MaxLate)'
    BY <2>1
  <2> QED BY <2>6, <2>7
<1>10. Filter!PassedIn(x, a, b)' <= Cardinality(Through(x, a - MaxLate, b + MaxSkew)')
  <2>1. PICK c \in Int, d \in Int : c = a - MaxLate /\ d = b + MaxSkew
    BY <1>7
  <2>2. Filter!PassedIn(x, a, b) <= Cardinality(Through(x, c, d))
    BY <2>1 DEF SeenAsPassed
  <2>3. a <= now /\ now <= b => c <= ts /\ ts <= d
    BY <1>7, <2>1
  <2>4. Cardinality(Through(x, c, d)) \in Nat /\ Filter!PassedIn(x, a, b) \in Nat
    BY ThroughSizes
  <2>5. Cardinality(Through(x, c, d)') =
          IF x = me /\ c <= ts /\ ts <= d THEN Cardinality(Through(x, c, d)) + 1
          ELSE Cardinality(Through(x, c, d))
    BY <1>6
  <2>6. Filter!PassedIn(x, a, b)' <= Cardinality(Through(x, c, d)')
    BY <1>8, <2>2, <2>3, <2>4, <2>5
  <2>7. Through(x, c, d)' = Through(x, a - MaxLate, b + MaxSkew)'
    BY <2>1
  <2> QED BY <2>6, <2>7
<1> QED BY <1>9, <1>10

(* A longer sequence, and the last of one. *)
LEMMA LongerBy ==
  ASSUME NEW S, NEW seq \in Seq(S), NEW e \in S
  PROVE  /\ Len(Append(seq, e)) = Len(seq) + 1
         /\ Append(seq, e)[Len(seq) + 1] = e
         /\ \A j \in DOMAIN seq : Append(seq, e)[j] = seq[j]
         /\ DOMAIN Append(seq, e) = DOMAIN seq \cup {Len(seq) + 1}
         /\ Len(seq) + 1 \notin DOMAIN seq
OBVIOUS

(* A sequence that is not empty has a last element. *)
LEMMA LastOf ==
  ASSUME NEW S, NEW seq \in Seq(S), seq # <<>>
  PROVE  Len(seq) \in DOMAIN seq /\ seq[Len(seq)] \in S
OBVIOUS

(* What an index of a sequence is. *)
LEMMA IndexOf ==
  ASSUME NEW S, NEW seq \in Seq(S), NEW j \in DOMAIN seq
  PROVE  j \in Nat /\ Len(seq) \in Nat /\ 1 <= j /\ j <= Len(seq) /\ seq[j] \in S
OBVIOUS

(* A decision changes the fate of the last event only. *)
LEMMA DecidedLast ==
  ASSUME events \in Seq(Event), events # <<>>, NEW fate \in Final, Decided(fate)
  PROVE  /\ DOMAIN events' = DOMAIN events /\ Len(events') = Len(events)
         /\ \A j \in DOMAIN events \ {Len(events)} : events'[j] = events[j]
         /\ events'[Len(events)].query = InHand.query
         /\ events'[Len(events)].ip = InHand.ip
         /\ events'[Len(events)].timestamp = InHand.timestamp
         /\ events'[Len(events)].fate = fate
<1>1. Len(events) \in DOMAIN events /\ InHand \in Event
  BY LastOf DEF InHand
<1>2. events' = [events EXCEPT ![Len(events)] = [InHand EXCEPT !.fate = fate]]
  BY DEF Decided, InHand
<1>3. events'[Len(events)] = [InHand EXCEPT !.fate = fate]
  BY <1>1, <1>2
<1>4. /\ DOMAIN events' = DOMAIN events /\ Len(events') = Len(events)
      /\ \A j \in DOMAIN events \ {Len(events)} : events'[j] = events[j]
  BY <1>2
<1> QED BY <1>1, <1>3, <1>4 DEF Event

(* The next call of Check begins. *)
LEMMA CallBegun ==
  ASSUME HandInv, NEW ip \in IPs, Fraud!ReadClock(Consumer, ip)
  PROVE  /\ calls'[Consumer].at = "get" /\ calls'[Consumer].ip = ip
         /\ calls'[Consumer].now = clock
         /\ passes' = passes
BY DEF Fraud!ReadClock, HandInv

(* A new event comes when the fate of all others is decided. *)
LEMMA Received ==
  ASSUME Known, OneInHand, NEW query \in Queries, NEW ip \in IPs \cup {EmptyIP},
         NEW timestamp \in clock - MaxLate .. clock + MaxSkew, Receive(query, ip, timestamp)
  PROVE  /\ Free(calls) /\ Free(checks)
         /\ \A j \in DOMAIN events : events[j].fate \in Final /\ events'[j] = events[j]
         /\ Len(events') = Len(events) + 1
         /\ DOMAIN events' = DOMAIN events \cup {Len(events) + 1}
         /\ Len(events) + 1 \notin DOMAIN events
         /\ events'[Len(events) + 1].ip = ip
         /\ events'[Len(events) + 1].timestamp = timestamp
         /\ events'[Len(events) + 1].fate = "in hand"
<1> DEFINE e == [query |-> query, ip |-> ip, timestamp |-> timestamp, fate |-> "in hand"]
<1>1. Free(calls) /\ Free(checks)
  BY DEF Receive, Free
<1>2. \A j \in DOMAIN events : events[j].fate \in Final
  BY <1>1 DEF OneInHand
<1>3. e \in Event /\ e.ip = ip /\ e.timestamp = timestamp /\ e.fate = "in hand"
  <2>1. timestamp \in Int
    BY Numbers DEF Known, HandInv
  <2> QED BY <2>1 DEF Event
<1>4. events' = Append(events, e) /\ events \in Seq(Event)
  BY DEF Receive, Known, HandInv
<1> HIDE DEF e
<1>5. /\ Len(Append(events, e)) = Len(events) + 1
      /\ Append(events, e)[Len(events) + 1] = e
      /\ \A j \in DOMAIN events : Append(events, e)[j] = events[j]
      /\ DOMAIN Append(events, e) = DOMAIN events \cup {Len(events) + 1}
      /\ Len(events) + 1 \notin DOMAIN events
  BY <1>3, <1>4, LongerBy, Zenon
<1> QED BY <1>1, <1>2, <1>3, <1>4, <1>5

(* The steps that let no event through: what was let through is final, and *)
(* an event in hand that was is not lost when its fate is decided.         *)
LEMMA OtherSeen ==
  ASSUME Known, OneInHand, SeenAsPassed, [Next]_vars, ~LetPass
  PROVE  SeenAsPassed'
<1>1. EmptyIP \notin IPs /\ events \in Seq(Event)
  BY FilterAssumption DEF Known, HandInv
<1>2. ASSUME NEW query \in Queries, NEW ip \in IPs \cup {EmptyIP},
             NEW timestamp \in clock - MaxLate .. clock + MaxSkew, Receive(query, ip, timestamp)
      PROVE  SeenAsPassed'
  <2>1. PICK new : /\ new \notin DOMAIN events /\ DOMAIN events' = DOMAIN events \cup {new}
                   /\ events'[new].ip = ip /\ events'[new].fate = "in hand"
    BY <1>2, Received
  <2>2. \A j \in DOMAIN events : events[j].fate \in Final /\ events'[j] = events[j]
    BY <1>2, Received
  <2>3. CASE ip = EmptyIP
    <3>1. ASSUME NEW x \in IPs, NEW a \in Int, NEW b \in Int
          PROVE  Through(x, a, b)' = Through(x, a, b)
      BY <1>1, <2>1, <2>2, <2>3 DEF Through, LetThrough, Final
    <3>2. PICK now \in Filter!Times : now = clock
      BY DEF Known, Filter!OneConsumer, Filter!TypeOK
    <3>3. passes' = [passes EXCEPT ![EmptyIP][now] = @ + 1]
      BY <1>2, <2>3, <3>2 DEF Receive, Key, Fraud!CheckEmpty
    <3>4. Filter!TypeOK /\ EmptyIP \in Filter!Addresses /\ IPs \subseteq Filter!Addresses
      BY DEF Known, Filter!OneConsumer, Filter!Addresses
    <3>5. \A x \in Filter!Addresses \ {EmptyIP} : Filter!NoPass(x)
      BY <3>3, <3>4, FilterAssumption, Filter!PassCounted
    <3>6. \A x \in IPs : Filter!NoPass(x)
      BY <1>1, <3>4, <3>5
    <3> QED BY <3>1, <3>6, NothingSeen
  <2>4. CASE ip # EmptyIP
    <3>1. Fraud!ReadClock(Consumer, ip) /\ ip \in IPs /\ HandInv
      BY <1>2, <2>4 DEF Receive, Key, Known
    <3>2. passes' = passes /\ calls'[Consumer].at = "get"
      BY <3>1, CallBegun
    <3>3. ASSUME NEW x \in IPs, NEW a \in Int, NEW b \in Int
          PROVE  Through(x, a, b)' = Through(x, a, b)
      BY <2>1, <2>2, <3>2 DEF Through, LetThrough, Final, Free
    <3> QED BY <3>2, <3>3, PassesKept, NothingSeen
  <2> QED BY <2>3, <2>4
<1>3. CASE LookUp
  <2>1. UNCHANGED <<events, passes>> /\ ~Free(calls) /\ ~Free(calls)'
    BY <1>3 DEF LookUp, Fraud!Get, Free, Known, HandInv
  <2>2. ASSUME NEW x \in IPs, NEW a \in Int, NEW b \in Int
        PROVE  Through(x, a, b)' = Through(x, a, b)
    BY <2>1 DEF Through, LetThrough
  <2> QED BY <2>1, <2>2, PassesKept, NothingSeen
<1>4. ASSUME NEW fate \in Final, Decided(fate), passes' = passes,
             events # <<>>, InHand.fate = "in hand",
             fate = "fraud" <=> ~Free(calls)
      PROVE  SeenAsPassed'
  <2>1. PICK last \in DOMAIN events : last = Len(events)
    BY <1>1, <1>4, LastOf
  <2>2. /\ \A j \in DOMAIN events \ {last} : events'[j] = events[j]
        /\ DOMAIN events' = DOMAIN events
        /\ events'[last].ip = events[last].ip
        /\ events'[last].timestamp = events[last].timestamp
        /\ events'[last].fate = fate
        /\ events[last].fate = "in hand"
    BY <1>1, <1>4, <2>1, DecidedLast DEF InHand
  <2>3. \A j \in DOMAIN events \ {last} : events[j].fate \in Final
    BY <2>1 DEF OneInHand
  <2>4. LetThrough' = LetThrough
    BY <1>4, <2>2, <2>3 DEF LetThrough, Final
  <2>5. ASSUME NEW x \in IPs, NEW a \in Int, NEW b \in Int
        PROVE  Through(x, a, b)' = Through(x, a, b)
    <3>1. \A j \in LetThrough : /\ events'[j].ip = events[j].ip
                                /\ events'[j].timestamp = events[j].timestamp
      BY <2>2 DEF LetThrough
    <3> QED BY <2>4, <3>1 DEF Through
  <2> QED BY <1>4, <2>5, PassesKept, NothingSeen
<1>5. CASE DropAsFraud
  <2>1. ~Free(calls) /\ Decided("fraud") /\ passes' = passes
    BY <1>5 DEF DropAsFraud, Free
  <2>2. InHand.fate = "in hand" /\ events # <<>>
    BY <2>1 DEF Known, HandInv, EventInHand
  <2> QED BY <1>4, <2>1, <2>2 DEF Final
<1>6. CASE JudgeQuery
  <2>1. ~Free(checks) /\ passes' = passes
    BY <1>6 DEF JudgeQuery, Stop!EndCheck, fraudVars, Free
  <2>2. Free(calls) /\ InHand.fate = "in hand" /\ events # <<>>
    BY <2>1 DEF Known, HandInv, EventInHand
  <2>3. Decided("counted") \/ Decided("banned")
    BY <1>6 DEF JudgeQuery
  <2> QED BY <1>4, <2>1, <2>2, <2>3 DEF Final
<1>7. CASE SearchQuery \/ Tick \/ UNCHANGED vars \/ \E c \in Clients : Administrate(c)
  <2>1. UNCHANGED <<events, passes, calls>>
    BY <1>7 DEF SearchQuery, Tick, Administrate, vars, fraudVars
  <2>2. ASSUME NEW x \in IPs, NEW a \in Int, NEW b \in Int
        PROVE  Through(x, a, b)' = Through(x, a, b)
    BY <2>1 DEF Through, LetThrough, Free
  <2> QED BY <2>1, <2>2, PassesKept, NothingSeen
<1> QED BY <1>2, <1>3, <1>5, <1>6, <1>7 DEF Next

(* At most one event in hand, and its check is about it. *)
LEMMA InHandStep ==
  ASSUME Known, OneInHand, [Next]_vars
  PROVE  OneInHand'
<1>1. /\ HandInv /\ events \in Seq(Event)
      /\ checks \in [{Consumer} -> [at : {"idle", "asked", "searching", "answered"},
                                   query : Queries, machine : SUBSET Words, verdict : BOOLEAN]]
  BY DEF Known, HandInv, List!TypeOK, List!Queries, Queries
<1>2. ASSUME NEW query \in Queries, NEW ip \in IPs \cup {EmptyIP},
             NEW timestamp \in clock - MaxLate .. clock + MaxSkew, Receive(query, ip, timestamp)
      PROVE  OneInHand'
  <2>1. Free(calls) /\ Free(checks)
    BY <1>2, Received
  <2>2. /\ InHand'.ip = ip /\ InHand'.timestamp = timestamp
        /\ \A j \in DOMAIN events' : j = Len(events') \/ events'[j].fate \in Final
    BY <1>2, Received DEF InHand
  <2>3. CASE ip = EmptyIP
    <3>1. calls' = calls /\ checks'[Consumer].at = "asked"
      BY <1>1, <1>2, <2>3 DEF Receive, Key, Fraud!CheckEmpty, Stop!BeginCheck
    <3> QED BY <2>1, <2>2, <3>1 DEF OneInHand, Free
  <2>4. CASE ip # EmptyIP
    <3>1. Fraud!ReadClock(Consumer, ip) /\ ip \in IPs
      BY <1>2, <2>4 DEF Receive, Key
    <3>2. calls'[Consumer].at = "get" /\ calls'[Consumer].ip = ip /\ calls'[Consumer].now = clock
      BY <1>1, <3>1, CallBegun
    <3> QED BY <2>2, <3>2 DEF OneInHand, Free
  <2> QED BY <2>3, <2>4
<1>3. CASE LookUp
  <2>1. UNCHANGED events /\ ~Free(calls) /\ ~Free(calls)'
    BY <1>1, <1>3 DEF LookUp, Fraud!Get, Free, HandInv
  <2>2. calls'[Consumer].ip = calls[Consumer].ip /\ calls'[Consumer].now = calls[Consumer].now
    <3>1. calls[Consumer] \in Filter!Call /\ DOMAIN calls = {Consumer}
      BY DEF Known, Filter!OneConsumer, Filter!TypeOK, HandInv
    <3> QED BY <1>3, <3>1 DEF LookUp, Fraud!Get, Filter!Call
  <2> QED BY <2>1, <2>2 DEF OneInHand, InHand
<1>4. ASSUME NEW fate \in Final, Decided(fate), events # <<>>, Free(calls)'
      PROVE  OneInHand'
  <2>1. /\ DOMAIN events' = DOMAIN events
        /\ \A j \in DOMAIN events \ {Len(events)} : events'[j] = events[j]
        /\ events'[Len(events)].fate = fate
    BY <1>1, <1>4, DecidedLast
  <2>2. \A j \in DOMAIN events' : events'[j].fate \in Final
    BY <2>1 DEF OneInHand
  <2> QED BY <1>4, <2>2 DEF OneInHand
<1>5. CASE DropAsFraud
  <2>1. ~Free(calls) /\ Decided("fraud") /\ Free(calls)'
    BY <1>1, <1>5 DEF DropAsFraud, Fraud!Count, Fraud!Return, Fraud!Idle, Free, HandInv
  <2>2. events # <<>>
    BY <1>1, <2>1 DEF HandInv, EventInHand
  <2> QED BY <1>4, <2>1, <2>2 DEF Final
<1>6. CASE JudgeQuery
  <2>1. ~Free(checks) /\ calls' = calls
    BY <1>6 DEF JudgeQuery, Stop!EndCheck, fraudVars, Free
  <2>2. Free(calls)' /\ events # <<>>
    BY <1>1, <2>1 DEF HandInv, EventInHand, Free
  <2>3. Decided("counted") \/ Decided("banned")
    BY <1>6 DEF JudgeQuery
  <2> QED BY <1>4, <2>2, <2>3 DEF Final
<1>7. CASE LetPass
  <2>1. /\ events' = events /\ Free(calls)' /\ ~Free(calls)
    BY <1>1, <1>7 DEF LetPass, Fraud!AddCounter, Fraud!Count, Fraud!Return, Fraud!Idle, Free,
                      HandInv
  <2>2. checks'[Consumer].at = "asked"
    BY <1>1, <1>7 DEF LetPass, Stop!BeginCheck
  <2> QED BY <2>1, <2>2 DEF OneInHand, Free
<1>8. CASE SearchQuery
  <2>1. UNCHANGED <<events, calls>> /\ ~Free(checks)
    BY <1>8 DEF SearchQuery, fraudVars, Stop!ReadMachine, Stop!Search, Free
  <2>2. checks'[Consumer].at # "idle"
    BY <1>1, <1>8 DEF SearchQuery, Stop!ReadMachine, Stop!Search
  <2> QED BY <2>1, <2>2 DEF OneInHand, InHand, Free
<1>9. CASE Tick \/ UNCHANGED vars \/ \E c \in Clients : Administrate(c)
  <2>1. UNCHANGED <<events, calls, checks>>
    BY <1>9 DEF Tick, Administrate, vars, fraudVars, stopVars, Stop!Call, Stop!Refuse, Stop!Add,
                Stop!Delete, Stop!Return
  <2> QED BY <2>1 DEF OneInHand, InHand, Free
<1> QED BY <1>2, <1>3, <1>5, <1>6, <1>7, <1>8, <1>9 DEF Next

(* What is near an event of which the filter has spoken does not change.   *)
LEMMA HonestKept ==
  ASSUME events \in Seq(Event), NEW i \in Having("fraud"), HonestPasses,
         \A j \in 1 .. i : events'[j] = events[j]
  PROVE  Cardinality(Near(i)') >= Limit
<1>1. Cardinality(Near(i)) >= Limit
  BY DEF HonestPasses, Near
<1>2. i \in Nat /\ i \in 1 .. i /\ \A j \in 1 .. i - 1 : j \in 1 .. i
  BY DEF Having
<1>3. Near(i)' = Near(i)
  BY <1>2 DEF Near, Apart
<1> QED BY <1>1, <1>3

(* An event is dropped: the filter had Limit reasons, and each was an      *)
(* event.                                                                  *)
LEMMA DropIsHonest ==
  ASSUME Known, OneInHand, SeenAsPassed, DropAsFraud, NEW last, last = Len(events)
  PROVE  Cardinality(Near(last)') >= Limit
<1>1. ~Free(calls) /\ Decided("fraud") /\ Fraud!Count(Consumer) /\ passes' = passes
  BY DEF DropAsFraud, Free
<1>2. PICK me \in IPs, now \in Filter!Times, ts \in Int :
        /\ me = calls[Consumer].ip /\ now = calls[Consumer].now
        /\ ts = InHand.timestamp /\ last \in DOMAIN events
        /\ now \in Nat /\ ts \in now - MaxLate .. now + MaxSkew
        /\ events[last] = InHand
        /\ InHand.ip = me /\ InHand.timestamp = ts /\ InHand.fate = "in hand"
  BY <1>1, HandChecked
<1>3. /\ events \in Seq(Event) /\ events # <<>>
      /\ MaxLate \in Nat /\ MaxSkew \in Nat /\ now \in Nat /\ ts \in Int
      /\ now - MaxLate <= ts /\ ts <= now + MaxSkew
      /\ Limit \in Nat /\ TTL \in Nat /\ last \in Nat
  <2>1. ts \in now - MaxLate .. now + MaxSkew /\ now \in Nat
    BY <1>2
  <2>2. events \in Seq(Event)
    BY DEF Known, HandInv
  <2>3. events # <<>>
    BY <1>1 DEF Known, HandInv, EventInHand
  <2>4. last \in Nat
    BY <1>2, <2>2, IndexOf
  <2> QED BY <2>1, <2>2, <2>3, <2>4, Numbers, FilterAssumption
<1> DEFINE a == now - TTL
           c == now - TTL - MaxLate
           d == now + MaxSkew
<1>4. a \in Int /\ c \in Int /\ d \in Int /\ now \in Int /\ c = a - MaxLate
  BY <1>3
<1>5. Filter!PassedIn(me, a, now) >= Limit
  <2>1. Filter!TypeOK /\ Filter!SoloInv(Consumer) /\ Filter!Justified(Consumer)
    BY DEF Known, Filter!OneConsumer
  <2>2. Filter!Count(Consumer)
    BY <1>1, FilterCount
  <2>3. Filter!PassedIn(calls[Consumer].ip, calls[Consumer].now - TTL, calls[Consumer].now) >= Limit
    BY <1>1, <2>1, <2>2, FilterAssumption, Filter!RefusalJustified
  <2> QED BY <1>2, <2>3
<1>6. Filter!PassedIn(me, a, now) <= Cardinality(Through(me, c, d))
  <2> HIDE DEF a
  <2> QED BY <1>4 DEF SeenAsPassed
<1>7. Through(me, c, d) \subseteq Near(last)'
  <2> SUFFICES ASSUME NEW j \in Through(me, c, d) PROVE j \in Near(last)'
    OBVIOUS
  <2>1. /\ j \in DOMAIN events /\ j # last /\ events[j].fate # "fraud"
        /\ events[j].ip = me /\ c <= events[j].timestamp /\ events[j].timestamp <= d
    BY <1>1, <1>2 DEF Through, LetThrough, OneInHand, Final
  <2>2. /\ events'[j] = events[j] /\ events'[last].ip = me /\ events'[last].timestamp = ts
    BY <1>1, <1>2, <1>3, <2>1, DecidedLast DEF Final
  <2>3. j \in 1 .. last - 1
    <3>1. j \in Nat /\ 1 <= j /\ j <= last
      BY <1>3, <2>1, IndexOf
    <3> QED BY <1>3, <2>1, <3>1
  <2>4. events[j].timestamp \in Int
    <3>1. events[j] \in Event
      BY <1>3, <2>1, IndexOf
    <3> QED BY <3>1 DEF Event
  <2>5. PICK t \in Int : t = events[j].timestamp
    BY <2>4
  <2>6. (IF ts < t THEN t - ts ELSE ts - t) <= TTL + MaxLate + MaxSkew
    BY <1>3, <2>1, <2>5
  <2>7. Apart(events'[last], events'[j]) <= TTL + MaxLate + MaxSkew
    BY <2>2, <2>5, <2>6 DEF Apart
  <2> QED BY <2>1, <2>2, <2>3, <2>7 DEF Near
<1>8. IsFiniteSet(Near(last)')
  <2>1. last \in Int /\ last - 1 \in Int /\ 1 \in Int
    BY <1>3
  <2>2. IsFiniteSet(1 .. last - 1)
    BY <2>1, FS_Interval
  <2> QED BY <2>2, FS_Subset DEF Near
<1>9. Cardinality(Through(me, c, d)) <= Cardinality(Near(last)')
      /\ Cardinality(Near(last)') \in Nat
  BY <1>7, <1>8, FS_Subset, FS_CardinalityType
<1>10. Cardinality(Through(me, c, d)) \in Nat /\ Filter!PassedIn(me, a, now) \in Nat
  <2> HIDE DEF a, c, d
  <2> QED BY <1>4, ThroughSizes
<1>11. Cardinality(Near(last)') >= Limit
  <2> HIDE DEF a, c, d
  <2> QED BY <1>3, <1>5, <1>6, <1>9, <1>10
<1> QED BY <1>11

(* Every event dropped so far was dropped for a reason, and stays so. *)
LEMMA HonestStep ==
  ASSUME Known, OneInHand, SeenAsPassed, HonestPasses, [Next]_vars
  PROVE  HonestPasses'
<1>1. events \in Seq(Event)
  BY DEF Known, HandInv
<1> SUFFICES ASSUME NEW i \in Having("fraud")' PROVE Cardinality(Near(i)') >= Limit
  BY DEF HonestPasses, Near
<1>2. ASSUME i \in Having("fraud"), \A j \in 1 .. i : events'[j] = events[j]
      PROVE  Cardinality(Near(i)') >= Limit
  BY <1>1, <1>2, HonestKept
<1>3. ASSUME UNCHANGED events PROVE Cardinality(Near(i)') >= Limit
  BY <1>2, <1>3 DEF Having
<1>4. ASSUME NEW query \in Queries, NEW ip \in IPs \cup {EmptyIP},
             NEW timestamp \in clock - MaxLate .. clock + MaxSkew, Receive(query, ip, timestamp)
      PROVE  Cardinality(Near(i)') >= Limit
  <2>1. /\ DOMAIN events' = DOMAIN events \cup {Len(events) + 1}
        /\ events'[Len(events) + 1].fate = "in hand"
        /\ \A j \in DOMAIN events : events'[j] = events[j]
    BY <1>4, Received
  <2>2. i \in DOMAIN events /\ i \in Having("fraud")
    BY <2>1 DEF Having
  <2>3. \A j \in 1 .. i : j \in DOMAIN events
    BY <1>1, <2>2
  <2> QED BY <1>2, <2>1, <2>2, <2>3
<1>5. ASSUME NEW fate \in Final, Decided(fate), events # <<>>, i # Len(events)
      PROVE  Cardinality(Near(i)') >= Limit
  <2>1. /\ DOMAIN events' = DOMAIN events
        /\ \A j \in DOMAIN events \ {Len(events)} : events'[j] = events[j]
    BY <1>1, <1>5, DecidedLast
  <2>2. i \in DOMAIN events /\ i \in Having("fraud")
    BY <1>5, <2>1 DEF Having
  <2>3. \A j \in 1 .. i : j \in DOMAIN events /\ j # Len(events)
    BY <1>1, <1>5, <2>2
  <2> QED BY <1>2, <2>1, <2>2, <2>3
<1>6. CASE DropAsFraud
  <2>1. ~Free(calls) /\ Decided("fraud")
    BY <1>6 DEF DropAsFraud, Free
  <2>2. events # <<>>
    BY <2>1 DEF Known, HandInv, EventInHand
  <2>3. CASE i = Len(events)
    BY <1>6, <2>3, DropIsHonest
  <2> QED BY <1>5, <2>1, <2>2, <2>3 DEF Final
<1>7. CASE JudgeQuery
  <2>1. ~Free(checks)
    BY <1>7 DEF JudgeQuery, Stop!EndCheck, Free
  <2>2. events # <<>>
    BY <2>1 DEF Known, HandInv, EventInHand
  <2>3. PICK fate \in {"counted", "banned"} : Decided(fate)
    BY <1>7 DEF JudgeQuery
  <2>4. events'[Len(events)].fate = fate
    BY <1>1, <2>2, <2>3, DecidedLast DEF Final
  <2>5. i # Len(events)
    BY <2>3, <2>4 DEF Having
  <2> QED BY <1>5, <2>2, <2>3, <2>5 DEF Final
<1>8. CASE LookUp \/ LetPass \/ SearchQuery \/ Tick \/ UNCHANGED vars
           \/ \E c \in Clients : Administrate(c)
  BY <1>3, <1>8 DEF LookUp, LetPass, SearchQuery, Tick, Administrate, vars
<1> QED BY <1>4, <1>6, <1>7, <1>8 DEF Next

(* At the start there are no events and no passes. *)
LEMMA JudgedInit == Init => JudgedInv
<1> SUFFICES ASSUME Init PROVE JudgedInv
  OBVIOUS
<1>1. DOMAIN events = {} /\ Free(calls)
  BY DEF Init, Fraud!Idle, Free
<1>2. OneInHand /\ HonestPasses
  BY <1>1 DEF OneInHand, HonestPasses, Having
<1>3. ASSUME NEW x \in IPs, NEW a \in Int, NEW b \in Int
      PROVE  Filter!PassedIn(x, a, b) = 0 /\ Cardinality(Through(x, a, b)) = 0
  <2>1. Filter!Unused
    BY FilterInit
  <2>2. Filter!PassedIn(x, a, b) = 0
    BY <2>1, FilterAssumption, Filter!NonePassed
  <2>3. Through(x, a, b) = {}
    BY <1>1 DEF Through, LetThrough
  <2> QED BY <2>2, <2>3, FS_EmptySet
<1>4. SeenAsPassed
  <2> SUFFICES ASSUME NEW x \in IPs, NEW a \in Int, NEW b \in Int
               PROVE  /\ Cardinality(Through(x, a, b))
                           <= Filter!PassedIn(x, a - MaxSkew, b + MaxLate)
                      /\ Filter!PassedIn(x, a, b)
                           <= Cardinality(Through(x, a - MaxLate, b + MaxSkew))
    BY DEF SeenAsPassed
  <2>1. /\ a - MaxSkew \in Int /\ b + MaxLate \in Int
        /\ a - MaxLate \in Int /\ b + MaxSkew \in Int
    BY Numbers
  <2> QED BY <1>3, <2>1
<1> QED BY <1>2, <1>4 DEF JudgedInv

(* The comparison of events and passes holds for good. *)
LEMMA JudgedInvariant == Spec => [](Known /\ JudgedInv)
<1>1. JudgedInv /\ Known /\ [Next]_vars => JudgedInv'
  BY InHandStep, PassSeen, OtherSeen, HonestStep DEF JudgedInv
<1>2. Spec => []Known
  BY FilterInvariant DEF Known
<1> QED BY <1>1, <1>2, JudgedInit, PTL DEF Spec

(* The filter drops no honest event: it goes by its own clock, but for     *)
(* each event it drops there are Limit events of the same address with     *)
(* timestamps as near as lateness and skew allow, whatever was received in *)
(* between and whatever the cache has dropped.                             *)
THEOREM DropsAreHonest == Spec => []HonestPasses
BY JudgedInvariant, PTL DEF JudgedInv

(* The timestamps of a slice. *)
LEMMA SliceBounds ==
  ASSUME NEW B \in Nat \ {0}, NEW t \in Int
  PROVE  t \div B \in Int /\ (t \div B) * B <= t /\ t <= (t \div B) * B + (B - 1)
BY Z3

(* The events of one slice were checked within a stretch of the filter's   *)
(* time that lateness and skew make longer than the slice.                 *)
LEMMA ShareBounded ==
  ASSUME Known, JudgedInv
  PROVE  SliceShare
<1> SUFFICES ASSUME NEW ip \in IPs \ evicted, NEW s \in Ring!Slices
             PROVE  Cardinality({i \in Having("counted") : /\ events[i].ip = ip
                                                           /\ SliceOfEvent(events[i]) = s})
                      <= Limit * WindowsPerSlice
  BY DEF SliceShare
<1> DEFINE B == Ring!BucketSec
           share == {i \in Having("counted") : /\ events[i].ip = ip
                                               /\ SliceOfEvent(events[i]) = s}
           length == B - 1 + MaxLate + MaxSkew + TTL
           m == length \div (TTL + 1)
           a == s * B
           b == a + (B - 1)
<1>1. /\ B \in Nat \ {0} /\ MaxLate \in Nat /\ MaxSkew \in Nat
      /\ TTL \in Nat \ {0} /\ Limit \in Nat \ {0} /\ s \in Nat
  BY Numbers, FilterAssumption DEF Ring!Slices
<1>2. a \in Int /\ b \in Int /\ a = b - (B - 1)
  <2>1. a \in Nat
    BY <1>1, MulOrder
  <2> HIDE DEF a, B
  <2> QED BY <1>1, <2>1
<1>3. share \subseteq Through(ip, a, b)
  <2> SUFFICES ASSUME NEW i \in share PROVE i \in Through(ip, a, b)
    OBVIOUS
  <2>1. /\ i \in DOMAIN events /\ events[i].fate = "counted" /\ events[i].ip = ip
        /\ SliceOfEvent(events[i]) = s
    BY DEF Having
  <2>2. events[i] \in Event
    BY <2>1, IndexOf DEF Known, HandInv
  <2>3. PICK t \in Int : t = events[i].timestamp
    BY <2>2 DEF Event
  <2>4. t \div B = s
    BY <2>1, <2>3 DEF SliceOfEvent, Ring!BucketSec
  <2>5. a <= t /\ t <= b
    <3> HIDE DEF B
    <3> QED BY <1>1, <2>4, SliceBounds
  <2> QED BY <2>1, <2>3, <2>5 DEF Through, LetThrough
<1> HIDE DEF share
<1>4. Cardinality(share) <= Cardinality(Through(ip, a, b)) /\ Cardinality(share) \in Nat
  <2> HIDE DEF a, b
  <2>1. IsFiniteSet(Through(ip, a, b))
    BY <1>2, ThroughSizes
  <2> QED BY <1>3, <2>1, FS_Subset, FS_CardinalityType
<1>5. PICK c \in Int, d \in Int : c = a - MaxSkew /\ d = b + MaxLate
  <2> HIDE DEF a, b
  <2> QED BY <1>1, <1>2
<1>6. Cardinality(Through(ip, a, b)) <= Filter!PassedIn(ip, c, d)
  <2> HIDE DEF a, b
  <2> QED BY <1>2, <1>5 DEF JudgedInv, SeenAsPassed
<1>7. Cardinality(Through(ip, a, b)) \in Nat /\ Filter!PassedIn(ip, c, d) \in Nat
  <2> HIDE DEF a, b
  <2> QED BY <1>2, ThroughSizes
<1>8. /\ m \in Nat /\ length < (TTL + 1) * (m + 1) /\ length = d - c + TTL
  <2> HIDE DEF a, b, B
  <2>1. length \in Nat /\ TTL + 1 \in Nat \ {0}
    BY <1>1
  <2>2. m \in Nat /\ length < m * (TTL + 1) + (TTL + 1)
    <3> HIDE DEF length
    <3> QED BY <2>1, DivBounds
  <2>3. (TTL + 1) * (m + 1) = m * (TTL + 1) + (TTL + 1)
    <3> HIDE DEF m
    <3> QED BY <1>1, <2>2, Z3
  <2>4. length = d - c + TTL
    BY <1>1, <1>2, <1>5
  <2> QED BY <2>2, <2>3, <2>4
<1> HIDE DEF length, m
<1>9. Filter!PassedIn(ip, c, d) <= Limit * (m + 1)
  BY <1>8 DEF Known, Filter!OneConsumer, Filter!QuotaInv, Filter!StretchQuota
<1>10. WindowsPerSlice = m + 1
  BY <1>8 DEF WindowsPerSlice, m, length
<1>11. Limit * (m + 1) \in Nat
  BY <1>1, <1>8
<1> DEFINE most == Limit * (m + 1)
<1>12. Cardinality(share) <= most
  <2> HIDE DEF most, a, b
  <2>1. most \in Nat /\ Filter!PassedIn(ip, c, d) <= most
    BY <1>9, <1>11 DEF most
  <2> QED BY <1>4, <1>6, <1>7, <2>1
<1> QED BY <1>10, <1>12 DEF share

(* What one address can do to a slice of the top is bounded: by the limit  *)
(* for each of the filter's windows that fit into the slice, lateness and  *)
(* skew, as long as the cache keeps the address.                           *)
THEOREM SliceShareBounded == Spec => []SliceShare
<1>1. Known /\ JudgedInv => SliceShare
  BY ShareBounded
<1> QED BY <1>1, JudgedInvariant, PTL
=============================================================================
