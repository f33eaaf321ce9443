------------------------------ MODULE Pipeline ------------------------------
(***************************************************************************)
(* The consumer's loop with its real parts: every event goes through the   *)
(* anti-fraud filter and the stop list to the ring of the collector, while *)
(* administrators change the stop list and time passes.                    *)
(*                                                                         *)
(* AntiFraud, StopList and Collector act here with their own actions, and  *)
(* share the clock.  The consumer is the one worker of the first and the   *)
(* one checker of the second.  The aggregator worker is left out: it only  *)
(* reads the buckets, which the properties are about.                      *)
(*                                                                         *)
(* Time is measured three ways: an event carries the producer's timestamp, *)
(* which decides the slice that counts it; the anti-fraud filter goes by   *)
(* the moment of the check; a ban by the moment it is answered.  MaxLate   *)
(* and MaxSkew bound how far the first is from the others.                 *)
(***************************************************************************)
EXTENDS Integers, Sequences, FiniteSets

CONSTANTS
  Second, BucketDuration, WindowDuration, StartClock,      \* as in Collector
  MaxClock, MaxLate, MaxSkew,
  IPs, EmptyIP, CacheSize, Limit, TTL,                     \* as in AntiFraud
  Words, Blank, RawWords, CleanForm, Contains,             \* as in StopList
  InitialWords, Clients, BuildMayFail, MaxRequests,
  MaxEvents                                                \* bound: events

VARIABLES
  clock, events, answeredAt,
  buckets,
  cache, fresher, counters, calls, passes, evicted, since,
  stopWords, machine, requests, checks, sent, asked, assured, freed

(* events: history, what was read so far and what became of it.            *)
(* answeredAt: history, when each assured word's addition was answered.    *)

ringVars  == <<buckets>>
fraudVars == <<cache, fresher, counters, calls, passes, evicted, since>>
stopVars  == <<stopWords, machine, requests, checks, sent, asked, assured, freed>>
vars      == <<clock, events, answeredAt, ringVars, fraudVars, stopVars>>

Queries  == DOMAIN Contains
Consumer == "consumer"

Having(fate) == {i \in DOMAIN events : events[i].fate = fate}

SliceOfEvent(e) == e.timestamp \div (BucketDuration \div Second)

Ring == INSTANCE Collector WITH
  TopLimit   <- 1,
  MaxAdds    <- MaxEvents,
  adds       <- Cardinality(Having("counted")),
  accepted   <- [q \in Queries |->
                   [s \in 0 .. ((MaxClock + MaxSkew) \div (BucketDuration \div Second)) |->
                      Cardinality({i \in Having("counted") : /\ events[i].query = q
                                                             /\ SliceOfEvent(events[i]) = s})]],
  currentTop <- <<>>, phase <- "idle", snapNow <- 0, next <- 0,
  result     <- <<>>, envelope <- <<>>, base <- <<>>

Fraud == INSTANCE AntiFraud WITH
  Workers <- {Consumer}, MaxChecks <- MaxEvents, checks <- Len(events)

Stop == INSTANCE StopList WITH
  Checkers <- {Consumer}, MaxChecks <- MaxEvents, MaxWords <- Cardinality(RawWords)

(* What the parts ask of the configuration, and requests are finite.       *)
ASSUME PipelineAssumption ==
  /\ Ring!ConfigAssumption
  /\ Ring!ClockAssumption
  /\ Fraud!ConfigAssumption
  /\ Fraud!BoundsAssumption
  /\ Stop!WordsAssumption
  /\ IsFiniteSet(RawWords)

-----------------------------------------------------------------------------
(* The consumer.                                                           *)

InHand == events[Len(events)]

Decided(fate) == events' = [events EXCEPT ![Len(events)].fate = fate]

(* A bug to test the properties with: one counter for all addresses, and   *)
(* for events without one.                                                 *)
SharedKey(ip) == CHOOSE x \in IPs : TRUE

(* key := event.IP *)
Key(ip) == ip

(* ReadMessage, Unmarshal and the first lines of AntiFraudFilter.Check.    *)
Receive(query, ip, timestamp) ==
  /\ calls[Consumer].at = "idle"
  /\ checks[Consumer].at = "idle"
  /\ events' = Append(events, [query |-> query, ip |-> ip, timestamp |-> timestamp,
                               fate |-> "in hand"])
  /\ IF Key(ip) = EmptyIP
     THEN Fraud!CheckEmpty(Consumer) /\ Stop!BeginCheck(Consumer, query)
     ELSE Fraud!ReadClock(Consumer, Key(ip)) /\ UNCHANGED stopVars
  /\ UNCHANGED <<answeredAt, ringVars>>

LookUp ==
  /\ UNCHANGED events
  /\ Fraud!Get(Consumer)
  /\ UNCHANGED <<answeredAt, ringVars, stopVars>>

(* The rest of AntiFraudFilter.Check: false, and the chain drops the event. *)
DropAsFraud ==
  /\ calls[Consumer].at = "count"
  /\ Decided("fraud")
  /\ Fraud!Count(Consumer)
  /\ passes' = passes
  /\ UNCHANGED <<answeredAt, ringVars, stopVars>>

(* ... true, and the chain asks the stop list. *)
LetPass ==
  /\ UNCHANGED events
  /\ Fraud!AddCounter(Consumer) \/ Fraud!Count(Consumer)
  /\ passes' # passes
  /\ Stop!BeginCheck(Consumer, InHand.query)
  /\ UNCHANGED <<answeredAt, ringVars>>

SearchQuery ==
  /\ Stop!ReadMachine(Consumer) \/ Stop!Search(Consumer)
  /\ UNCHANGED <<clock, events, answeredAt, ringVars, fraudVars>>

(* A bug to test the properties with: the chain's verdict is not looked at. *)
CountAnyway(verdict) == TRUE

Accepted(verdict) == verdict

(* The chain has answered; Collector.Add. *)
JudgeQuery ==
  /\ Stop!EndCheck(Consumer)
  /\ IF Accepted(checks[Consumer].verdict)
     THEN Decided("counted") /\ Ring!AddQuery(InHand.query, InHand.timestamp)
     ELSE Decided("banned") /\ UNCHANGED <<clock, ringVars>>
  /\ UNCHANGED <<answeredAt, fraudVars>>

-----------------------------------------------------------------------------
(* Around the consumer.                                                    *)

(* A request to change the stop list arrives, is decided or is answered. *)
Administrate(c) ==
  /\ \/ \E op \in {"add", "delete"}, raws \in SUBSET RawWords : Stop!Call(c, op, raws)
     \/ Stop!Refuse(c)
     \/ Stop!Add(c)
     \/ Stop!Delete(c)
     \/ Stop!Return(c)
  /\ answeredAt' = [w \in Words |-> IF w \in assured' \ assured THEN clock ELSE answeredAt[w]]
  /\ UNCHANGED <<clock, events, ringVars, fraudVars>>

(* Time passes; an event is dealt with before it is MaxLate behind.        *)
Tick ==
  /\ \A i \in Having("in hand") : clock < events[i].timestamp + MaxLate
  /\ UNCHANGED events
  /\ Ring!ClockTick
  /\ UNCHANGED <<answeredAt, fraudVars, stopVars>>

Init ==
  /\ clock = StartClock
  /\ events = <<>>
  /\ answeredAt = [w \in Words |-> 0]
  /\ buckets = [i \in Ring!Slots |-> [expiresAt |-> 0, counters |-> Ring!NoCounts]]
  /\ cache = [ip \in IPs |-> Fraud!NoRef]
  /\ fresher = [ip \in IPs |-> {}]
  /\ counters = <<>>
  /\ calls = [w \in {Consumer} |-> Fraud!Idle]
  /\ passes = [ip \in IPs \cup {EmptyIP} |-> [t \in Fraud!Times |-> 0]]
  /\ evicted = {}
  /\ since = [ip \in IPs |-> {}]
  /\ Stop!Init

Next ==
  \/ \E query \in Queries, ip \in IPs \cup {EmptyIP},
        timestamp \in clock - MaxLate .. clock + MaxSkew : Receive(query, ip, timestamp)
  \/ LookUp
  \/ DropAsFraud
  \/ LetPass
  \/ SearchQuery
  \/ JudgeQuery
  \/ \E c \in Clients : Administrate(c)
  \/ Tick

Spec == Init /\ [][Next]_vars

-----------------------------------------------------------------------------
(* Properties.                                                             *)

(* A ban reaches the top list: although events pass the filter long before *)
(* they are counted, and carry the time of somebody else's clock, a slice  *)
(* that begins more than MaxSkew after a ban was answered counts no query  *)
(* with the word.  When the window has moved past that, the word is gone.  *)
(* Holds unless building the automaton fails: after that, an answered ban  *)
(* need not be in force at all.                                            *)
BanReachesRing ==
  \A i \in Ring!Slots, q \in Queries, w \in assured :
     w \in Contains[q] /\ buckets[i].counters[q] > 0
     => buckets[i].expiresAt <= answeredAt[w] + MaxSkew

Apart(e, f) ==
  IF e.timestamp < f.timestamp THEN f.timestamp - e.timestamp ELSE e.timestamp - f.timestamp

(* The anti-fraud filter goes by its own clock.  Seen by the timestamps:   *)
(* it drops an event only if Limit events of the same address that it did  *)
(* not drop lie within the TTL and what delay and skew add to it.  Among   *)
(* them may be events that the stop list dropped afterwards, and events    *)
(* further apart than the TTL that a backlog brought together.             *)
HonestPasses ==
  \A i \in Having("fraud") :
     LET near == {j \in 1 .. i - 1 : /\ events[j].ip = events[i].ip
                                     /\ events[j].fate # "fraud"
                                     /\ Apart(events[i], events[j]) <= TTL + MaxLate + MaxSkew}
     IN  Cardinality(near) >= Limit

(* How many of the filter's windows an address can have while events of    *)
(* one slice are checked.                                                  *)
WindowsPerSlice ==
  1 + ((Ring!BucketSec - 1 + MaxLate + MaxSkew + TTL) \div (TTL + 1))

(* What one address can do to the top: its events in one slice's counters  *)
(* are bounded, as long as the cache has not dropped it.                   *)
SliceShare ==
  \A ip \in IPs \ evicted, s \in Ring!Slices :
     Cardinality({i \in Having("counted") : /\ events[i].ip = ip
                                            /\ SliceOfEvent(events[i]) = s})
       <= Limit * WindowsPerSlice
=============================================================================
