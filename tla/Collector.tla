----------------------------- MODULE Collector -----------------------------
(***************************************************************************)
(* The query collectors, TimeIndexedCollector and StructIndexedCollector:  *)
(* a ring of time-sliced buckets that Add fills, and an aggregator worker  *)
(* that walks the ring bucket by bucket, ranks what it found and stores    *)
(* the list atomically for the readers.  The two types share this          *)
(* behaviour line by line and differ in the representation they publish.   *)
(*                                                                         *)
(* Atomicity.  Everything Add does to shared state happens under its       *)
(* bucket's lock, so one call is one step, whichever goroutine makes it.   *)
(* Snapshot takes the read lock of one bucket at a time: each bucket is a  *)
(* step and Adds and the clock move in between.                            *)
(***************************************************************************)
EXTENDS Integers, Sequences, FiniteSets, TopList

CONSTANTS
  Queries,         \* queries, as numbers in the order of their strings
  Second,          \* clock units of a duration in one second
  BucketDuration,  \* cfg.BucketDuration, in those units
  WindowDuration,  \* cfg.WindowDuration, in those units
  TopLimit,        \* cfg.Collector.TopLimit
  StartClock,      \* seconds since the epoch when the process starts
  MaxClock,        \* bound: the last second of the run
  MaxLate,         \* how far behind the clock a timestamp may be, in seconds
  MaxSkew,         \* how far ahead of the clock a timestamp may be
  MaxAdds          \* bound: calls of Add

NumBuckets == WindowDuration \div BucketDuration
BucketSec  == BucketDuration \div Second
WindowSec  == WindowDuration \div Second

(* What config.Validate and arithmetic on time.Duration ask for.  A bucket *)
(* shorter than a second or longer than the window passes validation and   *)
(* makes Add divide by zero; such configurations are left out here.        *)
ASSUME ConfigAssumption ==
  /\ Second \in Nat \ {0}
  /\ BucketDuration \in Nat
  /\ WindowDuration \in Nat
  /\ Second <= BucketDuration
  /\ BucketDuration <= WindowDuration
  /\ TopLimit \in Nat \ {0}

(* The clock is long past the epoch: no timestamp falls in its first slice. *)
ASSUME ClockAssumption ==
  /\ Queries \subseteq Nat
  /\ StartClock \in Nat
  /\ MaxClock \in Nat
  /\ MaxLate \in Nat
  /\ MaxSkew \in Nat
  /\ MaxAdds \in Nat
  /\ StartClock <= MaxClock
  /\ BucketSec <= StartClock - MaxLate

Slots  == 0 .. NumBuckets - 1
Slices == 0 .. ((MaxClock + MaxSkew) \div BucketSec)

NoCounts == [q \in Queries |-> 0]
NoTop    == [data |-> << >>, updatedAt |-> StartClock]

VARIABLES
  clock,       \* time.Now().Unix()
  buckets,     \* c.buckets: expiresAt and counters of each slot
  currentTop,  \* c.currentTop: data and updatedAt
  phase,       \* where the worker is: "idle", "scanning" or "rendered"
  snapNow,     \* Snapshot's now
  next,        \* the slot Snapshot visits next
  result,      \* Snapshot's result
  envelope,    \* the envelope about to be stored
  adds,        \* calls of Add so far
  accepted,    \* history: accepted[q][s] calls of Add for q in slice s
  base         \* history: accepted when the running Snapshot began

vars == <<clock, buckets, currentTop, phase, snapNow, next, result,
          envelope, adds, accepted, base>>

NoHistory == [q \in Queries |-> [s \in Slices |-> 0]]

-----------------------------------------------------------------------------
(* The ring arithmetic of Add.                                             *)

SliceOf(ts) == ts \div BucketSec
StampOf(ts) == SliceOf(ts) * BucketSec

SlotBySecond(ts) == ts % NumBuckets
SlotOf(ts) == SliceOf(ts) % NumBuckets

NeverOutdated(b, stamp) == FALSE
OutdatedOrEqual(b, stamp) == b.expiresAt <= stamp
OutdatedOrNewer(b, stamp) == b.expiresAt # stamp
Outdated(b, stamp) == b.expiresAt < stamp

(* The bucket after the clearing of stale counters. *)
Rolled(b, stamp) ==
  IF Outdated(b, stamp) THEN [expiresAt |-> stamp, counters |-> NoCounts] ELSE b

AddQuery(q, ts) ==
  /\ buckets' = [buckets EXCEPT ![SlotOf(ts)] =
                   LET b == Rolled(@, StampOf(ts))
                   IN  [b EXCEPT !.counters[q] = @ + 1]]
  /\ adds' = adds + 1
  /\ accepted' = [accepted EXCEPT ![q][SliceOf(ts)] = @ + 1]
  /\ UNCHANGED <<clock, currentTop, phase, snapNow, next, result, envelope, base>>

Add ==
  /\ adds < MaxAdds
  /\ \E q \in Queries, ts \in (clock - MaxLate) .. (clock + MaxSkew) :
        AddQuery(q, ts)

-----------------------------------------------------------------------------
(* The aggregator worker: one tick runs Snapshot, sortTop and Store.       *)

(* A bug to test the properties with: now rounded up to the next slice. *)
BeginSnapshotAhead ==
  /\ phase = "idle"
  /\ phase' = "scanning"
  /\ snapNow' = (SliceOf(clock) + 1) * BucketSec
  /\ next' = 0
  /\ result' = NoCounts
  /\ base' = accepted
  /\ UNCHANGED <<clock, buckets, currentTop, envelope, adds, accepted>>

BeginSnapshot ==
  /\ phase = "idle"
  /\ phase' = "scanning"
  /\ snapNow' = clock
  /\ next' = 0
  /\ result' = NoCounts
  /\ base' = accepted
  /\ UNCHANGED <<clock, buckets, currentTop, envelope, adds, accepted>>

AlwaysInWindow(b) == TRUE
InWindowAfter(b) == b.expiresAt > snapNow - WindowSec + BucketSec
InWindow(b) == b.expiresAt >= snapNow - WindowSec

VisitBucket ==
  /\ phase = "scanning"
  /\ next < NumBuckets
  /\ result' = IF InWindow(buckets[next])
               THEN [q \in Queries |-> result[q] + buckets[next].counters[q]]
               ELSE result
  /\ next' = next + 1
  /\ UNCHANGED <<clock, buckets, currentTop, phase, snapNow, envelope,
                 adds, accepted, base>>

Render ==
  /\ phase = "scanning"
  /\ next = NumBuckets
  /\ phase' = "rendered"
  /\ envelope' = [data |-> SortTop(Counted(result), TopLimit), updatedAt |-> clock]
  /\ UNCHANGED <<clock, buckets, currentTop, snapNow, next, result,
                 adds, accepted, base>>

(* The store, after which the locals of the tick are dead. *)
Store ==
  /\ phase = "rendered"
  /\ currentTop' = envelope
  /\ phase' = "idle"
  /\ snapNow' = 0
  /\ next' = 0
  /\ result' = NoCounts
  /\ envelope' = NoTop
  /\ base' = NoHistory
  /\ UNCHANGED <<clock, buckets, adds, accepted>>

Worker == BeginSnapshot \/ VisitBucket \/ Render \/ Store

ClockTick ==
  /\ clock < MaxClock
  /\ clock' = clock + 1
  /\ UNCHANGED <<buckets, currentTop, phase, snapNow, next, result, envelope,
                 adds, accepted, base>>

-----------------------------------------------------------------------------
(* NewTimeIndexedCollector and NewStructIndexedCollector. *)
Init ==
  /\ clock = StartClock
  /\ buckets = [i \in Slots |-> [expiresAt |-> 0, counters |-> NoCounts]]
  /\ currentTop = NoTop
  /\ phase = "idle"
  /\ snapNow = 0
  /\ next = 0
  /\ result = NoCounts
  /\ envelope = NoTop
  /\ adds = 0
  /\ accepted = NoHistory
  /\ base = NoHistory

Next == Add \/ BeginSnapshot \/ VisitBucket \/ Render \/ Store \/ ClockTick

Spec == Init /\ [][Next]_vars

(* The ticker keeps firing and nobody holds a bucket's lock for long.      *)
FairSpec == Spec /\ WF_vars(Worker)

-----------------------------------------------------------------------------
(* Properties.                                                             *)

(* The shape of the state: every slot has a non-negative stamp and a count *)
(* for each query, and the worker is at one of its three places.           *)
TypeOK ==
  /\ clock \in StartClock .. MaxClock
  /\ buckets \in [Slots -> [expiresAt : Nat, counters : [Queries -> Nat]]]
  /\ phase \in {"idle", "scanning", "rendered"}
  /\ snapNow \in 0 .. clock
  /\ next \in 0 .. NumBuckets
  /\ result \in [Queries -> Nat]
  /\ adds \in 0 .. MaxAdds
  /\ accepted \in [Queries -> [Slices -> Nat]]
  /\ base \in [Queries -> [Slices -> Nat]]

(* The lateness the ring absorbs.  A search later than this may find its   *)
(* slot already taken by a slice a full turn of the ring newer.            *)
OnTime == MaxLate + MaxSkew <= (NumBuckets - 1) * BucketSec

(* Add under concurrent calls with any timestamps: a bucket holds exactly  *)
(* the searches accepted for the slice it is stamped with; none of an      *)
(* earlier turn of the ring and none missing.  Needs OnTime.               *)
SliceExact ==
  \A i \in Slots : \A q \in Queries :
     buckets[i].counters[q] = accepted[q][buckets[i].expiresAt \div BucketSec]

(* Add's eviction: a slice that received a search keeps its bucket until a *)
(* search a full turn of the ring newer is possible, however the calls and *)
(* timestamps are interleaved.                                             *)
Retained ==
  \A q \in Queries, s \in Slices :
     accepted[q][s] > 0 /\ s * BucketSec + NumBuckets * BucketSec > clock + MaxSkew
     => buckets[s % NumBuckets].expiresAt = s * BucketSec

(* Add never turns the ring back: no step lowers the stamp of a bucket, or *)
(* lowers a count of a bucket whose stamp it keeps, so a late search never *)
(* throws out what is newer.                                               *)
RingAdvances ==
  [][\A i \in Slots :
        \/ buckets[i].expiresAt < buckets'[i].expiresAt
        \/ /\ buckets[i].expiresAt = buckets'[i].expiresAt
           /\ \A q \in Queries : buckets[i].counters[q] <= buckets'[i].counters[q]]_vars

(* The collector implements the sliding window: although Snapshot reads    *)
(* the buckets one at a time while Add and the clock move on, the list it  *)
(* publishes is the exact top of counts that hold every search recorded    *)
(* before it began and still covered, and none from outside the window.    *)
(* The window the ring can vouch for is shorter than the ring by MaxSkew.  *)
(* Needs OnTime.                                                           *)
Window == INSTANCE SlidingWindow WITH
  SliceSec   <- BucketSec,
  CoveredSec <- NumBuckets * BucketSec - MaxSkew,
  MaxCount   <- MaxAdds,
  recorded   <- accepted,
  reading    <- phase # "idle",
  since      <- snapNow,
  top        <- currentTop.data

WindowSpec == Window!Spec

(* What the README says of timestamp: it keeps delayed deliveries from     *)
(* distorting the top.  No list counts more searches for a query than were *)
(* made inside the window.  Holds only under OnTime.                       *)
NoStaleSearch ==
  phase = "rendered" =>
    \A k \in 1 .. Len(envelope.data) :
       LET item == envelope.data[k]
       IN  item.count <= Window!CountFrom(accepted, item.query, snapNow - WindowSec)

(* The worker's loop: once Adds and the clock have stopped, the published  *)
(* list becomes and stays the exact top of the searches then in the        *)
(* window, whatever it published on the way.                               *)
Converges ==
  <>[](Window!Reflects(currentTop.data, accepted, clock, accepted, clock))
=============================================================================
