-------------------------- MODULE CollectorProofs --------------------------
(***************************************************************************)
(* Proofs about Collector, for every configuration, any number of queries  *)
(* and searches, and any interleaving of Adds, the worker and the clock:   *)
(* the ring, the ranking, and that the collector implements the sliding    *)
(* window of SlidingWindow.                                                *)
(***************************************************************************)
EXTENDS Collector, SliceArithmetic, FiniteSetTheorems, SequenceTheorems, TLAPS

-----------------------------------------------------------------------------
(* What config.Validate guarantees of the ring. *)
LEMMA RingShape ==
  /\ NumBuckets \in Nat \ {0}
  /\ BucketSec \in Nat \ {0}
<1>1. NumBuckets \in Nat \ {0}
  BY ConfigAssumption, Z3 DEF NumBuckets
<1>2. BucketSec \in Nat \ {0}
  BY ConfigAssumption, Z3 DEF BucketSec
<1> QED BY <1>1, <1>2

-----------------------------------------------------------------------------
(* The inductive invariant of the ring.                                    *)

(* A stamp is the start of a slice of the bucket's slot, or still 0.       *)
Stamped(i, s) ==
  /\ buckets[i].expiresAt = s * BucketSec
  /\ s = 0 \/ s % NumBuckets = i

StampsOK ==
  \A i \in Slots : /\ \E s \in Slices : Stamped(i, s)
                   /\ buckets[i].expiresAt <= clock + MaxSkew

(* No search falls in the slice an unused bucket seems to be stamped with. *)
NothingAtEpoch == \A q \in Queries : accepted[q][0] = 0

(* Nothing older than a search it received is left in a slot. *)
NewestWins ==
  \A q \in Queries, s \in Slices :
     accepted[q][s] > 0 => s * BucketSec <= buckets[s % NumBuckets].expiresAt

RingInv == TypeOK /\ StampsOK /\ NothingAtEpoch /\ NewestWins

(* The steps that leave the ring and its history alone. *)
OtherStep ==
  \/ BeginSnapshot
  \/ VisitBucket
  \/ Render
  \/ Store
  \/ ClockTick
  \/ UNCHANGED vars

(* The slice, stamp and slot of a timestamp Add can meet. *)
LEMMA TimestampSlice ==
  ASSUME TypeOK, NEW ts \in (clock - MaxLate) .. (clock + MaxSkew)
  PROVE  /\ ts \in Nat
         /\ SliceOf(ts) \in Slices \ {0}
         /\ SliceOf(ts) \in Nat
         /\ StampOf(ts) = SliceOf(ts) * BucketSec
         /\ StampOf(ts) \in Nat
         /\ StampOf(ts) <= ts
         /\ ts < StampOf(ts) + BucketSec
         /\ SlotOf(ts) = SliceOf(ts) % NumBuckets
         /\ SlotOf(ts) \in Slots
<1> DEFINE last == MaxClock + MaxSkew
           d == SliceOf(ts)
           l == last \div BucketSec
<1>1. /\ ts \in Nat /\ last \in Nat /\ ts <= last /\ BucketSec <= ts
      /\ BucketSec \in Nat \ {0} /\ NumBuckets \in Nat \ {0}
  BY ClockAssumption, RingShape DEF TypeOK
<1>2. d \in Nat /\ d * BucketSec <= ts /\ ts < d * BucketSec + BucketSec
  BY <1>1, DivBounds DEF SliceOf
<1>3. l \in Nat /\ l * BucketSec <= last /\ last < l * BucketSec + BucketSec
  BY <1>1, DivBounds
<1> HIDE DEF d, l
<1>4. d # 0
  BY <1>1, <1>2
<1>5. d <= l
  <2>1. SUFFICES ASSUME l < d PROVE FALSE
    BY <1>2, <1>3
  <2>2. (l + 1) * BucketSec <= d * BucketSec
    BY <2>1, <1>1, <1>2, <1>3, MulOrder
  <2>3. (l + 1) * BucketSec = l * BucketSec + BucketSec
    BY <1>1, <1>3, Z3
  <2>4. l * BucketSec \in Nat /\ d * BucketSec \in Nat
    BY <1>1, <1>2, <1>3, MulOrder
  <2> QED BY <2>2, <2>3, <2>4, <1>1, <1>2, <1>3
<1>6. d \in Slices
  BY <1>2, <1>3, <1>5 DEF Slices, l, last
<1>7. d % NumBuckets \in Slots
  BY <1>1, <1>2, Z3 DEF Slots
<1>8. d * BucketSec \in Nat
  BY <1>1, <1>2, MulOrder
<1> QED BY <1>1, <1>2, <1>4, <1>6, <1>7, <1>8 DEF d, StampOf, SlotOf

(* What a call of Add does to a bucket. *)
LEMMA AddEffect ==
  ASSUME TypeOK, NEW q \in Queries,
         NEW ts \in (clock - MaxLate) .. (clock + MaxSkew),
         AddQuery(q, ts), NEW i \in Slots
  PROVE  /\ i # SlotOf(ts) => buckets'[i] = buckets[i]
         /\ i = SlotOf(ts) /\ buckets[i].expiresAt < StampOf(ts)
            => /\ buckets'[i].expiresAt = StampOf(ts)
               /\ \A x \in Queries :
                     buckets'[i].counters[x] = IF x = q THEN 1 ELSE 0
         /\ i = SlotOf(ts) /\ ~(buckets[i].expiresAt < StampOf(ts))
            => /\ buckets'[i].expiresAt = buckets[i].expiresAt
               /\ \A x \in Queries :
                     buckets'[i].counters[x] = IF x = q THEN buckets[i].counters[x] + 1
                                               ELSE buckets[i].counters[x]
<1> USE DEF TypeOK, AddQuery
<1>1. CASE i # SlotOf(ts)
  BY <1>1, TimestampSlice
<1>2. CASE i = SlotOf(ts) /\ buckets[i].expiresAt < StampOf(ts)
  BY <1>2, TimestampSlice DEF Rolled, Outdated, NoCounts
<1>3. CASE i = SlotOf(ts) /\ ~(buckets[i].expiresAt < StampOf(ts))
  BY <1>3, TimestampSlice DEF Rolled, Outdated
<1> QED BY <1>1, <1>2, <1>3

(* What a call of Add does to the history. *)
LEMMA HistoryEffect ==
  ASSUME TypeOK, NEW q \in Queries,
         NEW ts \in (clock - MaxLate) .. (clock + MaxSkew),
         AddQuery(q, ts), NEW x \in Queries, NEW s \in Slices
  PROVE  accepted'[x][s] = IF x = q /\ s = SliceOf(ts) THEN accepted[x][s] + 1
                           ELSE accepted[x][s]
BY TimestampSlice DEF TypeOK, AddQuery

(* Every other step leaves buckets and accepted alone and never turns the  *)
(* clock back.                                                             *)
LEMMA OtherStepEffect ==
  ASSUME TypeOK, OtherStep
  PROVE  /\ buckets' = buckets
         /\ accepted' = accepted
         /\ clock' \in Nat
         /\ clock <= clock'
BY ClockAssumption DEF TypeOK, OtherStep, BeginSnapshot, VisitBucket, Render,
     Store, ClockTick, vars

-----------------------------------------------------------------------------
(* Type correctness.                                                       *)

(* The initial state has its shape, *)
LEMMA TypeInit == Init => TypeOK
<1> SUFFICES ASSUME Init PROVE TypeOK
  OBVIOUS
<1>1. /\ NumBuckets \in Nat \ {0}
      /\ buckets \in [Slots -> [expiresAt : Nat, counters : [Queries -> Nat]]]
  BY RingShape DEF Init, NoCounts
<1>2. /\ accepted \in [Queries -> [Slices -> Nat]]
      /\ base \in [Queries -> [Slices -> Nat]]
  BY DEF Init, NoHistory
<1>3. /\ clock \in StartClock .. MaxClock
      /\ snapNow \in 0 .. clock
      /\ next \in 0 .. NumBuckets
      /\ adds \in 0 .. MaxAdds
      /\ result \in [Queries -> Nat]
      /\ phase \in {"idle", "scanning", "rendered"}
  BY <1>1, ClockAssumption DEF Init, NoCounts
<1> QED BY <1>1, <1>2, <1>3 DEF TypeOK

(* and every step keeps it. *)
LEMMA TypeStep == TypeOK /\ [Next]_vars => TypeOK'
<1> SUFFICES ASSUME TypeOK, [Next]_vars PROVE TypeOK'
  OBVIOUS
<1>0. NumBuckets \in Nat \ {0}
  BY RingShape
<1>1. CASE Add
  <2>1. PICK q \in Queries, ts \in (clock - MaxLate) .. (clock + MaxSkew) :
            AddQuery(q, ts)
    BY <1>1 DEF Add
  <2>2. buckets' \in [Slots -> [expiresAt : Nat, counters : [Queries -> Nat]]]
    <3>1. DOMAIN buckets' = Slots
      BY <2>1 DEF AddQuery, TypeOK
    <3>2. buckets' = [i \in Slots |-> buckets'[i]]
      BY <2>1 DEF AddQuery, TypeOK
    <3>3. ASSUME NEW i \in Slots
          PROVE  buckets'[i] \in [expiresAt : Nat, counters : [Queries -> Nat]]
      <4> DEFINE b == Rolled(buckets[i], StampOf(ts))
      <4>1. buckets[i] \in [expiresAt : Nat, counters : [Queries -> Nat]]
        BY <3>3 DEF TypeOK
      <4>2. b \in [expiresAt : Nat, counters : [Queries -> Nat]]
        BY <4>1, TimestampSlice DEF Rolled, Outdated, NoCounts
      <4>3. buckets'[i] = IF i = SlotOf(ts)
                          THEN [b EXCEPT !.counters =
                                  [b.counters EXCEPT ![q] = b.counters[q] + 1]]
                          ELSE buckets[i]
        BY <2>1, <3>3 DEF AddQuery, TypeOK
      <4> HIDE DEF b
      <4>4. [b.counters EXCEPT ![q] = b.counters[q] + 1] \in [Queries -> Nat]
        BY <4>2
      <4> QED BY <4>1, <4>2, <4>3, <4>4
    <3> QED BY <3>2, <3>3
  <2>3. accepted' \in [Queries -> [Slices -> Nat]]
    BY <2>1, TimestampSlice DEF AddQuery, TypeOK
  <2>4. adds' \in 0 .. MaxAdds
    BY <1>1, <2>1, ClockAssumption DEF Add, AddQuery, TypeOK
  <2> QED BY <2>1, <2>2, <2>3, <2>4 DEF AddQuery, TypeOK
<1>2. CASE BeginSnapshot
  BY <1>0, <1>2, ClockAssumption DEF BeginSnapshot, TypeOK, NoCounts
<1>3. CASE VisitBucket
  <2>1. next \in Slots /\ next' \in 0 .. NumBuckets
    BY <1>0, <1>3 DEF VisitBucket, TypeOK, Slots
  <2>2. buckets[next].counters \in [Queries -> Nat]
    BY <2>1 DEF TypeOK
  <2>3. result' \in [Queries -> Nat]
    BY <1>3, <2>2 DEF VisitBucket, TypeOK
  <2> QED BY <1>3, <2>1, <2>3 DEF VisitBucket, TypeOK
<1>4. CASE Render
  BY <1>4 DEF Render, TypeOK
<1>5. CASE Store
  BY <1>0, <1>5, ClockAssumption DEF Store, TypeOK, NoCounts, NoHistory
<1>6. CASE ClockTick
  BY <1>6, ClockAssumption DEF ClockTick, TypeOK
<1>7. CASE UNCHANGED vars
  BY <1>7 DEF vars, TypeOK
<1> QED BY <1>1, <1>2, <1>3, <1>4, <1>5, <1>6, <1>7 DEF Next

(* The state keeps its shape. *)
THEOREM TypeCorrect == Spec => []TypeOK
<1>1. Init => TypeOK
  BY TypeInit
<1>2. TypeOK /\ [Next]_vars => TypeOK'
  BY TypeStep
<1> QED BY <1>1, <1>2, PTL DEF Spec

-----------------------------------------------------------------------------
(* The ring invariant is inductive.                                        *)

(* The slice of a stamp that was never set. *)
LEMMA EpochSlice == 0 \in Slices /\ 0 * BucketSec = 0
<1>1. BucketSec \in Nat \ {0} /\ MaxClock + MaxSkew \in Nat
  BY RingShape, ClockAssumption
<1>2. (MaxClock + MaxSkew) \div BucketSec \in Nat
  BY <1>1, DivBounds
<1> QED BY <1>1, <1>2 DEF Slices

(* An unused ring. *)
LEMMA RingInit == Init => RingInv
<1> SUFFICES ASSUME Init PROVE RingInv
  OBVIOUS
<1>1. TypeOK
  BY TypeInit
<1>2. 0 \in Slices /\ 0 * BucketSec = 0
  BY EpochSlice
<1>3. \A i \in Slots : buckets[i].expiresAt = 0
  BY DEF Init
<1>4. clock + MaxSkew >= 0
  BY ClockAssumption DEF Init
<1>5. StampsOK
  BY <1>2, <1>3, <1>4 DEF StampsOK, Stamped
<1>6. \A q \in Queries, s \in Slices : accepted[q][s] = 0
  BY DEF Init, NoHistory
<1> QED BY <1>1, <1>2, <1>5, <1>6 DEF RingInv, NothingAtEpoch, NewestWins

(* No step of anybody breaks the ring: Add is the only one that writes     *)
(* it.                                                                     *)
LEMMA RingStep == RingInv /\ [Next]_vars => RingInv'
<1> SUFFICES ASSUME RingInv, [Next]_vars PROVE RingInv'
  OBVIOUS
<1>1. TypeOK /\ TypeOK'
  BY TypeStep DEF RingInv
<1>2. /\ NumBuckets \in Nat \ {0}
      /\ BucketSec \in Nat \ {0}
      /\ MaxSkew \in Nat
  BY RingShape, ClockAssumption
<1>3. \A i \in Slots : /\ buckets[i].expiresAt \in Nat
                       /\ buckets'[i].expiresAt \in Nat
  BY <1>1 DEF TypeOK
<1>4. clock \in Nat /\ clock' \in Nat
  BY <1>1, ClockAssumption DEF TypeOK
<1>5. ASSUME NEW s \in Slices
      PROVE  /\ s \in Nat
             /\ s * BucketSec \in Nat
             /\ s % NumBuckets \in Slots
  <2>1. s \in Nat
    BY <1>5 DEF Slices
  <2>2. s % NumBuckets \in Slots
    BY <1>2, <2>1, Z3 DEF Slots
  <2> QED BY <1>2, <2>1, <2>2, MulOrder
<1>6. CASE Add
  <2>1. PICK q \in Queries, ts \in (clock - MaxLate) .. (clock + MaxSkew) :
            AddQuery(q, ts)
    BY <1>6 DEF Add
  <2> DEFINE slot == SlotOf(ts)
             stamp == StampOf(ts)
             slice == SliceOf(ts)
  <2>2. /\ slice \in Slices \ {0}
        /\ stamp = slice * BucketSec
        /\ stamp \in Nat
        /\ stamp <= clock + MaxSkew
        /\ slot = slice % NumBuckets
        /\ slot \in Slots
    BY <1>1, <1>2, <1>4, TimestampSlice
  <2> HIDE DEF slot, stamp, slice
  <2>3. ASSUME NEW i \in Slots
        PROVE  \/ buckets'[i].expiresAt = buckets[i].expiresAt
               \/ /\ i = slot
                  /\ buckets[i].expiresAt < stamp
                  /\ buckets'[i].expiresAt = stamp
    BY <1>1, <2>1, <2>3, AddEffect DEF slot, stamp
  <2>4. clock' = clock
    BY <2>1 DEF AddQuery
  <2>5. StampsOK'
    <3> SUFFICES ASSUME NEW i \in Slots
                 PROVE  /\ \E s \in Slices : Stamped(i, s)'
                        /\ buckets'[i].expiresAt <= clock' + MaxSkew
      BY DEF StampsOK
    <3>1. CASE buckets'[i].expiresAt = buckets[i].expiresAt
      BY <2>4, <3>1 DEF RingInv, StampsOK, Stamped
    <3>2. CASE i = slot /\ buckets'[i].expiresAt = stamp
      BY <2>2, <2>4, <3>2 DEF Stamped
    <3> QED BY <2>3, <3>1, <3>2
  <2>6. NothingAtEpoch'
    <3>1. 0 \in Slices
      BY EpochSlice
    <3> SUFFICES ASSUME NEW x \in Queries PROVE accepted'[x][0] = 0
      BY DEF NothingAtEpoch
    <3>2. accepted'[x][0] = accepted[x][0]
      BY <1>1, <2>1, <2>2, <3>1, HistoryEffect DEF slice
    <3> QED BY <3>2 DEF RingInv, NothingAtEpoch
  <2>7. NewestWins'
    <3> SUFFICES ASSUME NEW x \in Queries, NEW s \in Slices, accepted'[x][s] > 0
                 PROVE  s * BucketSec <= buckets'[s % NumBuckets].expiresAt
      BY DEF NewestWins
    <3>1. s % NumBuckets \in Slots /\ s * BucketSec \in Nat
      BY <1>5
    <3>2. buckets[s % NumBuckets].expiresAt <= buckets'[s % NumBuckets].expiresAt
      <4> DEFINE i == s % NumBuckets
      <4>1. i \in Slots
        BY <3>1
      <4> HIDE DEF i
      <4>2. buckets[i].expiresAt <= buckets'[i].expiresAt
        BY <1>3, <2>2, <2>3, <4>1
      <4> QED BY <4>2 DEF i
    <3>3. CASE s = slice
      <4>1. stamp <= buckets'[slot].expiresAt
        <5>1. ~(buckets[slot].expiresAt < stamp)
              => buckets'[slot].expiresAt = buckets[slot].expiresAt
          BY <1>1, <2>1, <2>2, AddEffect DEF slot, stamp
        <5>2. buckets[slot].expiresAt < stamp => buckets'[slot].expiresAt = stamp
          BY <1>1, <2>1, <2>2, AddEffect DEF slot, stamp
        <5> QED BY <5>1, <5>2, <1>3, <2>2
      <4> QED BY <2>2, <3>3, <4>1
    <3>4. CASE s # slice
      <4>1. accepted'[x][s] = accepted[x][s]
        BY <1>1, <2>1, <3>4, HistoryEffect DEF slice
      <4>2. s * BucketSec <= buckets[s % NumBuckets].expiresAt
        BY <4>1 DEF RingInv, NewestWins
      <4> QED BY <1>3, <3>1, <3>2, <4>2
    <3> QED BY <3>3, <3>4
  <2> QED BY <1>1, <2>5, <2>6, <2>7 DEF RingInv
<1>7. CASE OtherStep
  <2>1. /\ buckets' = buckets
        /\ accepted' = accepted
        /\ clock <= clock'
    BY <1>1, <1>7, OtherStepEffect
  <2>2. StampsOK'
    <3> SUFFICES ASSUME NEW i \in Slots
                 PROVE  /\ \E s \in Slices : Stamped(i, s)'
                        /\ buckets'[i].expiresAt <= clock' + MaxSkew
      BY DEF StampsOK
    <3>1. /\ \E s \in Slices : Stamped(i, s)
          /\ buckets[i].expiresAt <= clock + MaxSkew
      BY DEF RingInv, StampsOK
    <3>2. \E s \in Slices : Stamped(i, s)'
      BY <2>1, <3>1 DEF Stamped
    <3> QED BY <1>2, <1>3, <1>4, <2>1, <3>1, <3>2
  <2> QED BY <1>1, <2>1, <2>2 DEF RingInv, NothingAtEpoch, NewestWins
<1> QED BY <1>6, <1>7 DEF Next, OtherStep

(* For any timestamps, a slot holds the newest slice it received a search  *)
(* for, stamped no further ahead than the skew.                            *)
THEOREM RingInvariant == Spec => []RingInv
<1>1. Init => RingInv
  BY RingInit
<1>2. RingInv /\ [Next]_vars => RingInv'
  BY RingStep
<1> QED BY <1>1, <1>2, PTL DEF Spec

-----------------------------------------------------------------------------
(* What the ring keeps, whatever the timestamps.                           *)

(* Only a slice a full turn newer takes a slot from the slice that has     *)
(* it.                                                                     *)
LEMMA RetainedFromRing == RingInv => Retained
<1> SUFFICES ASSUME RingInv, NEW q \in Queries, NEW s \in Slices,
                    accepted[q][s] > 0,
                    s * BucketSec + NumBuckets * BucketSec > clock + MaxSkew
             PROVE  buckets[s % NumBuckets].expiresAt = s * BucketSec
  BY DEF Retained
<1> DEFINE i == s % NumBuckets
<1>1. /\ NumBuckets \in Nat \ {0} /\ BucketSec \in Nat \ {0}
      /\ s \in Nat
      /\ clock + MaxSkew \in Nat
  BY RingShape, ClockAssumption DEF RingInv, TypeOK, Slices
<1>2. i \in Slots
  BY <1>1, Z3 DEF Slots
<1>3. PICK t \in Slices : Stamped(i, t)
  BY <1>2 DEF RingInv, StampsOK
<1>4. t \in Nat /\ s * BucketSec \in Nat /\ t * BucketSec \in Nat
      /\ NumBuckets * BucketSec \in Nat
  BY <1>1, MulOrder DEF Slices
<1>5. s * BucketSec <= t * BucketSec
  BY <1>3 DEF RingInv, NewestWins, Stamped
<1>6. t * BucketSec <= clock + MaxSkew
  BY <1>2, <1>3 DEF RingInv, StampsOK, Stamped
<1>7. ~(s * BucketSec < t * BucketSec)
  <2> SUFFICES ASSUME s * BucketSec < t * BucketSec PROVE FALSE
    OBVIOUS
  <2>1. s < t
    BY <1>1, <1>4, MulOrder
  <2>2. s % NumBuckets = t % NumBuckets
    BY <1>1, <1>3, <2>1 DEF Stamped
  <2>3. s * BucketSec + NumBuckets * BucketSec <= t * BucketSec
    BY <1>1, <1>4, <2>1, <2>2, SameSlotStamps
  <2> QED BY <1>1, <1>4, <1>6, <2>3
<1> QED BY <1>3, <1>4, <1>5, <1>7 DEF Stamped

(* A slice that received a search keeps its bucket until a search a full   *)
(* turn of the ring newer is possible, for any lateness.                   *)
THEOREM SlicesRetained == Spec => []Retained
BY RingInvariant, RetainedFromRing, PTL

(* What a step does to one bucket. *)
LEMMA RingAdvancesStep ==
  ASSUME RingInv, [Next]_vars, NEW i \in Slots
  PROVE  \/ buckets[i].expiresAt < buckets'[i].expiresAt
         \/ /\ buckets[i].expiresAt = buckets'[i].expiresAt
            /\ \A q \in Queries : buckets[i].counters[q] <= buckets'[i].counters[q]
<1>1. TypeOK /\ buckets[i].counters \in [Queries -> Nat]
  BY DEF RingInv, TypeOK
<1>2. \A q \in Queries : buckets[i].counters[q] \in Nat
  BY <1>1
<1>3. CASE Add
  <2>1. PICK q \in Queries, ts \in (clock - MaxLate) .. (clock + MaxSkew) :
            AddQuery(q, ts)
    BY <1>3 DEF Add
  <2>2. CASE i # SlotOf(ts)
    <3>1. buckets'[i] = buckets[i]
      BY <1>1, <2>1, <2>2, AddEffect
    <3> QED BY <1>2, <3>1
  <2>3. CASE i = SlotOf(ts) /\ buckets[i].expiresAt < StampOf(ts)
    BY <1>1, <2>1, <2>3, AddEffect
  <2>4. CASE i = SlotOf(ts) /\ ~(buckets[i].expiresAt < StampOf(ts))
    <3>1. /\ buckets'[i].expiresAt = buckets[i].expiresAt
          /\ \A y \in Queries :
                buckets'[i].counters[y] = IF y = q THEN buckets[i].counters[y] + 1
                                          ELSE buckets[i].counters[y]
      BY <1>1, <2>1, <2>4, AddEffect
    <3>2. \A y \in Queries : buckets[i].counters[y] <= buckets'[i].counters[y]
      BY <1>2, <3>1
    <3> QED BY <3>1, <3>2
  <2> QED BY <2>2, <2>3, <2>4
<1>4. CASE OtherStep
  BY <1>1, <1>2, <1>4, OtherStepEffect
<1> QED BY <1>3, <1>4 DEF Next, OtherStep

(* No call of Add, however late its timestamp, turns the ring back or      *)
(* takes away a count of a slice that stays.                               *)
THEOREM NeverTurnsBack == Spec => RingAdvances
<1>1. RingInv /\ [Next]_vars =>
        \A i \in Slots :
           \/ buckets[i].expiresAt < buckets'[i].expiresAt
           \/ /\ buckets[i].expiresAt = buckets'[i].expiresAt
              /\ \A q \in Queries : buckets[i].counters[q] <= buckets'[i].counters[q]
  BY RingAdvancesStep
<1> QED BY <1>1, RingInvariant, PTL DEF Spec, RingAdvances

-----------------------------------------------------------------------------
(* What the ring counts when no search is later than it absorbs.           *)

(* Under OnTime a search never meets a bucket stamped with a later slice.  *)
LEMMA NeverTooLate ==
  ASSUME OnTime, RingInv, NEW ts \in (clock - MaxLate) .. (clock + MaxSkew)
  PROVE  ~(StampOf(ts) < buckets[SlotOf(ts)].expiresAt)
<1> SUFFICES ASSUME StampOf(ts) < buckets[SlotOf(ts)].expiresAt PROVE FALSE
  OBVIOUS
<1> DEFINE s == SliceOf(ts)
           i == SlotOf(ts)
<1>1. /\ NumBuckets \in Nat \ {0} /\ BucketSec \in Nat \ {0}
      /\ clock \in Nat /\ MaxSkew \in Nat /\ MaxLate \in Nat
  BY RingShape, ClockAssumption DEF RingInv, TypeOK
<1>2. /\ s \in Nat /\ i \in Slots /\ i = s % NumBuckets
      /\ StampOf(ts) = s * BucketSec
      /\ ts \in Nat
      /\ ts < s * BucketSec + BucketSec
  BY TimestampSlice DEF RingInv
<1>3. PICK t \in Slices : Stamped(i, t)
  BY <1>2 DEF RingInv, StampsOK
<1>4. /\ t \in Nat
      /\ s * BucketSec \in Nat /\ t * BucketSec \in Nat
      /\ NumBuckets * BucketSec \in Nat
  BY <1>1, <1>2, MulOrder DEF Slices
<1>5. s * BucketSec < t * BucketSec /\ t * BucketSec <= clock + MaxSkew
  BY <1>2, <1>3 DEF RingInv, StampsOK, Stamped
<1> HIDE DEF s, i
<1>6. s < t
  BY <1>1, <1>2, <1>4, <1>5, MulOrder
<1>7. s % NumBuckets = t % NumBuckets
  BY <1>2, <1>3, <1>6, <1>4 DEF Stamped
<1>8. s * BucketSec + NumBuckets * BucketSec <= t * BucketSec
  BY <1>1, <1>2, <1>4, <1>6, <1>7, SameSlotStamps
<1>9. (NumBuckets - 1) * BucketSec = NumBuckets * BucketSec - BucketSec
  BY <1>1, Z3
<1>10. MaxLate + MaxSkew <= NumBuckets * BucketSec - BucketSec
  BY <1>9 DEF OnTime
<1>11. clock - MaxLate <= ts
  BY <1>1
<1> QED BY <1>1, <1>2, <1>4, <1>5, <1>8, <1>10, <1>11

(* Unused buckets are exact, *)
LEMMA SliceExactInit == Init => SliceExact
<1> SUFFICES ASSUME Init, NEW i \in Slots, NEW q \in Queries
             PROVE  buckets[i].counters[q]
                      = accepted[q][buckets[i].expiresAt \div BucketSec]
  BY DEF SliceExact
<1>1. buckets[i].expiresAt = 0 /\ buckets[i].counters[q] = 0
  BY DEF Init, NoCounts
<1>2. 0 \div BucketSec = 0 /\ 0 \in Slices
  BY EpochSlice, RingShape, DivMultiple
<1> QED BY <1>1, <1>2 DEF Init, NoHistory

(* and an Add that is not too late leaves them so. *)
LEMMA SliceExactStep ==
  ASSUME OnTime, RingInv, SliceExact, [Next]_vars
  PROVE  SliceExact'
<1> SUFFICES ASSUME NEW i \in Slots, NEW x \in Queries
             PROVE  buckets'[i].counters[x]
                      = accepted'[x][buckets'[i].expiresAt \div BucketSec]
  BY DEF SliceExact
<1>1. /\ TypeOK
      /\ NumBuckets \in Nat \ {0} /\ BucketSec \in Nat \ {0}
  BY RingShape DEF RingInv
<1>2. PICK t \in Slices : Stamped(i, t)
  BY DEF RingInv, StampsOK
<1>3. t \in Nat /\ buckets[i].expiresAt = t * BucketSec
  BY <1>2 DEF Slices, Stamped
<1>4. buckets[i].expiresAt \div BucketSec = t
  BY <1>1, <1>3, DivMultiple
<1>5. buckets[i].counters[x] = accepted[x][t]
  BY <1>4 DEF SliceExact
<1>6. CASE OtherStep
  BY <1>1, <1>4, <1>5, <1>6, OtherStepEffect
<1>7. CASE Add
  <2>1. PICK q \in Queries, ts \in (clock - MaxLate) .. (clock + MaxSkew) :
            AddQuery(q, ts)
    BY <1>7 DEF Add
  <2> DEFINE s == SliceOf(ts)
  <2>2. /\ s \in Slices /\ s \in Nat
        /\ StampOf(ts) = s * BucketSec
        /\ StampOf(ts) \div BucketSec = s
        /\ SlotOf(ts) = s % NumBuckets
    BY <1>1, TimestampSlice, DivMultiple
  <2> HIDE DEF s
  <2>3. CASE i # SlotOf(ts)
    (* Another bucket: its slice is another one, or unused. *)
    <3>1. buckets'[i] = buckets[i]
      BY <1>1, <2>1, <2>3, AddEffect
    <3>2. t # s
      <4>1. s # 0
        BY <1>1, TimestampSlice DEF s
      <4> QED BY <1>2, <2>2, <2>3, <4>1 DEF Stamped
    <3>3. accepted'[x][t] = accepted[x][t]
      BY <1>1, <2>1, <3>2, HistoryEffect DEF s
    <3> QED BY <1>4, <1>5, <3>1, <3>3
  <2>4. CASE i = SlotOf(ts) /\ buckets[i].expiresAt < StampOf(ts)
    (* A new slice: nothing has been accepted for it before. *)
    <3>1. /\ buckets'[i].expiresAt \div BucketSec = s
          /\ buckets'[i].counters[x] = IF x = q THEN 1 ELSE 0
      <4>1. /\ buckets'[i].expiresAt = StampOf(ts)
            /\ \A y \in Queries :
                  buckets'[i].counters[y] = IF y = q THEN 1 ELSE 0
        BY <1>1, <2>1, <2>4, AddEffect
      <4> QED BY <2>2, <4>1
    <3>2. accepted[x][s] = 0
      <4>1. accepted[x][s] \in Nat
        BY <1>1, <2>2 DEF TypeOK
      <4>2. ~(accepted[x][s] > 0)
        <5>1. buckets[s % NumBuckets].expiresAt < s * BucketSec
          BY <2>2, <2>4
        <5>2. buckets[s % NumBuckets].expiresAt \in Nat /\ s * BucketSec \in Nat
          BY <1>1, <2>2, <2>4, <1>3, MulOrder
        <5> QED BY <2>2, <5>1, <5>2 DEF RingInv, NewestWins
      <4> QED BY <4>1, <4>2
    <3>3. accepted'[x][s] = IF x = q THEN 1 ELSE 0
      BY <1>1, <2>1, <2>2, <3>2, HistoryEffect DEF s
    <3> QED BY <3>1, <3>3
  <2>5. CASE i = SlotOf(ts) /\ ~(buckets[i].expiresAt < StampOf(ts))
    (* The slice the bucket holds: one more in it, one more accepted. *)
    <3>1. t = s
      <4>1. buckets[i].expiresAt = StampOf(ts)
        <5>1. ~(StampOf(ts) < buckets[i].expiresAt)
          BY <2>5, NeverTooLate
        <5>2. StampOf(ts) \in Nat /\ buckets[i].expiresAt \in Nat
          BY <1>1, TimestampSlice DEF TypeOK
        <5> QED BY <2>5, <5>1, <5>2
      <4> QED BY <1>4, <2>2, <4>1
    <3>2. /\ buckets'[i].expiresAt \div BucketSec = s
          /\ buckets'[i].counters[x] = IF x = q THEN buckets[i].counters[x] + 1
                                       ELSE buckets[i].counters[x]
      <4>1. /\ buckets'[i].expiresAt = buckets[i].expiresAt
            /\ \A y \in Queries :
                  buckets'[i].counters[y] = IF y = q THEN buckets[i].counters[y] + 1
                                            ELSE buckets[i].counters[y]
        BY <1>1, <2>1, <2>5, AddEffect
      <4> QED BY <1>4, <3>1, <4>1
    <3>3. accepted'[x][s] = IF x = q THEN accepted[x][s] + 1 ELSE accepted[x][s]
      BY <1>1, <2>1, <2>2, HistoryEffect DEF s
    <3> QED BY <1>5, <3>1, <3>2, <3>3
  <2> QED BY <2>3, <2>4, <2>5
<1> QED BY <1>6, <1>7 DEF Next, OtherStep

(* If no search is later than the ring absorbs, every bucket holds exactly *)
(* the searches of one slice, forever.                                     *)
THEOREM BucketsExact == OnTime => (Spec => []SliceExact)
<1> SUFFICES ASSUME OnTime PROVE Spec => []SliceExact
  OBVIOUS
<1>1. Init => SliceExact
  BY SliceExactInit
<1>2. RingInv /\ SliceExact /\ [Next]_vars => SliceExact'
  BY SliceExactStep
<1> QED BY <1>1, <1>2, RingInvariant, PTL DEF Spec

-----------------------------------------------------------------------------
(* The ranking.  sort.Slice finds an order whenever less has one to offer. *)

(* The entries of a Go map: numbers, and one entry for a query. *)
OneEntryEach(entries) ==
  /\ entries \subseteq [query : Nat, count : Nat]
  /\ \A x, y \in entries : x.query = y.query => x = y

(* less is a strict total order on the entries of a map. *)
LEMMA AheadOrder ==
  ASSUME NEW entries, OneEntryEach(entries)
  PROVE  /\ \A x \in entries : ~Ahead(x, x)
         /\ \A x, y \in entries : x # y => Ahead(x, y) \/ Ahead(y, x)
         /\ \A x, y \in entries : Ahead(x, y) => ~Ahead(y, x)
         /\ \A x, y, z \in entries : Ahead(x, y) /\ Ahead(y, z) => Ahead(x, z)
<1>1. \A x \in entries : x.query \in Nat /\ x.count \in Nat
  BY DEF OneEntryEach
<1> QED BY <1>1 DEF Ahead, OneEntryEach

(* Each entry has a place of its own: one behind those that are ahead.     *)
LEMMA Places ==
  ASSUME NEW entries, IsFiniteSet(entries), OneEntryEach(entries)
  PROVE  \E place \in Surjection(entries, 1 .. Cardinality(entries)) :
            \A x, y \in entries : Ahead(x, y) => place[x] < place[y]
<1> DEFINE n == Cardinality(entries)
           Leading(x) == {y \in entries : Ahead(y, x)}
           place == [x \in entries |-> Cardinality(Leading(x)) + 1]
<1>1. n \in Nat
  BY FS_CardinalityType
<1>2. ASSUME NEW x \in entries
      PROVE  /\ IsFiniteSet(Leading(x))
             /\ place[x] = Cardinality(Leading(x)) + 1
             /\ place[x] \in 1 .. n
  <2>1. x \notin Leading(x) /\ Leading(x) \subseteq entries
    BY AheadOrder
  <2>2. /\ IsFiniteSet(Leading(x)) /\ Cardinality(Leading(x)) <= n
        /\ Cardinality(Leading(x)) # n
    BY <2>1, FS_Subset
  <2>3. Cardinality(Leading(x)) \in Nat
    BY <2>2, FS_CardinalityType
  <2> QED BY <1>1, <2>2, <2>3
<1>3. ASSUME NEW x \in entries, NEW y \in entries, Ahead(x, y)
      PROVE  place[x] < place[y]
  <2>1. Leading(x) \subseteq Leading(y) /\ x \in Leading(y) /\ x \notin Leading(x)
    BY <1>3, AheadOrder
  <2>2. /\ Cardinality(Leading(x)) <= Cardinality(Leading(y))
        /\ Cardinality(Leading(x)) # Cardinality(Leading(y))
    BY <1>2, <2>1, FS_Subset
  <2>3. Cardinality(Leading(x)) \in Nat /\ Cardinality(Leading(y)) \in Nat
    BY <1>2, FS_CardinalityType
  <2> QED BY <1>2, <2>2, <2>3
<1>4. place \in Injection(entries, 1 .. n)
  <2>1. place \in [entries -> 1 .. n]
    BY <1>2
  <2>2. ASSUME NEW x \in entries, NEW y \in entries, place[x] = place[y] PROVE x = y
    <3>1. place[x] \in Int /\ place[y] \in Int
      BY <2>1
    <3> HIDE DEF place
    <3>2. ~(place[x] < place[y]) /\ ~(place[y] < place[x])
      BY <2>2, <3>1
    <3> QED BY <1>3, <3>2, AheadOrder
  <2> HIDE DEF place
  <2> QED BY <2>1, <2>2 DEF Injection, IsInjective
<1>5. IsFiniteSet(1 .. n) /\ Cardinality(1 .. n) = n
  BY <1>1, FS_Interval
<1> HIDE DEF place
<1>6. place \in Surjection(entries, 1 .. n)
  BY <1>4, <1>5, FS_Injection
<1> QED BY <1>3, <1>6

(* The sorted list holds every entry once, in the order of less.           *)
LEMMA SortedList ==
  ASSUME NEW entries, IsFiniteSet(entries), OneEntryEach(entries)
  PROVE  /\ Sorted(entries) \in [1 .. Cardinality(entries) -> entries]
         /\ \A i, j \in 1 .. Cardinality(entries) :
               i < j => Ahead(Sorted(entries)[i], Sorted(entries)[j])
         /\ \A x \in entries : \E i \in 1 .. Cardinality(entries) : Sorted(entries)[i] = x
<1> DEFINE n == Cardinality(entries)
           InOrder(list) == \A i, j \in 1 .. n : i < j => Ahead(list[i], list[j])
<1>1. n \in Nat
  BY FS_CardinalityType
<1>2. PICK place \in Surjection(entries, 1 .. n) :
         \A x, y \in entries : Ahead(x, y) => place[x] < place[y]
  BY Places
<1>3. place \in [entries -> 1 .. n]
  BY <1>2 DEF Surjection
<1>4. \A i \in 1 .. n : \E x \in entries : place[x] = i
  BY <1>2 DEF Surjection
<1> DEFINE ranked == [i \in 1 .. n |-> CHOOSE x \in entries : place[x] = i]
<1>5. \A i \in 1 .. n : ranked[i] \in entries /\ place[ranked[i]] = i
  BY <1>4
<1>6. ranked \in [1 .. n -> entries]
  BY <1>5
<1> HIDE DEF ranked
<1>7. ASSUME NEW i \in 1 .. n, NEW j \in 1 .. n, i < j
      PROVE  Ahead(ranked[i], ranked[j])
  <2>1. /\ ranked[i] \in entries /\ ranked[j] \in entries
        /\ place[ranked[i]] = i /\ place[ranked[j]] = j
    BY <1>5
  <2>2. ~Ahead(ranked[j], ranked[i])
    BY <1>1, <1>2, <1>7, <2>1
  <2>3. ranked[i] # ranked[j]
    BY <1>1, <1>7, <2>1
  <2> QED BY <2>1, <2>2, <2>3, AheadOrder
<1>8. InOrder(ranked)
  BY <1>7
<1>9. Sorted(entries) = CHOOSE list \in [1 .. n -> entries] : InOrder(list)
  BY DEF Sorted
<1>10. PICK list : list = Sorted(entries)
  OBVIOUS
<1>11. list \in [1 .. n -> entries] /\ InOrder(list)
  <2> HIDE DEF InOrder
  <2> QED BY <1>6, <1>8, <1>9, <1>10
<1>12. list \in Injection(1 .. n, entries)
  <2>1. ASSUME NEW i \in 1 .. n, NEW j \in 1 .. n, list[i] = list[j] PROVE i = j
    <3>1. ~Ahead(list[i], list[j]) /\ ~Ahead(list[j], list[i])
      BY <1>11, <2>1, AheadOrder
    <3>2. ~(i < j) /\ ~(j < i)
      BY <1>11, <3>1
    <3> QED BY <1>1, <3>2
  <2> QED BY <1>11, <2>1 DEF Injection, IsInjective
<1>13. IsFiniteSet(1 .. n) /\ Cardinality(1 .. n) = n
  BY <1>1, FS_Interval
<1>14. list \in Surjection(1 .. n, entries)
  BY <1>12, <1>13, FS_Injection
<1> QED BY <1>10, <1>11, <1>14 DEF Surjection

(* The smaller of two numbers, as FiniteSetsExt defines it. *)
LEMMA SmallerOf ==
  ASSUME NEW a \in Int, NEW b \in Int
  PROVE  Window!Min({a, b}) = IF a <= b THEN a ELSE b
<1>1. PICK m \in {a, b} : \A y \in {a, b} : m <= y
  BY SMT
<1>2. /\ Window!Min({a, b}) \in {a, b}
      /\ \A y \in {a, b} : Window!Min({a, b}) <= y
  BY <1>1 DEF Window!Min
<1> QED BY <1>2

(* The list a worker publishes is the exact top of what it counted: as     *)
(* long as there are queries and room for them, ordered by less, and       *)
(* nothing left out belongs in it.                                         *)
THEOREM TopIsExact ==
  ASSUME NEW counts \in [Queries -> Nat],
         IsFiniteSet({q \in Queries : counts[q] > 0})
  PROVE  Window!IsTopOf(SortTop(Counted(counts), TopLimit), counts)
<1> DEFINE found == {q \in Queries : counts[q] > 0}
           Entry(q) == [query |-> q, count |-> counts[q]]
           entries == {Entry(q) : q \in found}
           n == Cardinality(entries)
           top == SortTop(Counted(counts), TopLimit)
<1>1. /\ \A q \in found : q \in Queries /\ q \in Nat /\ counts[q] \in Nat
      /\ TopLimit \in Nat /\ TopLimit >= 1
  BY ClockAssumption, ConfigAssumption
<1>2. IsFiniteSet(entries) /\ n = Cardinality(found)
  <2> DEFINE entry == [q \in found |-> Entry(q)]
  <2>1. entry \in Surjection(found, entries)
    BY DEF Surjection
  <2>2. entry \in Injection(found, entries)
    BY DEF Injection, IsInjective
  <2> HIDE DEF entry, entries
  <2> QED BY <2>1, <2>2, FS_Surjection
<1>3. OneEntryEach(entries)
  BY <1>1 DEF OneEntryEach
<1>4. n \in Nat
  BY <1>2, FS_CardinalityType
<1>5. {[query |-> q, count |-> Counted(counts)[q]] : q \in DOMAIN Counted(counts)} = entries
  BY DEF Counted
<1>6. PICK list : list = Sorted(entries)
  OBVIOUS
<1>7. top = IF Len(list) > TopLimit THEN SubSeq(list, 1, TopLimit) ELSE list
  BY <1>5, <1>6 DEF SortTop
<1>8. /\ list \in [1 .. n -> entries]
      /\ \A i, j \in 1 .. n : i < j => Ahead(list[i], list[j])
      /\ \A x \in entries : \E i \in 1 .. n : list[i] = x
  BY <1>2, <1>3, <1>6, SortedList
<1> HIDE DEF top, n
<1>9. list \in Seq(entries) /\ Len(list) = n
  <2>1. list \in Seq(entries)
    BY <1>4, <1>8, SeqDef
  <2>2. Len(list) \in Nat /\ DOMAIN list = 1 .. Len(list)
    BY <2>1, LenProperties
  <2>3. \A x : x \in 1 .. n <=> x \in 1 .. Len(list)
    BY <1>8, <2>2
  <2>4. PICK k \in Nat : k = Len(list)
    BY <2>2
  <2>5. (n \in 1 .. n <=> n \in 1 .. k) /\ (k \in 1 .. n <=> k \in 1 .. k)
    BY <2>3, <2>4
  <2>6. k = n
    BY <1>4, <2>5
  <2> QED BY <2>1, <2>4, <2>6
<1> DEFINE m == IF n > TopLimit THEN TopLimit ELSE n
<1>10. /\ m \in Nat /\ m <= n
       /\ Len(top) = m
       /\ \A i \in 1 .. m : i \in 1 .. n /\ top[i] = list[i]
  <2>1. CASE n > TopLimit
    <3>1. top = SubSeq(list, 1, TopLimit)
      BY <1>7, <1>9, <2>1
    <3>2. /\ Len(top) = TopLimit
          /\ \A i \in 1 .. TopLimit : top[i] = list[i]
      BY <1>1, <1>4, <1>9, <2>1, <3>1, SubSeqProperties
    <3> QED BY <1>1, <1>4, <2>1, <3>2
  <2>2. CASE ~(n > TopLimit)
    BY <1>4, <1>7, <1>9, <2>2
  <2> QED BY <2>1, <2>2
<1> HIDE DEF m
<1>11. \A i \in 1 .. n : /\ list[i].query \in found
                         /\ list[i].count = counts[list[i].query]
  BY <1>8
<1> DEFINE Before(p, q) == counts[p] > counts[q] \/ (counts[p] = counts[q] /\ p < q)
           listed == {top[i].query : i \in 1 .. Len(top)}
<1>12. \A i, j \in 1 .. n : i < j => Before(list[i].query, list[j].query)
  <2> SUFFICES ASSUME NEW i \in 1 .. n, NEW j \in 1 .. n, i < j
               PROVE  Before(list[i].query, list[j].query)
    OBVIOUS
  <2>1. Ahead(list[i], list[j])
    BY <1>8
  <2> QED BY <1>11, <2>1 DEF Ahead
<1>13. Len(top) = Window!Min({TopLimit, Cardinality(found)})
  BY <1>1, <1>2, <1>4, <1>10, SmallerOf DEF m
<1>14. listed \subseteq found
  BY <1>10, <1>11
<1>15. \A i \in 1 .. Len(top) : top[i].count = counts[top[i].query]
  BY <1>10, <1>11
<1>16. \A i, j \in 1 .. Len(top) : i < j => Before(top[i].query, top[j].query)
  BY <1>10, <1>12
<1>17. ASSUME NEW p \in listed, NEW q \in found \ listed
       PROVE  Before(p, q)
  <2>1. PICK i \in 1 .. m : p = list[i].query
    BY <1>10
  <2>2. Entry(q) \in entries
    OBVIOUS
  <2>3. PICK j \in 1 .. n : list[j] = Entry(q)
    BY <1>8, <2>2
  <2>4. list[j].query = q
    BY <2>3
  <2>5. j \notin 1 .. m
    BY <1>10, <1>17, <2>4
  <2>6. i \in 1 .. n /\ i < j
    BY <1>4, <1>10, <2>5
  <2>7. Before(list[i].query, list[j].query)
    BY <1>12, <2>6
  <2> QED BY <2>1, <2>4, <2>7
<1>18. Window!Cardinality(found) = Cardinality(found)
  BY Zenon DEF Window!Cardinality, Cardinality
<1> QED BY <1>13, <1>14, <1>15, <1>16, <1>17, <1>18, Zenon DEF Window!IsTopOf, top

-----------------------------------------------------------------------------
(* Searches as sets, so that counts are cardinalities.                     *)

(* Every search of a history, as <<query, slice, number>>. *)
Searches(all) ==
  {z \in Queries \X Slices \X (Nat \ {0}) : z[3] <= all[z[1]][z[2]]}

(* The searches for q that h holds in the slots before n, of slices that   *)
(* start at or after from: what a walk of the ring that has come to slot n *)
(* can have met.                                                           *)
Walked(h, q, from, n) ==
  {x \in Window!SearchesFrom(h, q, from) : x[1] % NumBuckets < n}

(* The searches of one slice. *)
OfSlice(s, k) == {s} \X (1 .. k)

(* SearchesFrom, by its members. *)
LEMMA SearchesOf ==
  ASSUME NEW h, NEW q, NEW from, NEW x
  PROVE  x \in Window!SearchesFrom(h, q, from) <=>
           \E s \in Slices : s * BucketSec >= from /\ x \in OfSlice(s, h[q][s])
BY DEF Window!SearchesFrom, OfSlice

(* The same for what a walk has met. *)
LEMMA WalkedOf ==
  ASSUME NEW h, NEW q, NEW from, NEW n, NEW x
  PROVE  x \in Walked(h, q, from, n) <=>
           \E s \in Slices : /\ s * BucketSec >= from
                             /\ s % NumBuckets < n
                             /\ x \in OfSlice(s, h[q][s])
<1>1. \A s : x \in OfSlice(s, h[q][s]) => x[1] = s
  BY DEF OfSlice
<1> QED BY <1>1, SearchesOf DEF Walked

(* A slice has as many searches as were counted for it. *)
LEMMA SliceSize ==
  ASSUME NEW s, NEW k \in Nat
  PROVE  IsFiniteSet(OfSlice(s, k)) /\ Cardinality(OfSlice(s, k)) = k
<1> DEFINE f == [i \in 1 .. k |-> <<s, i>>]
<1>1. IsFiniteSet(1 .. k) /\ Cardinality(1 .. k) = k
  BY FS_Interval
<1>2. \A x : x \in OfSlice(s, k) <=> \E i \in 1 .. k : x = <<s, i>>
  BY DEF OfSlice
<1>3. f \in [1 .. k -> OfSlice(s, k)]
  BY <1>2
<1>4. /\ \A x \in OfSlice(s, k) : \E i \in 1 .. k : f[i] = x
      /\ \A i, j \in 1 .. k : f[i] = f[j] => i = j
  BY <1>2
<1> HIDE DEF f
<1>5. f \in Surjection(1 .. k, OfSlice(s, k)) /\ f \in Injection(1 .. k, OfSlice(s, k))
  BY <1>3, <1>4 DEF Surjection, Injection, IsInjective
<1> QED BY <1>1, <1>5, FS_Surjection

(* A history of searches that were made holds no more for a query than     *)
(* calls of Add.                                                           *)
LEMMA WalkedFinite ==
  ASSUME NEW all, IsFiniteSet(Searches(all)),
         NEW h, NEW q \in Queries, NEW from, NEW n,
         \A s \in Slices : h[q][s] \in Nat /\ all[q][s] \in Nat
                           /\ h[q][s] <= all[q][s]
  PROVE  /\ IsFiniteSet(Walked(h, q, from, n))
         /\ Cardinality(Walked(h, q, from, n)) \in Nat
         /\ Cardinality(Walked(h, q, from, n)) <= Cardinality(Searches(all))
<1> DEFINE W == Walked(h, q, from, n)
           f == [x \in W |-> <<q, x[1], x[2]>>]
<1>1. ASSUME NEW x \in W
      PROVE  /\ x = <<x[1], x[2]>>
             /\ x[1] \in Slices /\ x[2] \in Nat \ {0}
             /\ x[2] <= all[q][x[1]]
  <2>1. PICK s \in Slices : x \in OfSlice(s, h[q][s])
    BY WalkedOf
  <2>2. PICK k \in 1 .. h[q][s] : x = <<s, k>>
    BY <2>1 DEF OfSlice
  <2>3. /\ h[q][s] \in Nat /\ all[q][s] \in Nat /\ h[q][s] <= all[q][s]
    OBVIOUS
  <2> QED BY <2>2, <2>3
<1> HIDE DEF W
<1>2. ASSUME NEW x \in W PROVE f[x] \in Searches(all)
  BY <1>1 DEF Searches
<1>3. f \in Injection(W, Searches(all))
  <2>1. f \in [W -> Searches(all)]
    BY <1>2
  <2>2. ASSUME NEW x \in W, NEW y \in W, f[x] = f[y] PROVE x = y
    BY <1>1, <2>2
  <2> HIDE DEF f
  <2> QED BY <2>1, <2>2 DEF Injection, IsInjective
<1> HIDE DEF f
<1>4. IsFiniteSet(W) /\ Cardinality(W) <= Cardinality(Searches(all))
  BY <1>3, FS_Injection
<1> QED BY <1>4, FS_CardinalityType DEF W

(* Only finitely many queries were ever searched for. *)
LEMMA AskedFinite ==
  ASSUME IsFiniteSet(Searches(accepted))
  PROVE  IsFiniteSet({z[1] : z \in Searches(accepted)})
<1> DEFINE f == [z \in Searches(accepted) |-> z[1]]
           asked == {z[1] : z \in Searches(accepted)}
<1>1. f \in Surjection(Searches(accepted), asked)
  BY DEF Surjection
<1> HIDE DEF f, asked
<1>2. IsFiniteSet(asked)
  BY <1>1, FS_Surjection
<1> QED BY <1>2 DEF asked

(* A history that holds more, back to an earlier second. *)
LEMMA WalkedGrows ==
  ASSUME NEW h, NEW g, NEW q, NEW from \in Int, NEW to \in Int, to <= from, NEW n,
         \A s \in Slices : h[q][s] \in Nat /\ g[q][s] \in Nat /\ h[q][s] <= g[q][s],
         IsFiniteSet(Walked(g, q, to, n))
  PROVE  /\ Cardinality(Walked(h, q, from, n)) <= Cardinality(Walked(g, q, to, n))
         /\ Cardinality(Walked(h, q, from, n)) \in Nat
<1>1. Walked(h, q, from, n) \subseteq Walked(g, q, to, n)
  <2> SUFFICES ASSUME NEW x \in Walked(h, q, from, n) PROVE x \in Walked(g, q, to, n)
    OBVIOUS
  <2>1. PICK s \in Slices : /\ s * BucketSec >= from
                            /\ s % NumBuckets < n
                            /\ x \in OfSlice(s, h[q][s])
    BY WalkedOf
  <2>2. x \in OfSlice(s, g[q][s])
    <3>1. h[q][s] \in Nat /\ g[q][s] \in Nat /\ h[q][s] <= g[q][s]
      OBVIOUS
    <3> QED BY <2>1, <3>1 DEF OfSlice
  <2>3. s * BucketSec >= to
    <3>1. s * BucketSec \in Nat
      BY RingShape, MulOrder DEF Slices
    <3> QED BY <2>1, <3>1
  <2> QED BY <2>1, <2>2, <2>3, WalkedOf
<1> QED BY <1>1, FS_Subset, FS_CardinalityType

(* The whole ring lies inside the window. *)
LEMMA RingInsideWindow ==
  /\ NumBuckets * BucketSec \in Nat /\ WindowSec \in Nat
  /\ NumBuckets * BucketSec <= WindowSec
<1>1. NumBuckets * BucketSec <= WindowSec
  <2>1. /\ Second \in Nat \ {0} /\ BucketDuration \in Nat \ {0}
        /\ WindowDuration \in Nat
    BY ConfigAssumption
  <2>2. (WindowDuration \div BucketDuration) * (BucketDuration \div Second)
          <= WindowDuration \div Second
    BY <2>1, RoundingDown
  <2> QED BY <2>2 DEF NumBuckets, BucketSec, WindowSec
<1>2. NumBuckets * BucketSec \in Nat
  BY RingShape, MulOrder
<1>3. WindowSec \in Nat
  BY ConfigAssumption, DivBounds DEF WindowSec
<1> QED BY <1>1, <1>2, <1>3

(* What a slot holds: the searches of one slice of its own, or none.       *)
LEMMA SlotHolds ==
  ASSUME OnTime, RingInv, SliceExact, NEW n \in Slots
  PROVE  \E t \in Slices :
            /\ buckets[n].expiresAt = t * BucketSec
            /\ t = 0 \/ t % NumBuckets = n
            /\ \A q \in Queries : buckets[n].counters[q] = accepted[q][t]
<1>1. PICK t \in Slices : Stamped(n, t)
  BY DEF RingInv, StampsOK
<1>2. t \in Nat /\ BucketSec \in Nat \ {0}
  BY RingShape DEF Slices
<1>3. buckets[n].expiresAt \div BucketSec = t
  BY <1>1, <1>2, DivMultiple DEF Stamped
<1> QED BY <1>1, <1>3 DEF Stamped, SliceExact

Covered == NumBuckets * BucketSec - MaxSkew

(* What a visit of slot n at the present clock adds to a count, for a      *)
(* Snapshot whose now is not in the future.                                *)
Gain(n, q, now) ==
  IF buckets[n].expiresAt >= now - WindowSec THEN buckets[n].counters[q] ELSE 0

(* A visit counts nothing but searches of the slot that are in the window. *)
LEMMA VisitAtMost ==
  ASSUME OnTime, RingInv, SliceExact, IsFiniteSet(Searches(accepted)),
         NEW n \in Slots, NEW q \in Queries, NEW now \in Int
  PROVE  Cardinality(Walked(accepted, q, now - WindowSec, n)) + Gain(n, q, now)
           <= Cardinality(Walked(accepted, q, now - WindowSec, n + 1))
<1> DEFINE before == Walked(accepted, q, now - WindowSec, n)
           after == Walked(accepted, q, now - WindowSec, n + 1)
<1>1. PICK t \in Slices : /\ buckets[n].expiresAt = t * BucketSec
                          /\ t = 0 \/ t % NumBuckets = n
                          /\ buckets[n].counters[q] = accepted[q][t]
  BY SlotHolds
<1>2. \A s \in Slices : accepted[q][s] \in Nat /\ accepted[q][s] <= accepted[q][s]
  BY DEF RingInv, TypeOK
<1>3. /\ IsFiniteSet(before) /\ Cardinality(before) \in Nat
      /\ IsFiniteSet(after) /\ Cardinality(after) \in Nat
  BY <1>2, WalkedFinite
<1>4. /\ n \in Nat /\ NumBuckets \in Nat \ {0}
      /\ \A s \in Slices : s \in Nat /\ s % NumBuckets \in Nat
  <2>1. NumBuckets \in Nat \ {0}
    BY RingShape
  <2>2. \A s \in Slices : s \in Nat
    BY DEF Slices
  <2>3. \A s \in Slices : s % NumBuckets \in Nat
    BY <2>1, <2>2, Z3
  <2> QED BY <2>1, <2>2, <2>3 DEF Slots
<1>5. before \subseteq after
  BY <1>4, WalkedOf
<1>6. CASE Gain(n, q, now) = 0
  <2> HIDE DEF before, after
  <2> QED BY <1>3, <1>5, <1>6, FS_Subset DEF before, after
<1>7. CASE Gain(n, q, now) # 0
  <2>1. /\ t * BucketSec >= now - WindowSec
        /\ Gain(n, q, now) = accepted[q][t]
        /\ accepted[q][t] # 0
    BY <1>1, <1>7 DEF Gain
  <2>2. t # 0
    BY <2>1 DEF RingInv, NothingAtEpoch
  <2> DEFINE new == OfSlice(t, accepted[q][t])
  <2>3. new \subseteq after
    BY <1>1, <1>4, <2>1, <2>2, WalkedOf
  <2>4. before \cap new = {}
    <3> SUFFICES ASSUME NEW x \in before, x \in new PROVE FALSE
      OBVIOUS
    <3>1. x[1] = t
      BY DEF OfSlice
    <3>2. x[1] % NumBuckets < n
      BY DEF Walked
    <3> QED BY <1>1, <1>4, <2>2, <3>1, <3>2
  <2>5. IsFiniteSet(new) /\ Cardinality(new) = accepted[q][t]
    BY <1>2, SliceSize
  <2> HIDE DEF before, after, new
  <2>6. before \cup new \subseteq after
    BY <1>5, <2>3
  <2>7. IsFiniteSet(before \cup new)
        /\ Cardinality(before \cup new) = Cardinality(before) + accepted[q][t]
    <3>1. Cardinality(before \cap new) = 0
      BY <2>4, FS_EmptySet
    <3>2. /\ IsFiniteSet(before \cup new)
          /\ Cardinality(before \cup new)
               = Cardinality(before) + Cardinality(new) - Cardinality(before \cap new)
      BY <1>3, <2>5, FS_Union
    <3> QED BY <1>2, <1>3, <2>5, <3>1, <3>2
  <2>8. Cardinality(before \cup new) <= Cardinality(after)
    BY <1>3, <2>6, FS_Subset
  <2> QED BY <2>1, <2>7, <2>8 DEF before, after
<1> QED BY <1>6, <1>7

(* A visit counts every search of the slot that h holds and that is still  *)
(* covered.                                                                *)
LEMMA VisitAtLeast ==
  ASSUME OnTime, RingInv, SliceExact, IsFiniteSet(Searches(accepted)),
         NEW n \in Slots, NEW q \in Queries, NEW now \in Int, now <= clock,
         NEW h,
         \A s \in Slices : h[q][s] \in Nat /\ h[q][s] <= accepted[q][s]
  PROVE  Cardinality(Walked(h, q, clock - Covered + 1, n + 1))
           <= Cardinality(Walked(h, q, clock - Covered + 1, n)) + Gain(n, q, now)
<1> DEFINE before == Walked(h, q, clock - Covered + 1, n)
           after == Walked(h, q, clock - Covered + 1, n + 1)
<1>1. PICK t \in Slices : /\ buckets[n].expiresAt = t * BucketSec
                          /\ t = 0 \/ t % NumBuckets = n
                          /\ buckets[n].counters[q] = accepted[q][t]
  BY SlotHolds
<1>2. \A s \in Slices : /\ accepted[q][s] \in Nat /\ h[q][s] \in Nat
                        /\ h[q][s] <= accepted[q][s]
  BY DEF RingInv, TypeOK
<1>3. /\ IsFiniteSet(before) /\ Cardinality(before) \in Nat
      /\ IsFiniteSet(after) /\ Cardinality(after) \in Nat
  BY <1>2, WalkedFinite
<1>4. /\ n \in Nat /\ NumBuckets \in Nat \ {0}
      /\ \A s \in Slices : s \in Nat /\ s % NumBuckets \in Nat /\ s * BucketSec \in Nat
  <2>1. NumBuckets \in Nat \ {0} /\ BucketSec \in Nat \ {0}
    BY RingShape
  <2>2. \A s \in Slices : s \in Nat
    BY DEF Slices
  <2>3. \A s \in Slices : s % NumBuckets \in Nat
    BY <2>1, <2>2, Z3
  <2> QED BY <2>1, <2>2, <2>3, MulOrder DEF Slots
<1>5. /\ clock \in Nat /\ MaxSkew \in Nat /\ NumBuckets * BucketSec \in Nat
      /\ WindowSec \in Nat /\ NumBuckets * BucketSec <= WindowSec
  BY RingInsideWindow, ClockAssumption DEF RingInv, TypeOK
<1> DEFINE new == OfSlice(t, h[q][t])
<1>6. ASSUME NEW x \in after, x \notin before
      PROVE  /\ x \in new
             /\ t * BucketSec >= now - WindowSec
  <2>1. PICK s \in Slices : /\ s * BucketSec >= clock - Covered + 1
                            /\ s % NumBuckets < n + 1
                            /\ x \in OfSlice(s, h[q][s])
    BY WalkedOf
  <2>2. s % NumBuckets = n
    <3>1. ~(s % NumBuckets < n)
      BY <1>6, <2>1, WalkedOf
    <3> QED BY <1>4, <2>1, <3>1
  <2>3. s * BucketSec + NumBuckets * BucketSec > clock + MaxSkew
    <3>1. s * BucketSec \in Nat
      BY <1>4
    <3> QED BY <1>5, <2>1, <3>1 DEF Covered
  <2>4. accepted[q][s] > 0
    <3>1. h[q][s] > 0
      BY <1>2, <2>1 DEF OfSlice
    <3> QED BY <1>2, <3>1
  <2>5. buckets[n].expiresAt = s * BucketSec
    BY <2>2, <2>3, <2>4, RetainedFromRing DEF Retained
  <2>6. s = t
    <3>1. (s * BucketSec) \div BucketSec = s /\ (t * BucketSec) \div BucketSec = t
      BY <1>4, RingShape, DivMultiple
    <3> QED BY <1>1, <2>5, <3>1
  <2>7. s * BucketSec >= now - WindowSec
    <3>1. s * BucketSec \in Nat
      BY <1>4
    <3> QED BY <1>5, <2>3, <3>1
  <2> QED BY <2>1, <2>6, <2>7
<1>7. CASE after \subseteq before
  <2>1. Cardinality(after) <= Cardinality(before)
    BY <1>3, <1>7, FS_Subset
  <2>2. Gain(n, q, now) \in Nat
    BY <1>1, <1>2 DEF Gain
  <2> HIDE DEF before, after
  <2> QED BY <1>3, <2>1, <2>2 DEF before, after
<1>8. CASE ~(after \subseteq before)
  <2>1. t * BucketSec >= now - WindowSec
    BY <1>6, <1>8
  <2>2. Gain(n, q, now) = accepted[q][t]
    BY <1>1, <2>1 DEF Gain
  <2>3. after \subseteq before \cup new
    BY <1>6
  <2>4. IsFiniteSet(new) /\ Cardinality(new) = h[q][t]
    BY <1>2, SliceSize
  <2> HIDE DEF before, after, new
  <2>5. /\ IsFiniteSet(before \cup new)
        /\ Cardinality(after) <= Cardinality(before \cup new)
    BY <1>3, <2>3, <2>4, FS_Union, FS_Subset
  <2>6. Cardinality(before \cup new) <= Cardinality(before) + h[q][t]
    <3>1. IsFiniteSet(before \cap new)
      BY <1>3, FS_Subset
    <3>2. Cardinality(before \cap new) \in Nat
      BY <3>1, FS_CardinalityType
    <3>3. Cardinality(before \cup new)
            = Cardinality(before) + Cardinality(new) - Cardinality(before \cap new)
      BY <1>3, <2>4, FS_Union
    <3> QED BY <1>2, <1>3, <2>4, <3>2, <3>3
  <2>7. Cardinality(before \cup new) \in Nat
    BY <2>5, FS_CardinalityType
  <2> QED BY <1>2, <1>3, <2>2, <2>5, <2>6, <2>7 DEF before, after
<1> QED BY <1>7, <1>8

-----------------------------------------------------------------------------
(* What a Snapshot under way knows.                                        *)

(* Every call of Add is one search. *)
Tallied == IsFiniteSet(Searches(accepted)) /\ Cardinality(Searches(accepted)) = adds

(* Nothing is forgotten, and the locals of a tick are dead between ticks.  *)
BaseKept ==
  /\ \A q \in Queries, s \in Slices : base[q][s] <= accepted[q][s]
  /\ phase = "idle" => snapNow = 0 /\ base = NoHistory

(* The counts so far lie between what was there in the slots walked when   *)
(* the Snapshot began, as far as still covered, and what is there now in   *)
(* the window.                                                             *)
CountsBounded ==
  phase # "idle" =>
    \A q \in Queries :
       /\ Cardinality(Walked(base, q, clock - Covered + 1, next)) <= result[q]
       /\ result[q] <= Cardinality(Walked(accepted, q, snapNow - WindowSec, next))

(* What is about to be stored is the list of the counts of the whole ring. *)
RenderedFromCounts ==
  phase = "rendered" =>
    /\ next = NumBuckets
    /\ envelope.data = SortTop(Counted(result), TopLimit)

ScanInv == Tallied /\ BaseKept /\ CountsBounded /\ RenderedFromCounts

(* A walk that has not begun has met nothing. *)
LEMMA NothingWalked ==
  ASSUME NEW h, NEW q, NEW from
  PROVE  Walked(h, q, from, 0) = {} /\ Cardinality(Walked(h, q, from, 0)) = 0
<1>1. \A s \in Slices : s \in Nat /\ s % NumBuckets \in Nat
  <2>1. NumBuckets \in Nat \ {0}
    BY RingShape
  <2>2. \A s \in Slices : s \in Nat
    BY DEF Slices
  <2> QED BY <2>1, <2>2, Z3
<1>2. Walked(h, q, from, 0) = {}
  BY <1>1, WalkedOf
<1> QED BY <1>2, FS_EmptySet

(* A worker that has not begun. *)
LEMMA ScanInit == Init => ScanInv
<1> SUFFICES ASSUME Init PROVE ScanInv
  OBVIOUS
<1>1. \A q \in Queries, s \in Slices : accepted[q][s] = 0 /\ base[q][s] = 0
  BY DEF Init, NoHistory
<1>2. Searches(accepted) = {}
  BY <1>1 DEF Searches
<1>3. Tallied
  BY <1>2, FS_EmptySet DEF Tallied, Init
<1>4. BaseKept
  BY <1>1 DEF BaseKept, Init
<1> QED BY <1>3, <1>4 DEF ScanInv, CountsBounded, RenderedFromCounts, Init

(* A call of Add is one search more; no other step makes one. *)
LEMMA TalliedStep ==
  ASSUME RingInv, Tallied, [Next]_vars
  PROVE  Tallied'
<1>1. TypeOK
  BY DEF RingInv
<1>2. CASE Add
  <2>1. PICK q \in Queries, ts \in (clock - MaxLate) .. (clock + MaxSkew) :
            AddQuery(q, ts)
    BY <1>2 DEF Add
  <2> DEFINE s == SliceOf(ts)
             k == accepted[q][s] + 1
             new == <<q, s, k>>
  <2>2. s \in Slices
    BY <1>1, TimestampSlice
  <2>3. accepted[q][s] \in Nat
    BY <1>1, <2>2 DEF TypeOK
  <2>4. \A x \in Queries, y \in Slices :
           /\ accepted[x][y] \in Nat
           /\ accepted'[x][y] = IF x = q /\ y = s THEN accepted[x][y] + 1
                                ELSE accepted[x][y]
    BY <1>1, <2>1, HistoryEffect DEF TypeOK
  <2> HIDE DEF s
  <2>5. Searches(accepted') = Searches(accepted) \cup {new}
    <3>1. ASSUME NEW z \in Queries \X Slices \X (Nat \ {0})
          PROVE  z[3] <= accepted'[z[1]][z[2]] <=>
                   z[3] <= accepted[z[1]][z[2]] \/ z = new
      <4>1. /\ z[1] \in Queries /\ z[2] \in Slices /\ z[3] \in Nat /\ z[3] >= 1
            /\ z = <<z[1], z[2], z[3]>>
        OBVIOUS
      <4>2. CASE z[1] = q /\ z[2] = s
        BY <2>3, <2>4, <4>1, <4>2
      <4>3. CASE ~(z[1] = q /\ z[2] = s)
        <5>1. accepted'[z[1]][z[2]] = accepted[z[1]][z[2]]
          BY <2>4, <4>1, <4>3
        <5>2. z # new
          BY <4>1, <4>3
        <5> QED BY <5>1, <5>2
      <4> QED BY <4>2, <4>3
    <3>2. new \in Queries \X Slices \X (Nat \ {0})
      BY <2>2, <2>3
    <3> QED BY <3>1, <3>2 DEF Searches
  <2>6. new \notin Searches(accepted)
    BY <2>3 DEF Searches
  <2>7. adds' = adds + 1
    BY <2>1 DEF AddQuery
  <2> HIDE DEF new
  <2>8. /\ IsFiniteSet(Searches(accepted'))
        /\ Cardinality(Searches(accepted')) = Cardinality(Searches(accepted)) + 1
    BY <2>5, <2>6, FS_AddElement DEF Tallied
  <2> QED BY <2>7, <2>8 DEF Tallied
<1>3. CASE OtherStep
  <2>1. accepted' = accepted
    BY <1>1, <1>3, OtherStepEffect
  <2>2. adds' = adds
    BY <1>3 DEF OtherStep, BeginSnapshot, VisitBucket, Render, Store, ClockTick, vars
  <2> QED BY <2>1, <2>2 DEF Tallied, Searches
<1> QED BY <1>2, <1>3 DEF Next, OtherStep

(* Searches are added while a Snapshot is under way, never removed. *)
LEMMA BaseKeptStep ==
  ASSUME RingInv, BaseKept, [Next]_vars
  PROVE  BaseKept'
<1>1. TypeOK
  BY DEF RingInv
<1>2. \A q \in Queries, s \in Slices : /\ accepted[q][s] \in Nat
                                       /\ base[q][s] \in Nat
                                       /\ base[q][s] <= accepted[q][s]
  BY <1>1 DEF TypeOK, BaseKept
<1>3. CASE Add
  <2>1. PICK q \in Queries, ts \in (clock - MaxLate) .. (clock + MaxSkew) :
            AddQuery(q, ts)
    BY <1>3 DEF Add
  <2>2. \A x \in Queries, y \in Slices :
           accepted'[x][y] = IF x = q /\ y = SliceOf(ts) THEN accepted[x][y] + 1
                             ELSE accepted[x][y]
    BY <1>1, <2>1, HistoryEffect
  <2>3. base' = base /\ phase' = phase /\ snapNow' = snapNow
    BY <2>1 DEF AddQuery
  <2>4. \A x \in Queries, y \in Slices : base[x][y] <= accepted'[x][y]
    BY <1>2, <2>2
  <2> QED BY <2>3, <2>4 DEF BaseKept
<1>4. CASE BeginSnapshot
  BY <1>2, <1>4 DEF BeginSnapshot, BaseKept
<1>5. CASE Store
  BY <1>2, <1>5 DEF Store, BaseKept, NoHistory
<1>6. CASE VisitBucket \/ Render \/ ClockTick \/ UNCHANGED vars
  BY <1>6 DEF VisitBucket, Render, ClockTick, vars, BaseKept
<1> QED BY <1>3, <1>4, <1>5, <1>6 DEF Next

(* The counts stay within their bounds: a search that comes in meanwhile   *)
(* can only raise the upper one, the clock can only lower the lower one,   *)
(* and a visit raises both by no more and no less than it has to.          *)
LEMMA CountsStep ==
  ASSUME OnTime, RingInv, SliceExact, Tallied, BaseKept, CountsBounded, [Next]_vars,
         RingInv', Tallied', BaseKept'
  PROVE  CountsBounded'
<1> SUFFICES ASSUME phase' # "idle", NEW q \in Queries
             PROVE  /\ Cardinality(Walked(base', q, clock' - Covered + 1, next'))
                         <= result'[q]
                    /\ result'[q] <=
                         Cardinality(Walked(accepted', q, snapNow' - WindowSec, next'))
  BY DEF CountsBounded, Covered
<1>1. /\ \A s \in Slices : /\ accepted[q][s] \in Nat /\ base[q][s] \in Nat
                           /\ base[q][s] <= accepted[q][s]
                           /\ accepted[q][s] <= accepted[q][s]
      /\ \A s \in Slices : /\ accepted'[q][s] \in Nat /\ base'[q][s] \in Nat
                           /\ base'[q][s] <= accepted'[q][s]
                           /\ accepted'[q][s] <= accepted'[q][s]
  BY DEF RingInv, TypeOK, BaseKept
<1>2. IsFiniteSet(Searches(accepted)) /\ IsFiniteSet(Searches(accepted'))
  BY DEF Tallied
<1>3. /\ clock \in Nat /\ clock' \in Nat /\ snapNow \in Nat /\ snapNow <= clock
      /\ result[q] \in Nat /\ next \in Nat /\ next <= NumBuckets
      /\ WindowSec \in Nat /\ Covered \in Int /\ NumBuckets \in Nat \ {0}
  BY RingInsideWindow, RingShape, ClockAssumption DEF RingInv, TypeOK, Covered
<1> DEFINE least(h, t, n) == Cardinality(Walked(h, q, t - Covered + 1, n))
           most(h, t, n) == Cardinality(Walked(h, q, t - WindowSec, n))
<1>4. ASSUME phase # "idle"
      PROVE  least(base, clock, next) <= result[q] /\ result[q] <= most(accepted, snapNow, next)
  BY <1>4 DEF CountsBounded
<1>5. ASSUME NEW t \in Int, NEW n
      PROVE  /\ least(base, t, n) \in Nat
             /\ most(accepted, t, n) \in Nat
             /\ IsFiniteSet(Walked(base, q, t - Covered + 1, n))
             /\ IsFiniteSet(Walked(accepted', q, t - WindowSec, n))
             /\ most(accepted', t, n) \in Nat
  BY <1>1, <1>2, WalkedFinite
<1>6. CASE Add
  <2>1. PICK x \in Queries, ts \in (clock - MaxLate) .. (clock + MaxSkew) :
            AddQuery(x, ts)
    BY <1>6 DEF Add
  <2>2. /\ phase' = phase /\ base' = base /\ clock' = clock /\ next' = next
        /\ snapNow' = snapNow /\ result' = result
    BY <2>1 DEF AddQuery
  <2>3. \A s \in Slices : accepted[q][s] <= accepted'[q][s]
    BY <1>1, <2>1, HistoryEffect DEF RingInv
  <2>4. most(accepted, snapNow, next) <= most(accepted', snapNow, next)
    <3>1. PICK from \in Int : from = snapNow - WindowSec
      BY <1>3
    <3>2. from <= from
      BY <3>1
    <3>3. \A s \in Slices : /\ accepted[q][s] \in Nat /\ accepted'[q][s] \in Nat
                            /\ accepted[q][s] <= accepted'[q][s]
      BY <1>1, <2>3
    <3>4. IsFiniteSet(Walked(accepted', q, from, next))
      BY <1>3, <1>5, <3>1
    <3>5. Cardinality(Walked(accepted, q, from, next))
            <= Cardinality(Walked(accepted', q, from, next))
      BY <3>2, <3>3, <3>4, WalkedGrows
    <3> QED BY <3>1, <3>5
  <2>5. /\ least(base, clock, next) <= result[q]
        /\ result[q] <= most(accepted, snapNow, next)
        /\ most(accepted, snapNow, next) \in Nat
        /\ most(accepted', snapNow, next) \in Nat
    BY <1>3, <1>4, <1>5, <2>2
  <2> HIDE DEF least, most
  <2>6. least(base, clock, next) <= result[q] /\ result[q] <= most(accepted', snapNow, next)
    BY <1>3, <2>4, <2>5
  <2> QED BY <2>2, <2>6 DEF least, most
<1>7. CASE BeginSnapshot
  <2>1. next' = 0 /\ result'[q] = 0
    BY <1>7 DEF BeginSnapshot, NoCounts
  <2> QED BY <2>1, NothingWalked
<1>8. CASE VisitBucket
  <2>1. /\ phase # "idle" /\ next \in Slots
        /\ base' = base /\ clock' = clock /\ accepted' = accepted
        /\ snapNow' = snapNow /\ next' = next + 1
    BY <1>3, <1>8 DEF VisitBucket, Slots
  <2>2. buckets[next].counters[q] \in Nat
    BY <2>1 DEF RingInv, TypeOK
  <2>3. result'[q] = result[q] + Gain(next, q, snapNow) /\ Gain(next, q, snapNow) \in Nat
    BY <1>3, <1>8, <2>2 DEF VisitBucket, InWindow, Gain
  <2>4. most(accepted, snapNow, next) + Gain(next, q, snapNow)
          <= most(accepted, snapNow, next + 1)
    BY <1>2, <1>3, <2>1, VisitAtMost
  <2>5. least(base, clock, next + 1)
          <= least(base, clock, next) + Gain(next, q, snapNow)
    BY <1>1, <1>2, <1>3, <2>1, VisitAtLeast
  <2>6. /\ least(base, clock, next) <= result[q]
        /\ result[q] <= most(accepted, snapNow, next)
        /\ most(accepted, snapNow, next) \in Nat
        /\ most(accepted, snapNow, next + 1) \in Nat
        /\ least(base, clock, next) \in Nat
        /\ least(base, clock, next + 1) \in Nat
    BY <1>3, <1>4, <1>5, <2>1
  <2> HIDE DEF least, most
  <2>7. /\ least(base, clock, next + 1) <= result'[q]
        /\ result'[q] <= most(accepted, snapNow, next + 1)
    BY <1>3, <2>3, <2>4, <2>5, <2>6
  <2> QED BY <2>1, <2>7 DEF least, most
<1>9. CASE ClockTick
  <2>1. /\ phase' = phase /\ base' = base /\ clock' = clock + 1 /\ next' = next
        /\ snapNow' = snapNow /\ result' = result /\ accepted' = accepted
    BY <1>9 DEF ClockTick
  <2>2. least(base, clock + 1, next) <= least(base, clock, next)
    <3>1. PICK to \in Int : to = clock - Covered + 1
      BY <1>3
    <3>2. PICK from \in Int : from = (clock + 1) - Covered + 1
      BY <1>3
    <3>3. to <= from
      BY <1>3, <3>1, <3>2
    <3>4. \A s \in Slices : base[q][s] \in Nat /\ base[q][s] <= base[q][s]
      BY <1>1
    <3>5. IsFiniteSet(Walked(base, q, to, next))
      BY <1>3, <1>5, <3>1
    <3>6. Cardinality(Walked(base, q, from, next)) <= Cardinality(Walked(base, q, to, next))
      BY <3>3, <3>4, <3>5, WalkedGrows
    <3> QED BY <3>1, <3>2, <3>6
  <2>3. /\ least(base, clock, next) <= result[q]
        /\ result[q] <= most(accepted, snapNow, next)
        /\ least(base, clock, next) \in Nat
        /\ least(base, clock + 1, next) \in Nat
    <3>1. clock + 1 \in Int /\ clock \in Int
      BY <1>3
    <3> QED BY <1>4, <1>5, <2>1, <3>1
  <2> HIDE DEF least, most
  <2>4. least(base, clock + 1, next) <= result[q] /\ result[q] <= most(accepted, snapNow, next)
    BY <1>3, <2>2, <2>3
  <2> QED BY <2>1, <2>4 DEF least, most
<1>10. CASE Render \/ UNCHANGED vars
  <2>1. /\ phase # "idle" /\ base' = base /\ clock' = clock /\ next' = next
        /\ snapNow' = snapNow /\ result' = result /\ accepted' = accepted
    BY <1>10 DEF Render, vars
  <2> QED BY <1>4, <2>1
<1>11. CASE Store
  BY <1>11 DEF Store
<1> QED BY <1>6, <1>7, <1>8, <1>9, <1>10, <1>11 DEF Next

(* Between ranking and storing the counts stand still. *)
LEMMA RenderedStep ==
  ASSUME RenderedFromCounts, [Next]_vars
  PROVE  RenderedFromCounts'
BY DEF Next, RenderedFromCounts, Add, AddQuery, BeginSnapshot, VisitBucket, Render,
       Store, ClockTick, vars

(* The whole of it, with the ring it reads. *)
WalkInv == RingInv /\ SliceExact /\ ScanInv

(* The invariant of ring and walk is inductive. *)
LEMMA WalkStep == OnTime /\ WalkInv /\ [Next]_vars => WalkInv'
<1> SUFFICES ASSUME OnTime, WalkInv, [Next]_vars PROVE WalkInv'
  OBVIOUS
<1>1. RingInv' /\ SliceExact'
  BY RingStep, SliceExactStep DEF WalkInv
<1>2. Tallied' /\ BaseKept' /\ RenderedFromCounts'
  BY TalliedStep, BaseKeptStep, RenderedStep DEF WalkInv, ScanInv
<1>3. CountsBounded'
  BY <1>1, <1>2, CountsStep DEF WalkInv, ScanInv
<1> QED BY <1>1, <1>2, <1>3 DEF WalkInv, ScanInv

-----------------------------------------------------------------------------
(* The collector implements the sliding window.                            *)

(* A walk of the whole ring has met everything. *)
LEMMA WholeWalk ==
  ASSUME NEW h, NEW q, NEW from
  PROVE  /\ Walked(h, q, from, NumBuckets) = Window!SearchesFrom(h, q, from)
         /\ Window!CountFrom(h, q, from) = Cardinality(Walked(h, q, from, NumBuckets))
<1>1. \A s \in Slices : s % NumBuckets < NumBuckets
  <2>1. NumBuckets \in Nat \ {0}
    BY RingShape
  <2>2. \A s \in Slices : s \in Nat
    BY DEF Slices
  <2> QED BY <2>1, <2>2, Z3
<1>2. \A x : x \in Walked(h, q, from, NumBuckets) <=> x \in Window!SearchesFrom(h, q, from)
  BY <1>1, WalkedOf, SearchesOf
<1>3. Walked(h, q, from, NumBuckets) = Window!SearchesFrom(h, q, from)
  BY <1>2
<1>4. \A S : Window!Cardinality(S) = Cardinality(S)
  BY Zenon DEF Window!Cardinality, Cardinality
<1> QED BY <1>3, <1>4 DEF Window!CountFrom

(* Whatever a worker counted was searched for, so it counted finitely many *)
(* queries, each no more often than Add was called.                        *)
LEMMA CountedFinite ==
  ASSUME WalkInv, phase # "idle"
  PROVE  /\ IsFiniteSet({q \in Queries : result[q] > 0})
         /\ result \in [Queries -> 0 .. MaxAdds]
<1>1. /\ IsFiniteSet(Searches(accepted)) /\ Cardinality(Searches(accepted)) = adds
      /\ adds \in Nat /\ adds <= MaxAdds /\ MaxAdds \in Nat
      /\ result \in [Queries -> Nat]
  BY ClockAssumption DEF WalkInv, ScanInv, Tallied, RingInv, TypeOK
<1> DEFINE met(q) == Walked(accepted, q, snapNow - WindowSec, next)
<1>2. ASSUME NEW q \in Queries
      PROVE  /\ IsFiniteSet(met(q)) /\ Cardinality(met(q)) \in Nat
             /\ Cardinality(met(q)) <= adds
             /\ result[q] <= Cardinality(met(q))
  <2>1. \A s \in Slices : accepted[q][s] \in Nat /\ accepted[q][s] <= accepted[q][s]
    BY DEF WalkInv, RingInv, TypeOK
  <2>2. /\ IsFiniteSet(met(q)) /\ Cardinality(met(q)) \in Nat
        /\ Cardinality(met(q)) <= Cardinality(Searches(accepted))
    BY <1>1, <2>1, WalkedFinite
  <2>3. result[q] <= Cardinality(met(q))
    BY DEF WalkInv, ScanInv, CountsBounded
  <2> QED BY <1>1, <2>2, <2>3
<1>3. ASSUME NEW q \in Queries, result[q] > 0
      PROVE  q \in {z[1] : z \in Searches(accepted)}
  <2>1. result[q] \in Nat
    BY <1>1
  <2>2. Cardinality(met(q)) # 0
    BY <1>2, <1>3, <2>1
  <2>3. PICK x : x \in met(q)
    BY <1>2, <2>2, FS_EmptySet
  <2>4. PICK s \in Slices : x \in OfSlice(s, accepted[q][s])
    BY <2>3, WalkedOf
  <2>5. PICK k \in 1 .. accepted[q][s] : x = <<s, k>>
    BY <2>4 DEF OfSlice
  <2>6. accepted[q][s] \in Nat
    BY DEF WalkInv, RingInv, TypeOK
  <2>7. <<q, s, k>> \in Searches(accepted)
    BY <2>5, <2>6 DEF Searches
  <2> QED BY <2>7
<1>4. {q \in Queries : result[q] > 0} \subseteq {z[1] : z \in Searches(accepted)}
  BY <1>3
<1>5. IsFiniteSet({q \in Queries : result[q] > 0})
  BY <1>1, <1>4, AskedFinite, FS_Subset
<1>6. \A q \in Queries : result[q] \in 0 .. MaxAdds
  <2> SUFFICES ASSUME NEW q \in Queries PROVE result[q] \in 0 .. MaxAdds
    OBVIOUS
  <2>1. result[q] \in Nat
    BY <1>1
  <2> HIDE DEF met
  <2> QED BY <1>1, <1>2, <2>1
<1> QED BY <1>1, <1>5, <1>6

(* What is about to be published is the exact top of counts that hold      *)
(* every search made before the walk began and still covered, and none     *)
(* from outside the window.                                                *)
LEMMA RenderedReflects ==
  ASSUME WalkInv, phase = "rendered"
  PROVE  Window!Reflects(envelope.data, base, snapNow, accepted, clock)
<1>1. /\ next = NumBuckets
      /\ envelope.data = SortTop(Counted(result), TopLimit)
  BY DEF WalkInv, ScanInv, RenderedFromCounts
<1>2. /\ IsFiniteSet({q \in Queries : result[q] > 0})
      /\ result \in [Queries -> 0 .. MaxAdds]
  BY CountedFinite
<1>3. result \in [Queries -> Nat]
  BY DEF WalkInv, RingInv, TypeOK
<1>4. Window!IsTopOf(envelope.data, result)
  BY <1>1, <1>2, <1>3, TopIsExact
<1>5. ASSUME NEW q \in Queries
      PROVE  /\ Window!CountFrom(base, q, clock - Covered + 1) <= result[q]
             /\ result[q] <= Window!CountFrom(accepted, q, snapNow - WindowSec)
  BY <1>1, WholeWalk DEF WalkInv, ScanInv, CountsBounded
<1>6. result \in Window!CountsBetween(base, clock - (NumBuckets * BucketSec - MaxSkew) + 1,
                                      accepted, snapNow - WindowSec)
  BY <1>2, <1>5 DEF Window!CountsBetween, Covered
<1> QED BY <1>4, <1>6 DEF Window!Reflects

(* An unused collector is a sliding window without searches. *)
LEMMA WindowInit == Init => Window!Init
<1> SUFFICES ASSUME Init PROVE Window!Init
  OBVIOUS
<1>1. clock \in Nat
  BY ClockAssumption DEF Init
<1>2. currentTop.data = << >>
  BY DEF Init, NoTop
<1> QED BY <1>1, <1>2 DEF Init, NoHistory, Window!Init, Window!Nothing

(* Every step of the collector is a step of the sliding window or none.    *)
LEMMA WindowStep ==
  ASSUME WalkInv, [Next]_vars
  PROVE  [Window!Next]_(Window!vars)
<1>1. TypeOK
  BY DEF WalkInv, RingInv
<1>2. CASE Add
  <2>1. PICK q \in Queries, ts \in (clock - MaxLate) .. (clock + MaxSkew) :
            AddQuery(q, ts)
    BY <1>2 DEF Add
  <2>2. SliceOf(ts) \in Slices
    BY <1>1, <2>1, TimestampSlice
  <2>3. Window!Record(q, SliceOf(ts))
    BY <2>1 DEF AddQuery, Window!Record
  <2> QED BY <2>2, <2>3 DEF Window!Next
<1>3. CASE BeginSnapshot
  <2>1. Window!BeginRecount
    BY <1>3 DEF BeginSnapshot, Window!BeginRecount
  <2> QED BY <2>1 DEF Window!Next
<1>4. CASE VisitBucket \/ Render
  BY <1>4 DEF VisitBucket, Render, Window!vars
<1>5. CASE Store
  <2>1. Window!Reflects(envelope.data, base, snapNow, accepted, clock)
    BY <1>5, RenderedReflects DEF Store
  <2>2. Window!Publish
    BY <1>5, <2>1 DEF Store, NoHistory, Window!Publish, Window!Nothing
  <2> QED BY <2>2 DEF Window!Next
<1>6. CASE ClockTick
  <2>1. Window!Tick
    BY <1>6 DEF ClockTick, Window!Tick
  <2> QED BY <2>1 DEF Window!Next
<1>7. CASE UNCHANGED vars
  BY <1>7 DEF vars, Window!vars
<1> QED BY <1>2, <1>3, <1>4, <1>5, <1>6, <1>7 DEF Next

(* Ring and walk, for good. *)
LEMMA WalkInvariant == OnTime => (Spec => []WalkInv)
<1> SUFFICES ASSUME OnTime PROVE Spec => []WalkInv
  OBVIOUS
<1>1. Init => WalkInv
  BY RingInit, SliceExactInit, ScanInit DEF WalkInv
<1>2. WalkInv /\ [Next]_vars => WalkInv'
  BY WalkStep
<1> QED BY <1>1, <1>2, PTL DEF Spec

(* If no search is later than the ring absorbs, what readers see changes   *)
(* only as the sliding window allows: each list that is published is the   *)
(* exact top of counts that miss no covered search and hold none from      *)
(* outside the window.                                                     *)
THEOREM ImplementsSlidingWindow == OnTime => (Spec => WindowSpec)
<1> SUFFICES ASSUME OnTime PROVE Spec => WindowSpec
  OBVIOUS
<1>1. Spec => []WalkInv
  BY WalkInvariant
<1>2. Init => Window!Init
  BY WindowInit
<1>3. WalkInv /\ [Next]_vars => [Window!Next]_(Window!vars)
  BY WindowStep
<1> QED BY <1>1, <1>2, <1>3, PTL DEF Spec, WindowSpec, Window!Spec

(* Under the same condition no list counts a search from outside the       *)
(* window.                                                                 *)
THEOREM NoneIsStale == OnTime => (Spec => []NoStaleSearch)
<1> SUFFICES ASSUME OnTime PROVE Spec => []NoStaleSearch
  OBVIOUS
<1>1. Spec => []WalkInv
  BY WalkInvariant
<1>2. WalkInv => NoStaleSearch
  <2> SUFFICES ASSUME WalkInv, phase = "rendered", NEW k \in 1 .. Len(envelope.data)
               PROVE  envelope.data[k].count <=
                        Window!CountFrom(accepted, envelope.data[k].query,
                                         snapNow - WindowSec)
    BY DEF NoStaleSearch
  <2>1. next = NumBuckets /\ envelope.data = SortTop(Counted(result), TopLimit)
    BY DEF WalkInv, ScanInv, RenderedFromCounts
  <2>2. result \in [Queries -> Nat]
    BY DEF WalkInv, RingInv, TypeOK
  <2>3. Window!IsTopOf(envelope.data, result)
    BY <2>1, <2>2, CountedFinite, TopIsExact
  <2>4. /\ envelope.data[k].query \in Queries
        /\ envelope.data[k].count = result[envelope.data[k].query]
    <3> DEFINE list == envelope.data
               listed == {list[i].query : i \in 1 .. Len(list)}
               found == {q \in Queries : result[q] > 0}
    <3>1. /\ listed \subseteq found
          /\ \A i \in 1 .. Len(list) : list[i].count = result[list[i].query]
      BY <2>3, Zenon DEF Window!IsTopOf
    <3>2. list[k].query \in listed
      OBVIOUS
    <3> QED BY <3>1, <3>2
  <2> QED BY <2>1, <2>4, WholeWalk DEF WalkInv, ScanInv, CountsBounded
<1> QED BY <1>1, <1>2, PTL
=============================================================================
