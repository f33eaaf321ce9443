-------------------------- MODULE SliceArithmetic --------------------------
(***************************************************************************)
(* Integer arithmetic of slices and slots: what the proofs about the ring  *)
(* of Collector need to know of division with remainder.                   *)
(***************************************************************************)
EXTENDS Integers, TLAPS

(* Multiplication by a positive number keeps and reflects order. *)
LEMMA MulOrder ==
  ASSUME NEW B \in Nat \ {0}, NEW s \in Nat, NEW t \in Nat
  PROVE  /\ s <= t => s * B <= t * B
         /\ s * B < t * B => s < t
         /\ s * B \in Nat
  BY Z3

(* Integer division, bounded from both sides. *)
LEMMA DivBounds ==
  ASSUME NEW B \in Nat \ {0}, NEW t \in Nat
  PROVE  /\ t \div B \in Nat
         /\ (t \div B) * B <= t
         /\ t < (t \div B) * B + B
  BY Z3

(* A multiple of B divided by B. *)
LEMMA DivMultiple ==
  ASSUME NEW B \in Nat \ {0}, NEW s \in Nat
  PROVE  (s * B) \div B = s
<1> DEFINE d == (s * B) \div B
<1>1. s * B \in Nat
  BY MulOrder
<1>2. d \in Nat /\ d * B <= s * B /\ s * B < d * B + B
  BY <1>1, DivBounds
<1>3. d <= s
  <2>1. SUFFICES ASSUME s < d PROVE FALSE
    BY <1>2
  <2>2. s + 1 <= d
    BY <2>1, <1>2
  <2>3. (s + 1) * B <= d * B
    BY <2>2, <1>2, MulOrder
  <2>4. (s + 1) * B = s * B + B
    BY Z3
  <2> QED BY <2>3, <2>4, <1>1, <1>2
<1>4. s <= d
  <2>1. SUFFICES ASSUME d < s PROVE FALSE
    BY <1>2
  <2>2. d + 1 <= s
    BY <2>1, <1>2
  <2>3. (d + 1) * B <= s * B
    BY <2>2, <1>2, MulOrder
  <2>4. (d + 1) * B = d * B + B
    BY <1>2, Z3
  <2> QED BY <2>3, <2>4, <1>1, <1>2
<1> QED BY <1>2, <1>3, <1>4

(* Two slices that share a slot are a full turn of the ring apart. *)
LEMMA SameSlot ==
  ASSUME NEW N \in Nat \ {0}, NEW s \in Nat, NEW t \in Nat,
         s < t, s % N = t % N
  PROVE  s + N <= t
<1> DEFINE a == s \div N
           b == t \div N
<1>1. /\ a \in Nat /\ s = a * N + (s % N)
      /\ b \in Nat /\ t = b * N + (t % N)
      /\ s % N \in Nat
      /\ a * N \in Nat /\ b * N \in Nat
  BY Z3
<1> HIDE DEF a, b
<1>2. a * N < b * N
  BY <1>1
<1>3. a + 1 <= b
  BY <1>1, <1>2, MulOrder
<1>4. (a + 1) * N <= b * N
  BY <1>1, <1>3, MulOrder
<1>5. (a + 1) * N = a * N + N
  BY <1>1, Z3
<1> QED BY <1>1, <1>4, <1>5

(* The same, in seconds. *)
LEMMA SameSlotStamps ==
  ASSUME NEW N \in Nat \ {0}, NEW B \in Nat \ {0}, NEW s \in Nat, NEW t \in Nat,
         s < t, s % N = t % N
  PROVE  s * B + N * B <= t * B
<1>1. s + N <= t
  BY SameSlot
<1>2. (s + N) * B <= t * B
  BY <1>1, MulOrder
<1>3. (s + N) * B = s * B + N * B
  BY Z3
<1> QED BY <1>2, <1>3

(* Rounding down twice gives no more than rounding down once. *)
LEMMA RoundingDown ==
  ASSUME NEW S \in Nat \ {0}, NEW B \in Nat \ {0}, NEW W \in Nat
  PROVE  (W \div B) * (B \div S) <= W \div S
<1> DEFINE n == W \div B
           b == B \div S
           w == W \div S
<1>1. /\ n \in Nat /\ n * B <= W
      /\ b \in Nat /\ b * S <= B
      /\ w \in Nat /\ W < w * S + S
  BY DivBounds
<1> HIDE DEF n, b, w
<1>2. n * b \in Nat
  BY <1>1, Z3
<1>3. n * (b * S) <= n * B
  BY <1>1, Z3
<1>4. (n * b) * S = n * (b * S) /\ (w + 1) * S = w * S + S
  BY <1>1, Z3
<1>5. (n * b) * S < (w + 1) * S
  <2>1. n * (b * S) \in Int /\ n * B \in Int /\ w * S \in Int
    BY <1>1, Z3
  <2> QED BY <1>1, <1>3, <1>4, <2>1
<1>6. n * b < w + 1
  <2> PICK m \in Nat : m = n * b
    BY <1>2
  <2>1. m * S < (w + 1) * S
    BY <1>5
  <2>2. w + 1 \in Nat
    BY <1>1
  <2>3. m < w + 1
    BY <2>1, <2>2, MulOrder
  <2> QED BY <2>3
<1>7. n * b <= w
  BY <1>1, <1>2, <1>6
<1> QED BY <1>7 DEF n, b, w
=============================================================================
