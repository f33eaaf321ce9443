--------------------------- MODULE SlidingWindow ---------------------------
(***************************************************************************)
(* What a collector promises its readers, without buckets, locks or a      *)
(* worker that walks the ring.                                             *)
(*                                                                         *)
(* Searches are recorded in slices of SliceSec seconds (the resolution of  *)
(* the promise).  A recount takes time: it begins at some moment, reads    *)
(* the clock once, and its result is published later.  What it publishes   *)
(* is the exact top list of SOME counts that                               *)
(*   - contain every search recorded before the recount began whose slice  *)
(*     is still covered when the result is published, and                  *)
(*   - contain nothing but searches recorded by then, of slices that were  *)
(*     inside the window when the recount began.                           *)
(***************************************************************************)
EXTENDS Integers, Sequences, FiniteSets, FiniteSetsExt

CONSTANTS
  Queries,     \* the search queries
  TopLimit,    \* the length of the top list
  SliceSec,    \* seconds in a slice
  WindowSec,   \* nothing older than this is counted
  CoveredSec,  \* everything newer than this is counted
  Slices,      \* slice numbers that can occur
  MaxCount     \* bound on the number of searches recorded

VARIABLES
  clock,       \* seconds since the epoch
  recorded,    \* recorded[q][s]: searches for q in slice s
  reading,     \* TRUE while a recount is under way
  base,        \* what was recorded when the recount began
  since,       \* the clock when the recount began
  top          \* the published list of [query, count]

vars == <<clock, recorded, reading, base, since, top>>

Nothing == [q \in Queries |-> [s \in Slices |-> 0]]

(* Searches for q that h holds, of slices that start at or after from, as  *)
(* <<slice, number>>, and how many there are.                              *)
SearchesFrom(h, q, from) ==
  UNION {{s} \X (1 .. h[q][s]) : s \in {x \in Slices : x * SliceSec >= from}}

CountFrom(h, q, from) == Cardinality(SearchesFrom(h, q, from))

(* The counts a recount of history old, grown to new meanwhile, may yield. *)
CountsBetween(old, covered, new, oldest) ==
  {c \in [Queries -> 0 .. MaxCount] :
     \A q \in Queries : /\ CountFrom(old, q, covered) <= c[q]
                        /\ c[q] <= CountFrom(new, q, oldest)}

(* list is the top list of counts: ordered, of the right length, with the  *)
(* right counts, and nothing left out belongs in it.                       *)
IsTopOf(list, counts) ==
  LET found    == {q \in Queries : counts[q] > 0}
      listed   == {list[i].query : i \in 1 .. Len(list)}
      Before(p, q) == counts[p] > counts[q] \/ (counts[p] = counts[q] /\ p < q)
  IN  /\ Len(list) = Min({TopLimit, Cardinality(found)})
      /\ listed \subseteq found
      /\ \A i \in 1 .. Len(list) : list[i].count = counts[list[i].query]
      /\ \A i, j \in 1 .. Len(list) : i < j => Before(list[i].query, list[j].query)
      /\ \A p \in listed, q \in found \ listed : Before(p, q)

(* list is the top of counts a recount begun at from may publish at to.    *)
Reflects(list, old, from, new, to) ==
  \E c \in CountsBetween(old, to - CoveredSec + 1, new, from - WindowSec) :
     IsTopOf(list, c)

-----------------------------------------------------------------------------
Init ==
  /\ clock \in Nat
  /\ recorded = Nothing
  /\ reading = FALSE
  /\ base = Nothing
  /\ since = 0
  /\ top = << >>

Tick ==
  /\ clock' = clock + 1
  /\ UNCHANGED <<recorded, reading, base, since, top>>

Record(q, s) ==
  /\ recorded' = [recorded EXCEPT ![q][s] = @ + 1]
  /\ UNCHANGED <<clock, reading, base, since, top>>

BeginRecount ==
  /\ ~reading
  /\ reading' = TRUE
  /\ base' = recorded
  /\ since' = clock
  /\ UNCHANGED <<clock, recorded, top>>

Publish ==
  /\ reading
  /\ reading' = FALSE
  /\ Reflects(top', base, since, recorded, clock)
  /\ base' = Nothing
  /\ since' = 0
  /\ UNCHANGED <<clock, recorded>>

Next ==
  \/ Tick
  \/ \E q \in Queries, s \in Slices : Record(q, s)
  \/ BeginRecount
  \/ Publish

Spec == Init /\ [][Next]_vars
=============================================================================
