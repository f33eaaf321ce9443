------------------------------ MODULE TopList ------------------------------
(***************************************************************************)
(* The ranking algorithm of the collectors: sortTop, which flattens a map  *)
(* of query counts into the top list.                                      *)
(*                                                                         *)
(* A query is a natural number; its order stands for the byte order Go     *)
(* compares strings by.  A Go map is a function from its keys.             *)
(***************************************************************************)
EXTENDS Integers, Sequences, FiniteSets

(* A bug to test the properties with: the tie-break left out and the       *)
(* counts compared the wrong way round.                                    *)
AheadAscending(x, y) ==
  \/ x.count < y.count
  \/ x.count = y.count /\ x.query < y.query

(* The less function handed to sort.Slice: larger counts first, equal      *)
(* counts in the order of the query strings.                               *)
Ahead(x, y) ==
  \/ x.count > y.count
  \/ x.count = y.count /\ x.query < y.query

(* sort.Slice on entries of different queries: the list of all of them     *)
(* with the one that is ahead first.  Ahead is total, so there is one.     *)
Sorted(entries) ==
  CHOOSE list \in [1 .. Cardinality(entries) -> entries] :
     \A i, j \in 1 .. Cardinality(entries) : i < j => Ahead(list[i], list[j])

(* sortTop(data, limit). *)
SortTop(data, limit) ==
  LET list == Sorted({[query |-> q, count |-> data[q]] : q \in DOMAIN data})
  IN  IF Len(list) > limit THEN SubSeq(list, 1, limit) ELSE list

(* The map a total count function stands for: its keys are the queries     *)
(* that were counted at least once.                                        *)
Counted(counts) == [q \in {x \in DOMAIN counts : counts[x] > 0} |-> counts[q]]
=============================================================================
