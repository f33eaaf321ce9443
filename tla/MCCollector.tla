---------------------------- MODULE MCCollector ----------------------------
(***************************************************************************)
(* Small instances of Collector for TLC: the constants are in the cfgs,    *)
(* and the queries and the worker are already finite.                      *)
(***************************************************************************)
EXTENDS Collector

(* The ring takes every lateness this instance allows. *)
ASSUME OnTime

(* The run is long enough for a slot to be used by two slices.             *)
ASSUME (StartClock - MaxLate) \div BucketSec + NumBuckets
         <= (MaxClock + MaxSkew) \div BucketSec
=============================================================================
