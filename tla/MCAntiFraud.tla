---------------------------- MODULE MCAntiFraud ----------------------------
(***************************************************************************)
(* Small instances of AntiFraud for TLC.  Addresses are interchangeable.   *)
(***************************************************************************)
EXTENDS AntiFraud, TLC

IPSymmetry == Permutations(IPs)
=============================================================================
