---------------------------- MODULE MCPipeline ----------------------------
(* Constants of Pipeline for TLC: one query, which holds the word. *)
EXTENDS Pipeline, TLC

CONSTANTS scam, blank, rawScam

MCCleanForm == rawScam :> scam
MCContains  == 1 :> {scam}

(* The ring takes every lateness this instance allows. *)
ASSUME Ring!OnTime
=============================================================================
