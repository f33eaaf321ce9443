---------------------------- MODULE MCStopList ----------------------------
(***************************************************************************)
(* Small instances of StopList for TLC: two words, one of them written in  *)
(* two ways, a blank word, and queries with none, one and both of the      *)
(* words.                                                                  *)
(***************************************************************************)
EXTENDS StopList, TLC

CONSTANTS scam, vape, blank, rawScam, upperScam, rawVape, spaces,
          plain, oneWord, twoWords

MCWords        == {scam, vape}
MCRawWords     == {rawScam, upperScam, rawVape, spaces}
MCCleanForm    == rawScam :> scam @@ upperScam :> scam @@ rawVape :> vape
                    @@ spaces :> blank
MCContains     == plain :> {} @@ oneWord :> {scam} @@ twoWords :> {scam, vape}
ClientSymmetry == Permutations(Clients)
MCInitialWords == {upperScam, spaces}
=============================================================================
