---------------------------- MODULE MCEnrichRun ----------------------------
(* Values for the constants of EnrichRun.                                  *)
EXTENDS EnrichRun

TwoPaths == {1, 2}
TwoTrees == {"oldGoMod", "newGoMod"}
OneTree == {"oldGoMod"}
=============================================================================
