----------------------------- MODULE MCRankingHook -----------------------------
(* Two inputs that can be ranked and one that turns ranking off.             *)
EXTENDS RankingHook
CONSTANTS i1, i2, off
=============================================================================
