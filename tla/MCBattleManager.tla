-------------------------- MODULE MCBattleManager --------------------------
(***************************************************************************)
(* BattleManager with four players, who are three when one has left, and   *)
(* three battles a game: as many as it takes to meet everybody.            *)
(***************************************************************************)
EXTENDS BattleManager, TLC

CONSTANTS c1, c2, c3, c4

MCClient == {c1, c2, c3, c4}

ClientSymmetry == Permutations(MCClient)
=============================================================================
