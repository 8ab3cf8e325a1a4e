------------------------------- MODULE MCTestBoost -------------------------------
(* Two objects that do different numbers of rounds.                          *)
EXTENDS TestBoost

MCRounds == <<2, 1>>
=============================================================================
