----------------------------- MODULE MCBoostChannel -----------------------------
(* Five messages: one whole, one cut short by its size entry, one that       *)
(* claims more than it has, a whole one, and one without a size.             *)
EXTENDS BoostChannel

CONSTANT none

MCSize  == <<2, 3, 1, 1, 2>>
MCClaim == <<2, 1, 2, 1, none>>
=============================================================================
