------------------------------ MODULE MCClFftBase ------------------------------
(* ClFftBase with the number of calls given in the cfg.                      *)
EXTENDS ClFftBase
=============================================================================
