------------------------------- MODULE MCPrograms -------------------------------
(***************************************************************************)
(* The three models of the smaller programs in one run.  They share no     *)
(* state, so that a behaviour moves one of them only, which Init chooses,  *)
(* and leaves the others in a state of their Init.                         *)
(***************************************************************************)
EXTENDS AckClient, OneShot, AddressBook

VARIABLE chosen   \* "TcMemory02", "one-shot programs", "YAML"

mcVars == <<chosen, vars, shotVars, bookVars>>

MCInit == /\ chosen \in {"TcMemory02", "one-shot programs", "YAML"}
          /\ Init /\ ShotInit /\ BookInit
          /\ chosen = "TcMemory02" \/ (~inherited /\ server = "idle")
          /\ chosen = "one-shot programs" \/ listener = "nobody"

AckStep  == chosen = "TcMemory02" /\ Next /\ UNCHANGED <<chosen, shotVars, bookVars>>
ShotStep == chosen = "one-shot programs" /\ ShotNext /\ UNCHANGED <<chosen, vars, bookVars>>
BookStep == chosen = "YAML" /\ BookNext /\ UNCHANGED <<chosen, vars, shotVars>>

MCNext == AckStep \/ ShotStep \/ BookStep

\* The fairness of LiveSpec of AckClient and of ShotLiveSpec, each for the
\* behaviours that run its programs.
MCSpec ==
  /\ MCInit /\ [][MCNext]_mcVars
  /\ WF_mcVars(AckStep /\ Main)
  /\ \A p \in Programs : /\ WF_mcVars(ShotStep /\ Client(p))
                         /\ WF_mcVars(ShotStep /\ BoostServer(p))
                         /\ WF_mcVars(ShotStep /\ FramedServer(p))

-----------------------------------------------------------------------------
\* main of TcMemory02, when it runs, comes to its end though the server never
\* answers: ClientEnds.
TcMemory02Ends == chosen = "TcMemory02" => ClientEnds

\* The one-shot programs, when they run, all come to their end:
\* EveryProgramEnds.
OneShotProgramsEnd == chosen = "one-shot programs" => EveryProgramEnds
=============================================================================
