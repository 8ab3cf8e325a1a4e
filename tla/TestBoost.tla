-------------------------------- MODULE TestBoost --------------------------------
(***************************************************************************)
(* streams_sockets::test_boost: the owner of several WrapThread objects    *)
(* that starts them all, makes them repeat for a while, lets them finish   *)
(* and joins them.  The objects are numbered as in its std::map.  The same *)
(* objects may instead have an owner who calls anything in any order.      *)
(***************************************************************************)
EXTENDS WrapThread

CONSTANT Last   \* the size of the map

ASSUME BoostAssumption == Last \in Nat \ {0} /\ Objects = 1 .. Last

VARIABLES
  dpc,   \* the loop of test_boost that runs; "free" without test_boost
  at     \* the object it is at

driver == <<dpc, at>>

InitBoost == Init /\ dpc \in {"start", "free"} /\ at = 1

\* One pass of a loop over the objects: to the next one, or to the next loop.
Advance(from, to) ==
  /\ dpc = from
  /\ IF at < Last THEN at' = at + 1 /\ UNCHANGED dpc ELSE at' = 1 /\ dpc' = to

StartEach == /\ Advance("start", "spin")
             /\ IF handle[at] THEN UNCHANGED vars ELSE Start(at)

\* The loop that polls is_thread(), then the one that sets is_repeat.
SpinDone == /\ dpc = "spin" /\ \A t \in Objects : handle[t]
            /\ dpc' = "repeat"
            /\ UNCHANGED <<at, vars>>

RepeatEach == Advance("repeat", "sleep") /\ SetRepeat(at, TRUE)

\* Ten seconds: any number of steps of the workers.
SleepDone == dpc = "sleep" /\ dpc' = "finish" /\ UNCHANGED <<at, vars>>

\* Mutant: the second set_params loop leaves is_repeat set.
FinishNone == Advance("finish", "join") /\ UNCHANGED vars
FinishEach == Advance("finish", "join") /\ SetRepeat(at, FALSE)

\* Mutant: the loop skips the objects that are still running.
JoinOnlyEnded ==
  \/ dpc = "join" /\ handle[at] /\ ~Live(at) /\ ThreadJoin(at) /\ UNCHANGED driver
  \/ Advance("join", "done") /\ (~handle[at] \/ Live(at)) /\ UNCHANGED vars
JoinEach ==
  \/ dpc = "join" /\ handle[at] /\ ThreadJoin(at) /\ UNCHANGED driver
  \/ Advance("join", "done") /\ ~handle[at] /\ call[at] = "none" /\ UNCHANGED vars

Driver == StartEach \/ SpinDone \/ RepeatEach \/ SleepDone \/ FinishEach \/ JoinEach

FreeOwner(t) == dpc = "free" /\ Owner(t) /\ UNCHANGED driver

NextBoost == \/ Driver
             \/ \E t \in Objects : \/ (Worker(t) \/ Joined(t)) /\ UNCHANGED driver
                                  \/ FreeOwner(t)

\* As for the objects by themselves; test_boost goes on when it can.
SpecBoost ==
  /\ InitBoost /\ [][NextBoost]_<<vars, driver>>
  /\ WF_<<vars, driver>>(Driver)
  /\ \A t \in Objects :
       /\ WF_<<vars, driver>>(Worker(t) /\ UNCHANGED driver)
       /\ WF_<<vars, driver>>(Joined(t) /\ UNCHANGED driver)
       /\ WF_<<vars, driver>>((DestructorStop(t) \/ EndDestroy(t)) /\ UNCHANGED driver)

-----------------------------------------------------------------------------
\* test_boost returns: no join waits for a worker that keeps repeating.  When it
\* does, every worker is over and each did its n rounds, whether is_repeat
\* reached it before or after it had done them.
JoinedHaveFinished == dpc = "done" => \A t \in Objects : worker[t] = "done" /\ i[t] = N[t]
BoostReturns == /\ dpc = "start" ~> dpc = "done"
                /\ []JoinedHaveFinished
=============================================================================
