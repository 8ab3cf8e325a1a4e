---------------------------- MODULE WrapThread_proofs ----------------------------
(* Proofs about WrapThread for every set of objects and every N, and about   *)
(* TestBoost for every number of objects.                                    *)
EXTENDS TestBoost, TLAPS

\* Why a cleared running_ means that no worker lives: a worker is only
\* launched with running_ set and a handle, and only a join that saw it end
\* gives up the handle.
HandleOK ==
  \A t \in Objects :
    /\ Live(t) => handle[t]
    /\ handle[t] => running[t] \/ call[t] = "stop"
    /\ call[t] = "join" => running[t] /\ handle[t]
    /\ call[t] = "stop" => ~running[t] /\ obj[t] # "gone"
    /\ obj[t] = "gone" => ~running[t] /\ call[t] = "none"
    /\ call[t] = "stop" /\ handle[t] => intr[t]
    /\ running[t] /\ worker[t] # "none" => ~intr[t]
    /\ worker[t] = "done" /\ ~intr[t] => i[t] = N[t]

IInv == TypeOK /\ HandleOK

LEMMA InitIInv == Init => IInv
BY ThreadAssumption DEF Init, IInv, TypeOK, HandleOK, Live

\* Every step of an object's owner or worker preserves the types.
LEMMA StepTypeOK ==
  ASSUME TypeOK, NEW t \in Objects, Owner(t) \/ Worker(t)
  PROVE  TypeOK'
<1> USE DEF Is, flags
<1>1. CASE Launch(t)         BY <1>1 DEF Launch, TypeOK
<1>2. CASE StartAgain(t)     BY <1>2 DEF StartAgain, vars, TypeOK
<1>3. CASE Stop(t)           BY <1>3 DEF Stop, BeginStop, TypeOK
<1>4. CASE ThreadJoin(t)     BY <1>4 DEF ThreadJoin, TypeOK
<1>5. CASE Joined(t)         BY <1>5 DEF Joined, TypeOK
<1>6. CASE \E b \in BOOLEAN : SetRepeat(t, b)  BY <1>6 DEF SetRepeat, TypeOK
<1>7. CASE Pause(t)          BY <1>7 DEF Pause, TypeOK
<1>8. CASE Resume(t)         BY <1>8 DEF Resume, TypeOK
<1>9. CASE BeginDestroy(t)   BY <1>9 DEF BeginDestroy, TypeOK
<1>10. CASE DestructorStop(t)  BY <1>10 DEF DestructorStop, BeginStop, TypeOK
<1>11. CASE EndDestroy(t)    BY <1>11 DEF EndDestroy, TypeOK
<1>12. CASE Test(t)          BY <1>12 DEF Test, TypeOK
<1>13. CASE MyFunc(t)
  <2>1. /\ i' = [i EXCEPT ![t] = IF i[t] < N[t] THEN i[t] + 1 ELSE i[t]]
        /\ i[t] \in 0 .. N[t] /\ N[t] \in Nat
    BY <1>13, ThreadAssumption DEF MyFunc, TypeOK
  <2>2. (IF i[t] < N[t] THEN i[t] + 1 ELSE i[t]) \in 0 .. N[t]
    BY <2>1
  <2> QED  BY <1>13, <2>1, <2>2 DEF MyFunc, TypeOK
<1>14. CASE BaseMyFunc(t)    BY <1>14 DEF BaseMyFunc, TypeOK
<1>15. CASE WakeUp(t)        BY <1>15 DEF WakeUp, TypeOK
<1>16. CASE Interrupted(t)   BY <1>16 DEF Interrupted, TypeOK
<1> QED
  BY <1>1, <1>2, <1>3, <1>4, <1>5, <1>6, <1>7, <1>8, <1>9, <1>10, <1>11, <1>12, <1>13,
     <1>14, <1>15, <1>16 DEF Owner, Worker, Start

\* Every step of an object's owner or worker preserves HandleOK.
LEMMA StepHandleOK ==
  ASSUME IInv, NEW t \in Objects, Owner(t) \/ Worker(t)
  PROVE  HandleOK'
<1> USE DEF Is, flags, IInv, TypeOK, HandleOK, Live
<1>1. CASE Launch(t)         BY <1>1 DEF Launch, CanCall
<1>2. CASE StartAgain(t)     BY <1>2 DEF StartAgain, vars
<1>3. CASE Stop(t)           BY <1>3 DEF Stop, BeginStop, CanCall
<1>4. CASE ThreadJoin(t)     BY <1>4 DEF ThreadJoin, CanCall
<1>5. CASE Joined(t)
  <2>1. /\ handle' = [handle EXCEPT ![t] = FALSE] /\ call' = [call EXCEPT ![t] = "none"]
        /\ UNCHANGED <<obj, running, worker, intr, i>>
    BY <1>5 DEF Joined
  <2>2. ~Live(t)
    BY <1>5 DEF Joined
  <2> QED  BY <2>1, <2>2
<1>6. CASE \E b \in BOOLEAN : SetRepeat(t, b)  BY <1>6 DEF SetRepeat, CanCall
<1>7. CASE Pause(t)          BY <1>7 DEF Pause
<1>8. CASE Resume(t)         BY <1>8 DEF Resume
<1>9. CASE BeginDestroy(t)   BY <1>9 DEF BeginDestroy, CanCall
<1>10. CASE DestructorStop(t)  BY <1>10 DEF DestructorStop, BeginStop
<1>11. CASE EndDestroy(t)    BY <1>11 DEF EndDestroy
<1>12. CASE Test(t)
  <2>1. N[t] \in Nat /\ i[t] \in 0 .. N[t]
    BY ThreadAssumption
  <2>2. ~LogicWhile(t) => i[t] = N[t]
    BY <2>1 DEF LogicWhile
  <2>3. PICK w \in {"func", "done"} : /\ worker' = [worker EXCEPT ![t] = w]
                                      /\ w = "done" => i[t] = N[t]
    BY <1>12, <2>2 DEF Test
  <2>4. worker[t] = "test" /\ UNCHANGED <<obj, running, handle, call, intr, i>>
    BY <1>12 DEF Test
  <2> QED  BY <2>3, <2>4
<1>13. CASE MyFunc(t)
  <2>1. /\ worker[t] = "func" /\ worker' = [worker EXCEPT ![t] = "rest"]
        /\ UNCHANGED <<obj, running, handle, call, intr>>
        /\ \A s \in Objects : s # t => i'[s] = i[s]
    BY <1>13 DEF MyFunc
  <2>2. \A s \in Objects : worker'[s] = IF s = t THEN "rest" ELSE worker[s]
    BY <2>1
  <2> SUFFICES ASSUME NEW s \in Objects  PROVE HandleOK!(s)'
    BY DEF HandleOK
  <2> QED  BY <2>1, <2>2
<1>14. CASE BaseMyFunc(t)    BY <1>14 DEF BaseMyFunc
<1>15. CASE WakeUp(t)        BY <1>15 DEF WakeUp
<1>16. CASE Interrupted(t)   BY <1>16 DEF Interrupted
<1> QED
  BY <1>1, <1>2, <1>3, <1>4, <1>5, <1>6, <1>7, <1>8, <1>9, <1>10, <1>11, <1>12, <1>13,
     <1>14, <1>15, <1>16 DEF Owner, Worker, Start

LEMMA NextIInv == IInv /\ [Next]_vars => IInv'
<1> SUFFICES ASSUME IInv, [Next]_vars  PROVE IInv'
  OBVIOUS
<1>1. CASE Next
  BY <1>1, StepTypeOK, StepHandleOK DEF Next, IInv
<1>2. CASE UNCHANGED vars
  BY <1>2 DEF vars, flags, IInv, TypeOK, HandleOK, Live
<1> QED  BY <1>1, <1>2

THEOREM Invariance == Spec => []IInv
BY InitIInv, NextIInv, PTL DEF Spec

\* The variables keep their types.
THEOREM ThreadTypeCorrect == Spec => []TypeOK
<1>1. IInv => TypeOK  BY DEF IInv
<1> QED  BY <1>1, Invariance, PTL

\* No worker lives beside an object whose running_ is clear, for any number of
\* objects and any sequence of calls.
THEOREM StoppedIsQuiet == Spec => []StoppedMeansQuiet
<1>1. IInv => StoppedMeansQuiet  BY DEF IInv, HandleOK, StoppedMeansQuiet
<1> QED  BY <1>1, Invariance, PTL

\* A worker that was not interrupted did all its rounds.
THEOREM EndedIsFinished == Spec => []EndedMeansFinished
<1>1. IInv => EndedMeansFinished  BY DEF IInv, HandleOK, EndedMeansFinished
<1> QED  BY <1>1, Invariance, PTL

\* stop() waits for no worker that has not been told to end, with a flag that
\* nothing takes back before the join: the safety half of StopReturns.
StopWaitsForTheTold == \A t \in Objects : call[t] = "stop" /\ Live(t) => intr[t]

THEOREM StopHasTold == Spec => []StopWaitsForTheTold
<1>1. IInv => StopWaitsForTheTold  BY DEF IInv, HandleOK, StopWaitsForTheTold
<1> QED  BY <1>1, Invariance, PTL

-----------------------------------------------------------------------------
(* test_boost.                                                               *)

Loops == {"start", "spin", "repeat", "sleep", "finish", "join", "done"}

\* How far test_boost is with each object: not touched before its turn in the
\* first loop, launched up to its turn in the last, joined and over after it.
Untouched(t) == worker[t] = "none" /\ ~running[t] /\ ~handle[t] /\ call[t] = "none"
Launched(t)  == worker[t] # "none" /\ handle[t] /\ call[t] = "none"
AtJoin(t)    == worker[t] # "none" /\ call[t] # "stop" /\ (call[t] = "join" => handle[t])
Over(t)      == worker[t] # "none" /\ ~handle[t] /\ call[t] = "none"

Progress(t) ==
  /\ obj[t] = "derived" /\ ~intr[t]
  /\ dpc = "start" => IF t < at THEN Launched(t) ELSE Untouched(t)
  /\ dpc \in {"spin", "repeat", "sleep", "finish"} => Launched(t)
  /\ dpc = "join" => IF t < at THEN Over(t) ELSE IF t > at THEN Launched(t) ELSE AtJoin(t)
  /\ dpc = "done" => Over(t)

DriverOK ==
  /\ at \in 1 .. Last /\ dpc \in Loops \union {"free"}
  /\ dpc # "free" => \A t \in Objects : Progress(t)

BoostInv == IInv /\ DriverOK

\* Every step of the driver, as of any owner, is one that WrapThread lets an
\* owner take, or changes no object.
LEMMA BoostStepIsOwners ==
  ASSUME DriverOK, [NextBoost]_<<vars, driver>> PROVE [Next]_vars
<1>1. at \in Objects
  BY BoostAssumption DEF DriverOK
<1>2. CASE Driver
  BY <1>1, <1>2
     DEF Driver, StartEach, SpinDone, RepeatEach, SleepDone, FinishEach, JoinEach, Next, Owner
<1>3. ASSUME NEW t \in Objects, Worker(t) \/ Joined(t) \/ FreeOwner(t) PROVE [Next]_vars
  BY <1>3 DEF FreeOwner, Next, Owner
<1>4. CASE UNCHANGED <<vars, driver>>
  BY <1>4
<1> QED  BY <1>2, <1>3, <1>4 DEF NextBoost

\* A driver step moves the object it is at on, and leaves the others alone.
LEMMA DriverStep == ASSUME BoostInv, Driver PROVE DriverOK'
<1> USE DEF Progress, Untouched, Launched, AtJoin, Over
<1>1. /\ Last \in Nat \ {0} /\ Objects = 1 .. Last /\ at \in 1 .. Last
      /\ \A t \in Objects : Live(t) => handle[t]
  BY BoostAssumption DEF BoostInv, DriverOK, IInv, HandleOK
<1>2. dpc # "free"
  BY DEF Driver, StartEach, SpinDone, RepeatEach, SleepDone, FinishEach, JoinEach, Advance
<1>3. \A t \in Objects : Progress(t)
  BY <1>2 DEF BoostInv, DriverOK
<1>4. CASE StartEach
  <2>1. dpc = "start" /\ Untouched(at)
    BY <1>1, <1>3, <1>4 DEF StartEach, Advance
  <2>2. Launch(at)
    BY <1>1, <1>4, <2>1 DEF StartEach, Start, StartAgain
  <2>3. /\ \A t \in Objects : t # at => /\ UNCHANGED <<worker[t], running[t], handle[t], call[t]>>
                                        /\ UNCHANGED <<obj[t], intr[t]>>
        /\ worker'[at] # "none" /\ handle'[at] /\ call'[at] = "none"
        /\ obj'[at] = "derived" /\ ~intr'[at]
    BY <1>1, <1>3, <2>1, <2>2 DEF Launch, Is, BoostInv, IInv, TypeOK
  <2>4. CASE at < Last
    <3>1. at' = at + 1 /\ dpc' = "start"
      BY <1>4, <2>1, <2>4 DEF StartEach, Advance
    <3>2. \A t \in Objects : Progress(t)'
      BY <1>1, <1>3, <2>1, <2>3, <3>1
    <3> QED  BY <1>1, <2>4, <3>1, <3>2 DEF DriverOK, Loops
  <2>5. CASE at = Last
    <3>1. at' = 1 /\ dpc' = "spin"
      BY <1>1, <1>4, <2>1, <2>5 DEF StartEach, Advance
    <3>2. \A t \in Objects : Progress(t)'
      BY <1>1, <1>3, <2>1, <2>3, <2>5, <3>1
    <3> QED  BY <1>1, <3>1, <3>2 DEF DriverOK, Loops
  <2> QED  BY <1>1, <2>4, <2>5
<1>5. CASE SpinDone \/ SleepDone
  <2>1. /\ dpc \in {"spin", "sleep"} /\ dpc' \in {"repeat", "finish"}
        /\ UNCHANGED at /\ UNCHANGED vars
    BY <1>5 DEF SpinDone, SleepDone
  <2>2. \A t \in Objects : Progress(t)'
    BY <1>3, <2>1 DEF vars, flags
  <2> QED  BY <1>1, <2>1, <2>2 DEF DriverOK, Loops
<1>6. CASE RepeatEach \/ FinishEach
  <2>1. /\ dpc \in {"repeat", "finish"}
        /\ \/ dpc' \in {"repeat", "sleep", "finish"} /\ at' \in 1 .. Last
           \/ dpc' = "join" /\ at' = 1
        /\ UNCHANGED <<worker, running, handle, call, obj, intr>>
    <3>1. CASE RepeatEach  BY <1>1, <3>1 DEF RepeatEach, Advance, SetRepeat
    <3>2. CASE FinishEach  BY <1>1, <3>2 DEF FinishEach, Advance, SetRepeat
    <3> QED  BY <1>6, <3>1, <3>2
  <2>2. \A t \in Objects : Progress(t)'
    BY <1>1, <1>3, <2>1
  <2> QED  BY <1>1, <2>1, <2>2 DEF DriverOK, Loops
<1>7. CASE JoinEach
  <2>1. CASE handle[at] /\ ThreadJoin(at) /\ UNCHANGED driver
    <3>1. /\ dpc = "join" /\ UNCHANGED <<dpc, at>>
          /\ UNCHANGED <<worker, running, handle, obj, intr>>
          /\ call' = [call EXCEPT ![at] = "join"]
      BY <1>7, <2>1 DEF JoinEach, ThreadJoin, Advance, driver, flags, Is
    <3>2. \A t \in Objects : Progress(t)'
      BY <1>1, <1>3, <2>1, <3>1 DEF BoostInv, IInv, TypeOK
    <3> QED  BY <1>1, <3>1, <3>2 DEF DriverOK, Loops
  <2>2. CASE Advance("join", "done") /\ ~handle[at] /\ call[at] = "none" /\ UNCHANGED vars
    <3>1. /\ dpc = "join" /\ Over(at) /\ UNCHANGED <<worker, running, handle, call, obj, intr>>
          /\ IF at < Last THEN at' = at + 1 /\ dpc' = "join" ELSE at' = 1 /\ dpc' = "done"
      BY <1>1, <1>3, <2>2 DEF Advance, vars, flags
    <3>2. \A t \in Objects : Progress(t)'
      BY <1>1, <1>3, <3>1
    <3> QED  BY <1>1, <3>1, <3>2 DEF DriverOK, Loops
  <2> QED  BY <1>7, <2>1, <2>2 DEF JoinEach
<1> QED  BY <1>4, <1>5, <1>6, <1>7 DEF Driver

\* Under test_boost a worker ends by itself, and the join it is at returns.
LEMMA ObjectStep ==
  ASSUME BoostInv, NEW t \in Objects, Worker(t) \/ Joined(t), UNCHANGED driver
  PROVE  DriverOK'
<1> USE DEF Progress, Untouched, Launched, AtJoin, Over
<1>1. /\ UNCHANGED <<dpc, at>> /\ DriverOK /\ Last \in Nat \ {0} /\ Objects = 1 .. Last
      /\ \A s \in Objects : Live(s) => handle[s]
  BY BoostAssumption DEF driver, BoostInv, IInv, HandleOK
<1>2. CASE Worker(t)
  <2>1. worker[t] # "none" /\ UNCHANGED <<running, handle, call, obj, intr>>
    BY <1>2 DEF Worker, Test, MyFunc, BaseMyFunc, WakeUp, Interrupted, flags
  <2>2. worker'[t] # "none" /\ \A s \in Objects : s # t => worker'[s] = worker[s]
    BY <1>2 DEF Worker, Test, MyFunc, BaseMyFunc, WakeUp, Interrupted, Is, BoostInv, IInv, TypeOK
  <2>3. ASSUME dpc # "free", NEW s \in Objects PROVE Progress(s)'
    BY <1>1, <2>1, <2>2, <2>3 DEF DriverOK
  <2> QED  BY <1>1, <2>3 DEF DriverOK
<1>3. CASE Joined(t)
  <2>1. /\ call[t] \in {"join", "stop"} /\ UNCHANGED <<worker, running, obj, intr>>
        /\ handle' = [handle EXCEPT ![t] = FALSE] /\ call' = [call EXCEPT ![t] = "none"]
    BY <1>3 DEF Joined, Is, flags
  <2>2. ASSUME dpc # "free" PROVE dpc = "join" /\ t = at
    BY <1>1, <2>1, <2>2 DEF DriverOK, Loops
  <2>3. ASSUME dpc # "free", NEW s \in Objects PROVE Progress(s)'
    BY <1>1, <2>1, <2>2, <2>3 DEF DriverOK, BoostInv, IInv, TypeOK
  <2> QED  BY <1>1, <2>3 DEF DriverOK
<1> QED  BY <1>2, <1>3

LEMMA NextBoostInv == BoostInv /\ [NextBoost]_<<vars, driver>> => BoostInv'
<1> SUFFICES ASSUME BoostInv, [NextBoost]_<<vars, driver>> PROVE BoostInv'
  OBVIOUS
<1>1. IInv'
  BY BoostStepIsOwners, NextIInv DEF BoostInv
<1>2. ASSUME NEW t \in Objects, FreeOwner(t) PROVE DriverOK'
  BY <1>2 DEF FreeOwner, driver, BoostInv, DriverOK
<1>3. ASSUME UNCHANGED <<vars, driver>> PROVE DriverOK'
  <2>1. UNCHANGED <<obj, running, handle, call, worker, intr, dpc, at>>
    BY <1>3 DEF vars, flags, driver
  <2> QED
    BY <2>1 DEF BoostInv, DriverOK, Progress, Untouched, Launched, AtJoin, Over
<1>4. DriverOK'
  <2>1. CASE Driver
    BY <2>1, DriverStep
  <2>2. ASSUME NEW t \in Objects, Worker(t) \/ Joined(t), UNCHANGED driver PROVE DriverOK'
    BY <2>2, ObjectStep
  <2> QED  BY <1>2, <1>3, <2>1, <2>2 DEF NextBoost
<1> QED  BY <1>1, <1>4 DEF BoostInv

LEMMA InitBoostInv == InitBoost => BoostInv
<1> SUFFICES ASSUME InitBoost PROVE BoostInv
  OBVIOUS
<1>1. IInv /\ Last \in Nat \ {0} /\ Objects = 1 .. Last
  BY InitIInv, BoostAssumption DEF InitBoost
<1>2. at = 1 /\ dpc \in {"start", "free"} /\ \A t \in Objects : Untouched(t) /\ Progress(t)
  BY <1>1 DEF InitBoost, Init, Progress, Untouched
<1> QED  BY <1>1, <1>2 DEF BoostInv, DriverOK, Loops

THEOREM BoostInvariance == SpecBoost => []BoostInv
BY InitBoostInv, NextBoostInv, PTL DEF SpecBoost

\* test_boost uses its objects only as WrapThread lets an owner use them.
THEOREM BoostImplements == SpecBoost => Spec
<1>1. InitBoost => Init
  BY DEF InitBoost
<1>2. BoostInv /\ [NextBoost]_<<vars, driver>> => [Next]_vars
  BY BoostStepIsOwners DEF BoostInv
<1> QED  BY <1>1, <1>2, BoostInvariance, PTL DEF SpecBoost, Spec

\* So it inherits what holds of every owner.
THEOREM BoostIsQuiet == SpecBoost => [](TypeOK /\ StoppedMeansQuiet /\ EndedMeansFinished)
BY BoostImplements, ThreadTypeCorrect, StoppedIsQuiet, EndedIsFinished, PTL

\* When test_boost returns, every worker is over and did all its rounds, for any
\* number of objects: the safety half of BoostReturns.
THEOREM BoostLeavesNoWorker == SpecBoost => []JoinedHaveFinished
<1>1. BoostInv => JoinedHaveFinished
  <2> SUFFICES ASSUME BoostInv, dpc = "done", NEW t \in Objects
               PROVE  worker[t] = "done" /\ i[t] = N[t]
    BY DEF JoinedHaveFinished
  <2>1. Over(t) /\ ~intr[t]
    BY DEF BoostInv, DriverOK, Progress
  <2> QED  BY <2>1 DEF BoostInv, IInv, HandleOK, Live, Over
<1> QED  BY <1>1, BoostInvariance, PTL

\* The loop that clears is_repeat has passed the object, and none that sets it
\* comes after.
RepeatCleared ==
  /\ dpc \in {"spin", "sleep"} => at = 1
  /\ dpc = "finish" => \A t \in Objects : t < at => ~repeat[t]
  /\ dpc \in {"join", "done"} => \A t \in Objects : ~repeat[t]

\* test_boost waits for no worker that is to repeat.
JoinsTheFinishing == \A t \in Objects : dpc = "join" /\ call[t] = "join" => ~repeat[t]

LEMMA NextRepeatCleared ==
  ASSUME BoostInv, RepeatCleared, [NextBoost]_<<vars, driver>> PROVE RepeatCleared'
<1>1. at \in 1 .. Last /\ Last \in Nat \ {0} /\ Objects = 1 .. Last /\ repeat \in [Objects -> BOOLEAN]
  BY BoostAssumption DEF BoostInv, DriverOK, IInv, TypeOK
<1>2. CASE StartEach
  BY <1>2 DEF StartEach, Advance, RepeatCleared
<1>3. CASE SpinDone \/ SleepDone
  BY <1>1, <1>3 DEF SpinDone, SleepDone, vars, flags, RepeatCleared
<1>4. CASE RepeatEach
  BY <1>4 DEF RepeatEach, Advance, RepeatCleared
<1>5. CASE FinishEach
  <2>1. dpc = "finish" /\ repeat' = [repeat EXCEPT ![at] = FALSE]
    BY <1>5 DEF FinishEach, Advance, SetRepeat, Is
  <2>2. \A t \in Objects : t <= at => ~repeat'[t]
    BY <1>1, <2>1 DEF RepeatCleared
  <2>3. IF at < Last THEN at' = at + 1 /\ dpc' = "finish" ELSE dpc' = "join"
    BY <1>5 DEF FinishEach, Advance
  <2> QED  BY <1>1, <2>2, <2>3 DEF RepeatCleared
<1>6. CASE JoinEach
  BY <1>6 DEF JoinEach, Advance, ThreadJoin, flags, driver, vars, RepeatCleared
<1>7. ASSUME NEW t \in Objects, Worker(t) \/ Joined(t), UNCHANGED driver PROVE RepeatCleared'
  BY <1>7 DEF Worker, Test, MyFunc, BaseMyFunc, WakeUp, Interrupted, Joined, flags, driver, RepeatCleared
<1>8. ASSUME NEW t \in Objects, FreeOwner(t) PROVE RepeatCleared'
  BY <1>8 DEF FreeOwner, driver, RepeatCleared
<1>9. CASE UNCHANGED <<vars, driver>>
  BY <1>9 DEF vars, flags, driver, RepeatCleared
<1> QED  BY <1>2, <1>3, <1>4, <1>5, <1>6, <1>7, <1>8, <1>9 DEF NextBoost, Driver

\* Every join of test_boost is for a worker whose logic_while counts its rounds:
\* the safety half of the other part of BoostReturns.
THEOREM BoostJoinsTheFinishing == SpecBoost => []JoinsTheFinishing
<1>1. InitBoost => RepeatCleared
  BY DEF InitBoost, RepeatCleared
<1>2. RepeatCleared => JoinsTheFinishing
  BY DEF RepeatCleared, JoinsTheFinishing
<1> QED  BY <1>1, <1>2, NextRepeatCleared, BoostInvariance, PTL DEF SpecBoost
=============================================================================
