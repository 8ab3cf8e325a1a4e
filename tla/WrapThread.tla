------------------------------- MODULE WrapThread -------------------------------
(***************************************************************************)
(* Class wrap_thread of wrap_thread.h with its one derived class,          *)
(* test_th_a of streams_sockets.h: an object that owns a boost::thread     *)
(* which calls my_func until logic_while says no, and is stopped by an     *)
(* interrupt.  Each object has one owner, who may call its operations in   *)
(* any order and destroy it; the worker runs concurrently.                 *)
(***************************************************************************)
EXTENDS Naturals

CONSTANTS
  Objects,   \* the wrap_thread objects
  N          \* N[t]: test_th_a::n, how often logic_while lets my_func run

ASSUME ThreadAssumption == N \in [Objects -> Nat]

VARIABLES
  obj,       \* "derived", "base" once ~test_th_a is over, "gone"
  running,   \* running_
  repeat,    \* is_repeat_
  paused,    \* paused_
  handle,    \* worker_thread_.joinable()
  call,      \* the blocking call the owner is in
  worker,    \* where thread_func is
  intr,      \* an interrupt was requested from the worker
  i          \* test_th_a::i, not counted past N[t]

flags == <<running, repeat, paused>>
vars  == <<obj, flags, handle, call, worker, intr, i>>

Is(f, t, v) == f' = [f EXCEPT ![t] = v]

-----------------------------------------------------------------------------
(* The owner.                                                                *)

CanCall(t) == obj[t] = "derived" /\ call[t] = "none"

Launch(t) ==
  /\ CanCall(t) /\ ~running[t]
  /\ Is(running, t, TRUE) /\ Is(handle, t, TRUE)
  /\ Is(worker, t, "test") /\ Is(intr, t, FALSE)
  /\ UNCHANGED <<obj, repeat, paused, call, i>>

\* start() of an object whose running_ is set returns at once.
StartAgain(t) == CanCall(t) /\ running[t] /\ UNCHANGED vars

Start(t) == Launch(t) \/ StartAgain(t)

\* Mutant: stop() clears the flags and joins but interrupts nothing.
BeginStopQuietly(t) ==
  /\ running[t]
  /\ Is(repeat, t, FALSE) /\ Is(running, t, FALSE)
  /\ Is(call, t, "stop") /\ UNCHANGED intr

\* The part of stop() before join; stop() of an object not running is void.
BeginStop(t) ==
  /\ running[t]
  /\ Is(repeat, t, FALSE) /\ Is(running, t, FALSE)
  /\ intr' = [intr EXCEPT ![t] = handle[t]]
  /\ Is(call, t, "stop")

Stop(t) == CanCall(t) /\ BeginStop(t) /\ UNCHANGED <<obj, paused, handle, worker, i>>

\* thread_join(), which its callers guard by is_thread().
ThreadJoin(t) ==
  /\ CanCall(t) /\ handle[t]
  /\ Is(call, t, "join")
  /\ UNCHANGED <<obj, flags, handle, worker, intr, i>>

\* Mutant: stop() interrupts without waiting for the thread.
JoinedAtOnce(t) ==
  /\ call[t] = "stop" \/ (call[t] = "join" /\ worker[t] = "done")
  /\ Is(handle, t, FALSE) /\ Is(call, t, "none")
  /\ UNCHANGED <<obj, flags, worker, intr, i>>

\* join returns when thread_func has; stop() skips it without a handle.
Joined(t) ==
  /\ \/ call[t] = "join" /\ worker[t] = "done"
     \/ call[t] = "stop" /\ (handle[t] => worker[t] = "done")
  /\ Is(handle, t, FALSE) /\ Is(call, t, "none")
  /\ UNCHANGED <<obj, flags, worker, intr, i>>

SetRepeat(t, b) ==
  /\ CanCall(t)
  /\ Is(repeat, t, b)
  /\ UNCHANGED <<obj, running, paused, handle, call, worker, intr, i>>

Pause(t) ==
  /\ CanCall(t)
  /\ Is(paused, t, TRUE)
  /\ UNCHANGED <<obj, running, repeat, handle, call, worker, intr, i>>

Resume(t) ==
  /\ CanCall(t)
  /\ Is(paused, t, FALSE)
  /\ UNCHANGED <<obj, running, repeat, handle, call, worker, intr, i>>

\* delete: the derived part goes first, the worker sees the base's functions.
BeginDestroy(t) ==
  /\ CanCall(t)
  /\ Is(obj, t, "base")
  /\ UNCHANGED <<flags, handle, call, worker, intr, i>>

DestructorStop(t) ==
  /\ obj[t] = "base" /\ call[t] = "none"
  /\ BeginStop(t)
  /\ UNCHANGED <<obj, paused, handle, worker, i>>

EndDestroy(t) ==
  /\ obj[t] = "base" /\ call[t] = "none" /\ ~running[t]
  /\ Is(obj, t, "gone")
  /\ UNCHANGED <<flags, handle, call, worker, intr, i>>

Owner(t) == \/ Start(t) \/ Stop(t) \/ ThreadJoin(t) \/ Joined(t)
            \/ \E b \in BOOLEAN : SetRepeat(t, b)
            \/ Pause(t) \/ Resume(t)
            \/ BeginDestroy(t) \/ DestructorStop(t) \/ EndDestroy(t)

-----------------------------------------------------------------------------
(* The worker: thread_func.                                                  *)

\* Mutant: logic_while is off by one.
LogicWhileShort(t) == repeat[t] \/ obj[t] # "derived" \/ i[t] + 1 < N[t]

\* is_repeat_ ? wrap_thread::logic_while() : logic_while()
LogicWhile(t) == repeat[t] \/ obj[t] # "derived" \/ i[t] < N[t]

Test(t) ==
  /\ worker[t] = "test"
  /\ Is(worker, t, IF LogicWhile(t) THEN "func" ELSE "done")
  /\ UNCHANGED <<obj, flags, handle, call, intr, i>>

\* Mutant: a round is counted twice.
MyFuncTwice(t) ==
  /\ worker[t] = "func" /\ obj[t] = "derived"
  /\ Is(worker, t, "rest")
  /\ i' = [i EXCEPT ![t] = IF @ < N[t] THEN @ + 2 ELSE @]
  /\ UNCHANGED <<obj, flags, handle, call, intr>>

\* my_func of test_th_a up to its sleep.
MyFunc(t) ==
  /\ worker[t] = "func" /\ obj[t] = "derived"
  /\ Is(worker, t, "rest")
  /\ i' = [i EXCEPT ![t] = IF @ < N[t] THEN @ + 1 ELSE @]
  /\ UNCHANGED <<obj, flags, handle, call, intr>>

\* my_func of the base does nothing.
BaseMyFunc(t) ==
  /\ worker[t] = "func" /\ obj[t] # "derived"
  /\ Is(worker, t, "sleep")
  /\ UNCHANGED <<obj, flags, handle, call, intr, i>>

\* The sleep of my_func and the one of thread_func are the places where an
\* interrupt is noticed; a sleep may end before it comes.
WakeUp(t) ==
  /\ worker[t] \in {"rest", "sleep"} /\ ~intr[t]
  /\ Is(worker, t, IF worker[t] = "rest" THEN "sleep" ELSE "test")
  /\ UNCHANGED <<obj, flags, handle, call, intr, i>>

Interrupted(t) ==
  /\ worker[t] \in {"rest", "sleep"} /\ intr[t]
  /\ Is(worker, t, "done")
  /\ UNCHANGED <<obj, flags, handle, call, intr, i>>

Worker(t) == Test(t) \/ MyFunc(t) \/ BaseMyFunc(t) \/ WakeUp(t) \/ Interrupted(t)

-----------------------------------------------------------------------------
Init ==
  /\ obj = [t \in Objects |-> "derived"]
  /\ running = [t \in Objects |-> FALSE]
  /\ repeat = [t \in Objects |-> FALSE]
  /\ paused = [t \in Objects |-> FALSE]
  /\ handle = [t \in Objects |-> FALSE]
  /\ call = [t \in Objects |-> "none"]
  /\ worker = [t \in Objects |-> "none"]
  /\ intr = [t \in Objects |-> FALSE]
  /\ i = [t \in Objects |-> 0]

Next == \E t \in Objects : Owner(t) \/ Worker(t)

Spec == Init /\ [][Next]_vars

\* Workers are scheduled, a call that can return does, a destructor goes on.
Fairness == \A t \in Objects : /\ WF_vars(Worker(t))
                               /\ WF_vars(Joined(t))
                               /\ WF_vars(DestructorStop(t) \/ EndDestroy(t))
LiveSpec == Spec /\ Fairness

-----------------------------------------------------------------------------
Live(t) == worker[t] \notin {"none", "done"}

\* Types.
TypeOK ==
  /\ obj \in [Objects -> {"derived", "base", "gone"}]
  /\ running \in [Objects -> BOOLEAN] /\ repeat \in [Objects -> BOOLEAN]
  /\ paused \in [Objects -> BOOLEAN] /\ handle \in [Objects -> BOOLEAN]
  /\ call \in [Objects -> {"none", "stop", "join"}]
  /\ worker \in [Objects -> {"none", "test", "func", "rest", "sleep", "done"}]
  /\ intr \in [Objects -> BOOLEAN]
  /\ \A t \in Objects : i[t] \in 0 .. N[t]

\* An object whose running_ is clear outside stop() has no live worker: a
\* second start() never runs two workers, and none outlives its object.
StoppedMeansQuiet ==
  \A t \in Objects : ~running[t] /\ call[t] # "stop" => ~Live(t)

\* A worker ends before logic_while lets it only because it was interrupted,
\* however is_repeat_ was switched meanwhile.
EndedMeansFinished ==
  \A t \in Objects : worker[t] = "done" /\ ~intr[t] => i[t] = N[t]

\* stop() and the destructor return, although ~test_th_a leaves the worker
\* with the base's logic_while, which never says no.
StopReturns ==
  \A t \in Objects : /\ call[t] = "stop" ~> call[t] = "none"
                     /\ obj[t] = "base" ~> obj[t] = "gone"
=============================================================================
