------------------------------ MODULE BoostChannel ------------------------------
(***************************************************************************)
(* The earlier MemoryBase, kept beside the present one as "memory_base -   *)
(* копия.cpp": one direction of the transport over Boost.Interprocess, its *)
(* two segments guarded by a named mutex and announced by a named          *)
(* condition.  A segment holds the number of the message it was filled     *)
(* with, 0: not constructed.                                               *)
(***************************************************************************)
EXTENDS Naturals

CONSTANTS
  MaxMsg,     \* bound: calls of WriteData
  Size,       \* Size[m]: bytes of message m
  Claim,      \* Claim[m]: what its "size" entry says, NoNumber: none, or not a number
  NoNumber

ASSUME ChannelAssumption ==
  /\ MaxMsg \in Nat /\ NoNumber \notin Nat
  /\ Size \in [1 .. MaxMsg -> Nat]
  /\ Claim \in [1 .. MaxMsg -> Nat \cup {NoNumber}]

VARIABLES
  mutex,    \* _eventMutex: "free", "writer", "reader"
  data,     \* _shmData
  ctl,      \* _shmControl
  posted,   \* messages written
  writer,   \* where WriteData is
  reader,   \* where run_control_event_loop is
  running,  \* _running
  owner,    \* where the destructor of the reading side is
  shown,    \* oldest and newest message of what the last callback got
  bytes     \* the size of the data it got

writerVars == <<data, ctl, posted, writer>>
readerVars == <<reader, shown, bytes>>
ownerVars  == <<running, owner>>
vars       == <<mutex, writerVars, readerVars, ownerVars>>

-----------------------------------------------------------------------------
(* WriteData.                                                                *)

WriteStep(from, to) == writer = from /\ writer' = to /\ UNCHANGED <<readerVars, ownerVars>>

\* Mutant: the mutex is not taken.
LockWriterNot ==
  /\ posted < MaxMsg
  /\ WriteStep("idle", "data")
  /\ UNCHANGED <<mutex, data, ctl, posted>>

LockWriter ==
  /\ posted < MaxMsg /\ mutex = "free"
  /\ WriteStep("idle", "data")
  /\ mutex' = "writer"
  /\ UNCHANGED <<data, ctl, posted>>

FillData ==
  /\ WriteStep("data", "control")
  /\ data' = posted + 1
  /\ UNCHANGED <<mutex, ctl, posted>>

FillControl ==
  /\ WriteStep("control", "notify")
  /\ ctl' = posted + 1 /\ posted' = posted + 1
  /\ UNCHANGED <<mutex, data>>

\* notify_all is lost on a reader that is not waiting.
Wake == reader' = IF reader = "waiting" THEN "woken" ELSE reader

NotifyReader ==
  /\ writer = "notify" /\ writer' = "unlock"
  /\ Wake
  /\ UNCHANGED <<mutex, data, ctl, posted, shown, bytes, ownerVars>>

UnlockWriter ==
  /\ WriteStep("unlock", "idle")
  /\ mutex' = "free"
  /\ UNCHANGED <<data, ctl, posted>>

Writer == LockWriter \/ FillData \/ FillControl \/ NotifyReader \/ UnlockWriter

-----------------------------------------------------------------------------
(* run_control_event_loop.                                                   *)

ReadStep(from, to) == reader = from /\ reader' = to /\ UNCHANGED <<writerVars, ownerVars>>

TestRunning ==
  /\ ReadStep("test", IF running THEN "lock" ELSE "done")
  /\ UNCHANGED <<mutex, shown, bytes>>

\* The scoped_lock, and the mutex anew on the way out of wait.
LockReader ==
  /\ mutex = "free" /\ mutex' = "reader"
  /\ ReadStep("lock", "wait") \/ ReadStep("woken", "check")
  /\ UNCHANGED <<shown, bytes>>

\* wait gives the mutex back and begins to wait in one step.
BeginWait ==
  /\ ReadStep("wait", "waiting")
  /\ mutex' = "free"
  /\ UNCHANGED <<shown, bytes>>

\* A wait may end without a notification, and asks for no condition.
WakeSpuriously ==
  /\ ReadStep("waiting", "woken")
  /\ UNCHANGED <<mutex, shown, bytes>>

\* Told to stop: break, out of the scope of the lock.
StopReading ==
  /\ ~running
  /\ ReadStep("check", "done")
  /\ mutex' = "free"
  /\ UNCHANGED <<shown, bytes>>

\* What lies in the two segments, as the messages it is made of.
Pair == [oldest |-> IF data < ctl THEN data ELSE ctl, newest |-> IF data < ctl THEN ctl ELSE data]

\* Mutant: > for >=.
FitsStrictly == ctl # 0 /\ Claim[ctl] # NoNumber /\ data # 0 /\ Claim[ctl] < Size[data]

Fits == ctl # 0 /\ Claim[ctl] # NoNumber /\ data # 0 /\ Claim[ctl] <= Size[data]

\* No control block yet, no number in it, or not as many data: the next round.
SkipMessage ==
  /\ running /\ ~Fits
  /\ ReadStep("check", "test")
  /\ mutex' = "free"
  /\ UNCHANGED <<shown, bytes>>

\* Mutant: the callback is called with the size of the data as they lie there.
EnterCallbackUncut ==
  /\ running /\ Fits
  /\ ReadStep("check", "callback")
  /\ shown' = Pair
  /\ bytes' = Size[data]
  /\ UNCHANGED mutex

\* Mutant: nobody looks whether there is a size, and enough data for it.
EnterCallbackUnchecked ==
  /\ running /\ ctl # 0
  /\ ReadStep("check", "callback")
  /\ shown' = Pair
  /\ bytes' = Claim[ctl]
  /\ UNCHANGED mutex

\* A copy of the data, cut to the size of the control block, and the callback.
EnterCallback ==
  /\ running /\ Fits
  /\ ReadStep("check", "callback")
  /\ shown' = Pair
  /\ bytes' = Claim[ctl]
  /\ UNCHANGED mutex

ReturnFromCallback ==
  /\ ReadStep("callback", "test")
  /\ mutex' = "free"
  /\ UNCHANGED <<shown, bytes>>

Reader == \/ TestRunning \/ LockReader \/ BeginWait \/ StopReading
          \/ SkipMessage \/ EnterCallback \/ ReturnFromCallback

-----------------------------------------------------------------------------
(* The destructor of the reading side, which takes no mutex.                 *)

ClearRunning ==
  /\ owner = "using" /\ owner' = "notify"
  /\ running' = FALSE
  /\ UNCHANGED <<mutex, writerVars, readerVars>>

NotifyStop ==
  /\ owner = "notify" /\ owner' = "join"
  /\ Wake
  /\ UNCHANGED <<mutex, writerVars, running, shown, bytes>>

JoinReader ==
  /\ owner = "join" /\ reader = "done"
  /\ owner' = "gone"
  /\ UNCHANGED <<mutex, writerVars, readerVars, running>>

-----------------------------------------------------------------------------
Init ==
  /\ mutex = "free" /\ data = 0 /\ ctl = 0 /\ posted = 0 /\ writer = "idle"
  /\ reader = "test" /\ running = TRUE /\ owner = "using"
  /\ shown = [oldest |-> 0, newest |-> 0] /\ bytes = 0

Next == \/ Writer \/ Reader \/ WakeSpuriously
        \/ ClearRunning \/ NotifyStop \/ JoinReader

Spec == Init /\ [][Next]_vars

\* Both threads are scheduled and a call begun is carried through; nobody has to
\* make one. Strong fairness for the reader: a mutex that becomes free again and
\* again is handed to it in the end. No wait has to end by itself.
LiveSpec == /\ Spec /\ SF_vars(Reader)
            /\ WF_vars(FillData \/ FillControl \/ NotifyReader \/ UnlockWriter)
            /\ WF_vars(NotifyStop \/ JoinReader)

-----------------------------------------------------------------------------
\* Types.
TypeOK ==
  /\ mutex \in {"free", "writer", "reader"}
  /\ data \in 0 .. MaxMsg /\ ctl \in 0 .. MaxMsg /\ posted \in 0 .. MaxMsg
  /\ writer \in {"idle", "data", "control", "notify", "unlock"}
  /\ reader \in {"test", "lock", "wait", "waiting", "woken", "check", "callback", "done"}
  /\ running \in BOOLEAN /\ owner \in {"using", "notify", "join", "gone"}
  /\ shown \in [oldest : 0 .. MaxMsg, newest : 0 .. MaxMsg] /\ bytes \in Nat

\* What the callback gets is one message: the data WriteData wrote with this
\* control string, and as many bytes as that says.
DeliveryIsWhole ==
  /\ shown.oldest = shown.newest
  /\ shown.newest # 0 => bytes = Claim[shown.newest]

\* Even so the channel is no more than LatestMessage: a message can be skipped,
\* or shown again after a wait that nobody ended, and none comes back.
Latest == INSTANCE LatestMessage
NeverGoesBack == Latest!Spec

\* A message written while the reader waits is shown to it, unless a newer one
\* is written or the reader is told to stop.
AnnouncedToWaiting(m) == /\ writer = "notify" /\ reader = "waiting" /\ posted = m
                         /\ Claim[m] # NoNumber /\ Claim[m] <= Size[m]
WaitingReaderIsServed ==
  \A m \in 1 .. MaxMsg :
    AnnouncedToWaiting(m) ~> (shown.newest >= m \/ posted > m \/ ~running)

\* "Разбудить поток, чтобы он мог проверить _running и завершиться": the
\* destructor wakes the thread so that it can check _running and end.
DestructorEndsThread == owner = "join" ~> reader = "done"
=============================================================================
