--------------------------- MODULE BoostChannel_proofs ---------------------------
(***************************************************************************)
(* Under the named mutex a delivery is one whole message, and the channel  *)
(* is no more than LatestMessage, for any messages.                        *)
(***************************************************************************)
EXTENDS BoostChannel, TLAPS

\* Whoever is inside the scope of the lock is the one who has the mutex.
MutexHeld ==
  /\ (mutex = "writer") <=> (writer # "idle")
  /\ (mutex = "reader") <=> (reader \in {"wait", "check", "callback"})

\* The segments disagree only between the two halves of WriteData.
SegmentsAgree ==
  /\ ctl = posted
  /\ data = IF writer = "control" THEN posted + 1 ELSE posted
  /\ writer \in {"data", "control"} => posted < MaxMsg

\* The last delivery was whole, and of a message already written.
ShownWhole == DeliveryIsWhole /\ shown.newest <= posted

IInv == TypeOK /\ MutexHeld /\ SegmentsAgree /\ ShownWhole

\* The two segments as the reader finds them under the mutex, when they fit.
LEMMA PairUnderMutex ==
  ASSUME IInv, reader = "check", Fits
  PROVE  Pair = [oldest |-> posted, newest |-> posted] /\ posted \in 1 .. MaxMsg /\ ctl = posted
  BY DEF IInv, TypeOK, MutexHeld, SegmentsAgree, Pair, Fits

LEMMA InitIInv == Init => IInv
  BY ChannelAssumption DEF Init, IInv, TypeOK, MutexHeld, SegmentsAgree, ShownWhole, DeliveryIsWhole

\* What the writer does leaves what was shown alone and keeps the rest.
LEMMA WriterKeepsIInv == ASSUME IInv, Writer PROVE IInv'
<1> USE ChannelAssumption DEF IInv, TypeOK, MutexHeld, SegmentsAgree, ShownWhole, DeliveryIsWhole,
        writerVars, readerVars, ownerVars
<1>1. CASE LockWriter BY <1>1 DEF LockWriter, WriteStep
<1>2. CASE FillData BY <1>2 DEF FillData, WriteStep
<1>3. CASE FillControl BY <1>3 DEF FillControl, WriteStep
<1>4. CASE NotifyReader BY <1>4 DEF NotifyReader, Wake
<1>5. CASE UnlockWriter BY <1>5 DEF UnlockWriter, WriteStep
<1> QED BY <1>1, <1>2, <1>3, <1>4, <1>5 DEF Writer

\* The reader calls back only while it has the mutex.
LEMMA ReaderKeepsIInv == ASSUME IInv, Reader PROVE IInv'
<1> USE ChannelAssumption DEF IInv, TypeOK, MutexHeld, SegmentsAgree, ShownWhole, DeliveryIsWhole,
        writerVars, readerVars, ownerVars
<1>1. CASE TestRunning BY <1>1 DEF TestRunning, ReadStep
<1>2. CASE LockReader BY <1>2 DEF LockReader, ReadStep
<1>3. CASE BeginWait BY <1>3 DEF BeginWait, ReadStep
<1>4. CASE StopReading BY <1>4 DEF StopReading, ReadStep
<1>5. CASE SkipMessage BY <1>5 DEF SkipMessage, ReadStep
<1>6. CASE EnterCallback
  <2>1. shown' = [oldest |-> posted, newest |-> posted] /\ posted \in 1 .. MaxMsg /\ ctl = posted
    BY <1>6, PairUnderMutex DEF EnterCallback, ReadStep
  <2>2. bytes' = Claim[posted] /\ bytes' \in Nat
    BY <1>6, <2>1 DEF EnterCallback, Fits
  <2> QED BY <1>6, <2>1, <2>2 DEF EnterCallback, ReadStep
<1>7. CASE ReturnFromCallback BY <1>7 DEF ReturnFromCallback, ReadStep
<1> QED BY <1>1, <1>2, <1>3, <1>4, <1>5, <1>6, <1>7 DEF Reader

\* A wait that ends by itself, and the destructor, which takes no mutex.
LEMMA OthersKeepIInv ==
  ASSUME IInv, WakeSpuriously \/ ClearRunning \/ NotifyStop \/ JoinReader PROVE IInv'
  BY DEF IInv, TypeOK, MutexHeld, SegmentsAgree, ShownWhole, DeliveryIsWhole, writerVars, readerVars,
     ownerVars, WakeSpuriously, ReadStep, ClearRunning, NotifyStop, JoinReader, Wake

LEMMA StepKeepsIInv == IInv /\ [Next]_vars => IInv'
<1> SUFFICES ASSUME IInv, [Next]_vars PROVE IInv' OBVIOUS
<1>1. CASE Next BY <1>1, WriterKeepsIInv, ReaderKeepsIInv, OthersKeepIInv DEF Next
<1>2. CASE UNCHANGED vars
  BY <1>2 DEF IInv, TypeOK, MutexHeld, SegmentsAgree, ShownWhole, DeliveryIsWhole,
     vars, writerVars, readerVars, ownerVars
<1> QED BY <1>1, <1>2

LEMMA IInvHolds == Spec => []IInv
  BY InitIInv, StepKeepsIInv, PTL DEF Spec

\* The variables keep their types: no callback with a size that is no number.
THEOREM TypeCorrect == Spec => []TypeOK
  BY IInvHolds, PTL DEF IInv

\* run_control_event_loop calls back with the data and the control string of one
\* WriteData, cut to the size that string gives.
THEOREM DeliveriesAreWhole == Spec => []DeliveryIsWhole
<1>1. IInv => DeliveryIsWhole BY DEF IInv, ShownWhole
<1> QED BY <1>1, IInvHolds, PTL

\* Under IInv a step posts, shows or leaves both alone.
LEMMA StepIsLatest == IInv /\ [Next]_vars => [Latest!Next]_<<posted, shown>>
<1> SUFFICES ASSUME IInv, [Next]_vars PROVE [Latest!Next]_<<posted, shown>> OBVIOUS
<1>1. CASE FillControl
  BY <1>1 DEF FillControl, WriteStep, readerVars, Latest!Next, Latest!Post, IInv, SegmentsAgree
<1>2. CASE EnterCallback
  <2>1. shown' = [oldest |-> posted, newest |-> posted] /\ UNCHANGED posted
    BY <1>2, PairUnderMutex DEF EnterCallback, ReadStep, writerVars
  <2>2. posted \in shown.newest .. posted /\ posted \in posted .. posted
    BY DEF IInv, TypeOK, ShownWhole
  <2> QED BY <2>1, <2>2 DEF Latest!Next, Latest!Show
<1>3. ASSUME ~FillControl, ~EnterCallback PROVE UNCHANGED <<posted, shown>>
  BY <1>3 DEF Next, vars, writerVars, readerVars, ownerVars, Writer, Reader, WriteStep, ReadStep,
     LockWriter, FillData, NotifyReader, UnlockWriter, TestRunning, LockReader, BeginWait,
     StopReading, SkipMessage, ReturnFromCallback, WakeSpuriously, ClearRunning, NotifyStop, JoinReader
<1> QED BY <1>1, <1>2, <1>3

\* The channel implements LatestMessage: what was replaced never comes back.
THEOREM BoostImplementsLatestMessage == Spec => NeverGoesBack
<1>1. Init => Latest!Init BY DEF Init, Latest!Init
<1> QED BY <1>1, IInvHolds, StepIsLatest, PTL DEF Spec, NeverGoesBack, Latest!Spec

\* A message that can be handed over: its control string says how much, and that
\* much is there.
Showable(m) == m # 0 /\ Claim[m] # NoNumber /\ Claim[m] <= Size[m]

\* What a reader does that was woken and finds _running set: it shows the newest
\* message there is, and passes it over only if that cannot be shown.
NewestOrNothing ==
  reader = "check" /\ reader' # "check" /\ running =>
    IF Showable(posted) THEN shown' = [oldest |-> posted, newest |-> posted]
                        ELSE UNCHANGED shown

LEMMA StepShowsNewest == IInv /\ [Next]_vars => [NewestOrNothing]_vars
<1> SUFFICES ASSUME IInv, Next, reader = "check", reader' # "check", running
             PROVE  NewestOrNothing
  BY DEF NewestOrNothing
<1>1. ctl = posted /\ data = posted
  BY DEF IInv, TypeOK, MutexHeld, SegmentsAgree
<1>2. Fits <=> Showable(posted)
  BY <1>1 DEF Fits, Showable
<1>3. SkipMessage \/ EnterCallback
  BY DEF Next, writerVars, readerVars, ownerVars, Writer, Reader, WriteStep, ReadStep, LockWriter,
     FillData, FillControl, NotifyReader, Wake, UnlockWriter, TestRunning, LockReader, BeginWait,
     StopReading, ReturnFromCallback, WakeSpuriously, ClearRunning, NotifyStop, JoinReader
<1> QED
  BY <1>1, <1>2, <1>3, PairUnderMutex DEF NewestOrNothing, SkipMessage, EnterCallback

\* A reader that is woken shows the newest message of all, however many
\* notifications were lost: the safety half of WaitingReaderIsServed.
THEOREM WokenShowsNewest == Spec => [][NewestOrNothing]_vars
BY IInvHolds, StepShowsNewest, PTL DEF Spec
=============================================================================
