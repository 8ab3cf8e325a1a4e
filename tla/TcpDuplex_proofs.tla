----------------------------- MODULE TcpDuplex_proofs -----------------------------
(***************************************************************************)
(* Theorems about TcpDuplex for any number of messages, launches and       *)
(* connections.  A message is in one place: still in the queue, in the     *)
(* hands of run_send, on the wire, received too late, or handled.          *)
(***************************************************************************)
EXTENDS TcpDuplex, SequenceTheorems, TLAPS

\* The queue holds the latest messages, one after the other, and what run_send
\* has in its hands is the one before them.
QueueOK ==
  /\ Len(queue) <= sent
  /\ \A k \in 1 .. Len(queue) : queue[k] = sent - Len(queue) + k
  /\ cur = sent - Len(queue)

\* The stop message is the latest; send_data has yet to clear is_add_send_ only
\* in the call that queued it, and run_send stops for it, for nothing else, and
\* not before.
StopOK ==
  /\ stopMsg # 0 => stopMsg = sent
  /\ stopMsg # 0 /\ adding => owner = "queued"
  /\ ~adding => stopMsg # 0
  /\ owner = "queued" => sent # 0
  /\ ~working => stopMsg # 0 /\ queue = <<>>
  /\ stopMsg # 0 /\ working => queue # <<>>

\* The wire holds nothing but the message in the hands of run_send, and is empty
\* when it takes another; an answer on its way is the answer to that message.
WireOK ==
  /\ Len(wire) <= 2
  /\ Len(wire) > 0 => wire[1] = <<"length", cur>>
  /\ Len(wire) = 2 => wire[2] \in {<<"body", cur>>, <<"part", cur>>}
  /\ worker \notin {"body", "answer", "reconnect", "terminated"} => Len(wire) = 0
  /\ worker = "body" => Len(wire) <= 1
  /\ worker = "body" /\ conn = "up" => Len(wire) = 1
  /\ worker \in {"reconnect", "terminated"} => conn = "broken" \/ Len(wire) = 0
  /\ answers # <<>> => conn = "up" /\ worker = "answer" /\ Len(wire) = 0 /\ Len(answers) = 1 /\ answers[1] = cur

\* No message is handled twice.
HandledOnce == \A j, k \in DOMAIN handled : handled[j] = handled[k] => j = k

\* The server has not had m.
Fresh(m) == m \notin late /\ \A k \in DOMAIN handled : handled[k] # m

\* What the server has had is no newer than the message in the hands of
\* run_send, and that one is new to it until it is handled or given up.
HandledOK ==
  /\ HandledOnce
  /\ \A k \in DOMAIN handled : handled[k] <= cur /\ handled[k] \notin late
  /\ \A m \in late : m <= cur
  /\ worker \in {"length", "body"} => Fresh(cur)
  /\ Len(wire) = 2 /\ wire[2] = <<"body", cur>> => Fresh(cur)

IInv == TypeOK /\ QueueOK /\ StopOK /\ WireOK /\ HandledOK

-----------------------------------------------------------------------------
\* What the types say of the numbers of messages.
LEMMA Numbers ==
  ASSUME TypeOK
  PROVE  /\ sent \in Nat /\ stopMsg \in Nat /\ cur \in Nat /\ Len(queue) \in Nat
         /\ \A k \in DOMAIN handled : handled[k] \in Nat
         /\ \A m \in late : m \in Nat
<1> USE DuplexAssumption DEF TypeOK
<1>1. sent \in Nat /\ stopMsg \in Nat BY DEF OwnerTypeOK
<1>2. cur \in Nat /\ Len(queue) \in Nat BY DEF WorkerTypeOK
<1>3. (\A k \in DOMAIN handled : handled[k] \in Nat) /\ \A m \in late : m \in Nat
  BY DEF NetTypeOK, Messages
<1> QED BY <1>1, <1>2, <1>3

\* A number below three.
LEMMA UpToTwo == \A n \in Nat : n <= 2 => n = 2 \/ n = 1 \/ n = 0
  OBVIOUS

LEMMA OneAndAnother ==
  ASSUME NEW S, NEW s \in Seq(S), NEW x, Len(s) = 1
  PROVE  Len(Append(s, x)) = 2 /\ Append(s, x)[2] = x
OBVIOUS

LEMMA JustTwo == \A n \in Nat : n > 1 /\ n <= 2 => n = 2
  OBVIOUS

\* The server takes both parts of what it has.
LEMMA TwoTails ==
  ASSUME NEW S, NEW s \in Seq(S), Len(s) = 2
  PROVE  Tail(Tail(s)) = <<>>
<1> DEFINE t == Tail(s)
<1>1. t \in Seq(S) /\ Len(t) = 1 OBVIOUS
<1>2. Len(<<>>) = 0 OBVIOUS
<1> SUFFICES Tail(t) = <<>> OBVIOUS
<1> HIDE DEF t
<1>3. t # <<>> BY <1>1, <1>2
<1>4. Tail(t) \in Seq(S) /\ Len(Tail(t)) = 0 BY <1>1, <1>3, HeadTailProperties
<1> QED BY <1>4, EmptySeq

\* One more message handled, and none of them twice.
LEMMA OneMoreHandled ==
  ASSUME NEW m \in Messages, handled \in Seq(Messages), HandledOnce,
         \A k \in DOMAIN handled : handled[k] # m, handled' = Append(handled, m)
  PROVE  /\ HandledOnce'
         /\ \A k \in DOMAIN handled' : handled'[k] = m \/ \E j \in DOMAIN handled : handled'[k] = handled[j]
<1>1. Len(handled') = Len(handled) + 1 /\ Len(handled) \in Nat /\ DOMAIN handled' = 1 .. Len(handled')
      /\ DOMAIN handled = 1 .. Len(handled)
  OBVIOUS
<1>2. \A k \in 1 .. Len(handled) : handled'[k] = handled[k]
  OBVIOUS
<1>3. handled'[Len(handled) + 1] = m
  OBVIOUS
<1> QED BY <1>1, <1>2, <1>3 DEF HandledOnce

\* The constructor establishes the invariant.
LEMMA InitIInv == Init => IInv
<1> SUFFICES ASSUME Init PROVE IInv OBVIOUS
<1> USE DuplexAssumption DEF Init
<1>1. TypeOK
  <2>1. OwnerTypeOK BY DEF OwnerTypeOK, TypeOK, Messages
  <2>2. WorkerTypeOK BY DEF OwnerTypeOK, WorkerTypeOK, NetTypeOK, TypeOK, Messages
  <2>3. NetTypeOK BY DEF OwnerTypeOK, WorkerTypeOK, NetTypeOK, TypeOK, Messages
  <2>4. FlagsTypeOK BY DEF FlagsTypeOK, TypeOK
  <2> QED BY <2>1, <2>2, <2>3, <2>4 DEF TypeOK
<1>2. QueueOK /\ StopOK
  <2>1. sent = 0 /\ cur = 0 /\ Len(queue) = 0 OBVIOUS
  <2>2. StopOK BY DEF StopOK
  <2> HIDE DEF Init
  <2>3. QueueOK BY <2>1 DEF QueueOK
  <2> QED BY <2>2, <2>3
<1>3. WireOK BY DEF WireOK
<1>4. HandledOK BY DEF HandledOK, HandledOnce, Fresh
<1> QED BY <1>1, <1>2, <1>3, <1>4 DEF IInv

\* The owner's calls: only send_data touches what the invariant orders.
LEMMA OwnerKeepsIInv == ASSUME IInv, Owner PROVE IInv'
<1> USE DuplexAssumption DEF IInv, ownerVars, netVars
<1>1. ASSUME NEW isStop \in BOOLEAN, Enqueue(isStop) PROVE IInv'
  <2> USE <1>1 DEF Enqueue, Queue
  <2>1. TypeOK'
    <3>1. OwnerTypeOK' BY DEF OwnerTypeOK, TypeOK, Messages
    <3>2. WorkerTypeOK' BY DEF OwnerTypeOK, WorkerTypeOK, NetTypeOK, TypeOK, Messages
    <3>3. NetTypeOK' BY DEF OwnerTypeOK, WorkerTypeOK, NetTypeOK, TypeOK, Messages
    <3>4. FlagsTypeOK' BY DEF FlagsTypeOK, TypeOK
    <3> QED BY <3>1, <3>2, <3>3, <3>4 DEF TypeOK
  <2>2. QueueOK'
    <3>1. /\ Len(queue') = Len(queue) + 1 /\ sent' = sent + 1 /\ cur' = cur
          /\ \A k \in 1 .. Len(queue) : queue'[k] = queue[k]
          /\ queue'[Len(queue) + 1] = sent + 1
      BY DEF TypeOK, WorkerTypeOK
    <3>2. Len(queue) \in Nat /\ sent \in Nat /\ cur = sent - Len(queue) /\ Len(queue) <= sent
          /\ \A k \in 1 .. Len(queue) : queue[k] = sent - Len(queue) + k
      BY Numbers DEF QueueOK
    <3> HIDE DEF Enqueue, Queue, IInv
    <3>3. \A k \in 1 .. Len(queue') : queue'[k] = sent' - Len(queue') + k
      BY <3>1, <3>2
    <3>4. cur' = sent' - Len(queue') /\ Len(queue') <= sent'
      BY <3>1, <3>2
    <3> QED BY <3>3, <3>4 DEF QueueOK
  <2>3. StopOK' BY DEF TypeOK, OwnerTypeOK, WorkerTypeOK, NetTypeOK, StopOK
  <2>4. WireOK' BY DEF WireOK
  <2>5. HandledOK' BY DEF HandledOK, HandledOnce, Fresh
  <2> QED BY <2>1, <2>2, <2>3, <2>4, <2>5
<1>2. ASSUME SetEvent \/ StartThread \/ StopThread \/ Destroy \/ Joined PROVE IInv'
  <2> USE <1>2 DEF SetEvent, StartThread, StopThread, Destroy, Joined
  <2>1. TypeOK'
    <3>1. OwnerTypeOK' BY DEF OwnerTypeOK, TypeOK, Messages
    <3>2. WorkerTypeOK' BY DEF OwnerTypeOK, WorkerTypeOK, NetTypeOK, TypeOK, Messages
    <3>3. NetTypeOK' BY DEF OwnerTypeOK, WorkerTypeOK, NetTypeOK, TypeOK, Messages
    <3>4. FlagsTypeOK' BY DEF FlagsTypeOK, TypeOK
    <3> QED BY <3>1, <3>2, <3>3, <3>4 DEF TypeOK
  <2>2. QueueOK' BY DEF QueueOK
  <2>3. StopOK'
    <3>1. adding' => adding /\ (owner = "queued" => sent # stopMsg) BY DEF FlagsTypeOK, TypeOK
    <3>2. UNCHANGED <<stopMsg, sent, working, queue>> OBVIOUS
    <3>3. stopMsg # 0 => stopMsg = sent BY DEF StopOK
    <3>4. stopMsg # 0 => ~adding' BY <3>1, <3>3 DEF StopOK
    <3>5. (~working => stopMsg # 0 /\ queue = <<>>) /\ (stopMsg # 0 /\ working => queue # <<>>)
      BY DEF StopOK
    <3>6. (owner = "queued" => sent # 0) /\ (owner' = "queued" => owner = "queued") BY DEF StopOK
    <3>7. ~adding' => stopMsg # 0
      BY <3>6 DEF StopOK, FlagsTypeOK, TypeOK
    <3> QED BY <3>6, <3>7, <3>2, <3>3, <3>4, <3>5 DEF StopOK
  <2>4. WireOK' BY DEF WireOK, Joinable
  <2>5. HandledOK' BY DEF HandledOK, HandledOnce, Fresh
  <2> QED BY <2>1, <2>2, <2>3, <2>4, <2>5
<1> QED BY <1>1, <1>2 DEF Owner

\* The steps of run_send that move on without touching anything else.
LEMMA LookingKeepsIInv ==
  ASSUME IInv, TestStop \/ WaitOne \/ WaitTimeout \/ SizeApprox \/ ResetEvent \/ NothingToDequeue
               \/ Throw \/ ReconnectThrows
  PROVE  IInv'
<1> USE DEF IInv, ownerVars, netVars, TestStop, WaitOne, WaitTimeout, SizeApprox, ResetEvent,
            NothingToDequeue, Throw, ReconnectThrows, JustGoto, Goto
<1>1. TypeOK'
  <2>1. OwnerTypeOK' BY DEF OwnerTypeOK, TypeOK, Messages
  <2>2. WorkerTypeOK' BY DEF OwnerTypeOK, WorkerTypeOK, NetTypeOK, TypeOK, Messages
  <2>3. NetTypeOK'
    <3>1. <<>> \in Seq(Messages) OBVIOUS
    <3> QED BY <3>1 DEF NetTypeOK, TypeOK
  <2>4. FlagsTypeOK' BY DEF FlagsTypeOK, TypeOK
  <2> QED BY <2>1, <2>2, <2>3, <2>4 DEF TypeOK
<1>2. QueueOK' BY DEF QueueOK
<1>3. StopOK' BY DEF StopOK
<1>4. WireOK'
  <2>1. UNCHANGED <<wire, cur, conn>> /\ answers' \in {answers, <<>>} OBVIOUS
  <2>2. /\ worker' \notin {"body", "answer"}
        /\ worker' \notin {"reconnect", "terminated"} =>
             worker \notin {"body", "answer", "reconnect", "terminated"}
    OBVIOUS
  <2>3. answers' = <<>>
    <3>1. CASE Throw BY <3>1 DEF WireOK
    <3>2. CASE ~Throw
      <4>1. UNCHANGED answers /\ worker # "answer" BY <3>2
      <4> QED BY <4>1 DEF WireOK
    <3> QED BY <3>1, <3>2
  <2>4. worker' \in {"reconnect", "terminated"} => conn = "broken" \/ Len(wire) = 0
    <3>1. CASE Throw BY <3>1 DEF WireOK
    <3>2. CASE ReconnectThrows BY <3>2 DEF WireOK
    <3> QED BY <3>1, <3>2
  <2> HIDE DEF TestStop, WaitOne, WaitTimeout, SizeApprox, ResetEvent, NothingToDequeue, Throw,
               ReconnectThrows
  <2> QED BY <2>1, <2>2, <2>3, <2>4 DEF WireOK
<1>5. HandledOK' BY DEF HandledOK, HandledOnce, Fresh
<1> QED BY <1>1, <1>2, <1>3, <1>4, <1>5

\* The message taken is newer than all the server has had.  If it is the stop
\* message it was the only one in the queue.
LEMMA TakingKeepsIInv == ASSUME IInv, TryDequeue PROVE IInv'
<1> USE DuplexAssumption DEF IInv, ownerVars, netVars, TryDequeue, Goto
<1>1. Len(queue) \in Nat \ {0} /\ cur' = sent - Len(queue) + 1 /\ cur' > cur /\ cur' \in Messages
  BY DEF TypeOK, OwnerTypeOK, WorkerTypeOK, NetTypeOK, Messages, QueueOK
<1>2. queue' = Tail(queue) /\ Len(queue') = Len(queue) - 1 /\ queue' \in Seq(Messages)
  BY <1>1 DEF TypeOK, OwnerTypeOK, WorkerTypeOK, NetTypeOK, Messages
<1>3. \A k \in 1 .. Len(queue') : queue'[k] = queue[k + 1]
  BY <1>1, <1>2 DEF TypeOK, OwnerTypeOK, WorkerTypeOK, NetTypeOK
<1>4. TypeOK'
  <2>1. OwnerTypeOK' BY <1>1, <1>2 DEF OwnerTypeOK, TypeOK, Messages
  <2>2. WorkerTypeOK' BY <1>1, <1>2 DEF OwnerTypeOK, WorkerTypeOK, NetTypeOK, TypeOK, Messages
  <2>3. NetTypeOK' BY <1>1, <1>2 DEF OwnerTypeOK, WorkerTypeOK, NetTypeOK, TypeOK, Messages
  <2>4. FlagsTypeOK' BY DEF FlagsTypeOK, TypeOK
  <2> QED BY <2>1, <2>2, <2>3, <2>4 DEF TypeOK
<1>5. QueueOK' BY <1>1, <1>2, <1>3 DEF TypeOK, OwnerTypeOK, WorkerTypeOK, NetTypeOK, QueueOK, Messages
<1>6. StopOK'
  <2>1. CASE cur' = stopMsg
    <3>1. stopMsg = sent BY <2>1, <1>1 DEF StopOK, Messages, TypeOK, OwnerTypeOK, WorkerTypeOK, NetTypeOK
    <3>2. Len(queue) = 1
      <4> HIDE DEF TryDequeue
      <4> QED BY <2>1, <3>1, <1>1, Numbers
    <3>3. queue' = <<>> BY <3>2, <1>2
    <3>4. ~working' BY <2>1
    <3>5. UNCHANGED <<stopMsg, sent, adding, owner>> /\ stopMsg # 0 BY <2>1, <1>1 DEF Messages
    <3> HIDE DEF TryDequeue
    <3> QED BY <3>1, <3>3, <3>4, <3>5 DEF StopOK
  <2>2. CASE cur' # stopMsg
    <3>1. working' = TRUE /\ UNCHANGED <<stopMsg, sent, adding, owner>> BY <2>2
    <3> HIDE DEF TryDequeue
    <3>2. stopMsg # 0 => queue' # <<>>
      <4>1. SUFFICES ASSUME stopMsg # 0, queue' = <<>> PROVE FALSE OBVIOUS
      <4>2. stopMsg = sent /\ Len(queue') = 0 BY <4>1 DEF StopOK
      <4> QED BY <1>1, <1>2, <2>2, <4>2, Numbers
    <3> QED BY <3>1, <3>2 DEF StopOK
  <2> QED BY <2>1, <2>2
<1>7. WireOK' BY <1>1 DEF WireOK, TypeOK, OwnerTypeOK, WorkerTypeOK, NetTypeOK
<1>8. HandledOK'
  <2>1. \A k \in DOMAIN handled : handled[k] \in Nat /\ handled[k] < cur'
    BY <1>1, Numbers DEF HandledOK, Messages
  <2>2. \A m \in late : m \in Nat /\ m < cur'
    BY <1>1, Numbers DEF HandledOK, Messages
  <2>3. Fresh(cur') BY <2>1, <2>2, <1>1 DEF Fresh
  <2> QED BY <2>1, <2>2, <2>3, <1>1 DEF HandledOK, HandledOnce, Fresh, Messages
<1> QED BY <1>4, <1>5, <1>6, <1>7, <1>8

\* The two writes put the message in hand on the wire, if there is one.
LEMMA WritingKeepsIInv == ASSUME IInv, WriteLength \/ WriteBody PROVE IInv'
<1> USE DEF IInv, ownerVars, netVars, Goto
<1>1. CASE WriteLength
  <2> USE <1>1 DEF WriteLength, Put
  <2>1. TypeOK'
    <3>1. OwnerTypeOK' BY DEF OwnerTypeOK, TypeOK, Messages
    <3>2. WorkerTypeOK' BY DEF OwnerTypeOK, WorkerTypeOK, NetTypeOK, TypeOK, Messages
    <3>3. NetTypeOK' BY DEF OwnerTypeOK, WorkerTypeOK, NetTypeOK, TypeOK, Messages
    <3>4. FlagsTypeOK' BY DEF FlagsTypeOK, TypeOK
    <3> QED BY <3>1, <3>2, <3>3, <3>4 DEF TypeOK
  <2>2. QueueOK' /\ StopOK' BY DEF QueueOK, StopOK
  <2>3. WireOK' BY DEF WireOK, TypeOK, OwnerTypeOK, WorkerTypeOK, NetTypeOK
  <2>4. HandledOK' BY <2>3 DEF HandledOK, HandledOnce, Fresh, WireOK
  <2> QED BY <2>1, <2>2, <2>3, <2>4
<1>2. CASE WriteBody
  <2> USE <1>2 DEF WriteBody, Put
  <2>1. TypeOK'
    <3>1. OwnerTypeOK' BY DEF OwnerTypeOK, TypeOK, Messages
    <3>2. WorkerTypeOK' BY DEF OwnerTypeOK, WorkerTypeOK, NetTypeOK, TypeOK, Messages
    <3>3. NetTypeOK'
      <4>1. <<IF cur \in Big THEN "part" ELSE "body", cur>> \in {"length", "part", "body"} \X Messages
        BY DEF TypeOK, WorkerTypeOK
      <4> QED BY <4>1 DEF TypeOK, NetTypeOK
    <3>4. FlagsTypeOK' BY DEF FlagsTypeOK, TypeOK
    <3> QED BY <3>1, <3>2, <3>3, <3>4 DEF TypeOK
  <2>2. QueueOK' /\ StopOK' BY DEF QueueOK, StopOK
  <2>3. WireOK' BY DEF WireOK, TypeOK, OwnerTypeOK, WorkerTypeOK, NetTypeOK
  <2>4. HandledOK' BY DEF HandledOK, HandledOnce, Fresh
  <2> QED BY <2>1, <2>2, <2>3, <2>4
<1> QED BY <1>1, <1>2

\* The answer taken is the one to the message in hand, and the last there is.
LEMMA ReadingKeepsIInv == ASSUME IInv, ReadAnswer PROVE IInv'
<1> USE DEF IInv, ownerVars, netVars, ReadAnswer, Goto
<1>1. answers' = <<>> /\ Head(answers) = cur BY DEF WireOK, TypeOK, OwnerTypeOK, WorkerTypeOK, NetTypeOK
<1>2. TypeOK'
  <2>1. answers' \in Seq(Messages)
    <3>1. <<>> \in Seq(Messages) OBVIOUS
    <3> QED BY <3>1, <1>1
  <2>2. OwnerTypeOK' /\ NetTypeOK' BY <2>1 DEF TypeOK, OwnerTypeOK, NetTypeOK
  <2>3. WorkerTypeOK' BY DEF TypeOK, WorkerTypeOK
  <2>4. FlagsTypeOK' BY DEF TypeOK, FlagsTypeOK
  <2> QED BY <2>2, <2>3, <2>4 DEF TypeOK
<1>3. QueueOK' /\ StopOK' BY DEF QueueOK, StopOK
<1>4. WireOK' BY <1>1 DEF WireOK
<1>5. HandledOK' BY DEF HandledOK, HandledOnce, Fresh, WireOK
<1> QED BY <1>2, <1>3, <1>4, <1>5

\* A new connection begins with an empty wire; what was whole on the old one was
\* the message in hand, which is not sent again.
LEMMA ReconnectKeepsIInv == ASSUME IInv, Reconnect PROVE IInv'
<1> USE DEF IInv, ownerVars, netVars, Reconnect, Connect, Goto
<1>0. ASSUME NEW k \in DOMAIN wire, NEW m \in Messages, wire[k] = <<"body", m>>
      PROVE  m = cur /\ Fresh(cur)
  <2>1. k \in 1 .. Len(wire) /\ Len(wire) \in Nat BY DEF TypeOK, NetTypeOK
  <2>2. k # 1 BY <1>0, <2>1 DEF WireOK
  <2>3. k = 2 /\ Len(wire) = 2
    <3>1. Len(wire) <= 2 BY DEF WireOK
    <3> HIDE DEF IInv, Reconnect
    <3>2. Len(wire) \in {0, 1, 2} BY <2>1, <3>1, UpToTwo
    <3> QED BY <2>1, <2>2, <3>2
  <2>4. m = cur BY <1>0, <2>3 DEF WireOK
  <2> QED BY <1>0, <2>3, <2>4 DEF HandledOK
<1>1. late' \subseteq late \cup {cur} /\ late' \subseteq Messages
  BY <1>0 DEF TypeOK, NetTypeOK, Messages
<1>2. cur \in late' => cur \in late \/ Fresh(cur)
  BY <1>0 DEF Messages
<1>3. TypeOK'
  <2>1. OwnerTypeOK' BY <1>1 DEF OwnerTypeOK, TypeOK, Messages
  <2>2. WorkerTypeOK' BY <1>1 DEF OwnerTypeOK, WorkerTypeOK, NetTypeOK, TypeOK, Messages
  <2>3. NetTypeOK' BY <1>1 DEF OwnerTypeOK, WorkerTypeOK, NetTypeOK, TypeOK, Messages
  <2>4. FlagsTypeOK' BY DEF FlagsTypeOK, TypeOK
  <2> QED BY <2>1, <2>2, <2>3, <2>4 DEF TypeOK
<1>4. QueueOK' /\ StopOK' BY DEF QueueOK, StopOK
<1>5. WireOK' BY DEF WireOK
<1>6. HandledOK'
  <2>1. worker' = "test" /\ wire' = <<>> /\ UNCHANGED <<handled, cur>> OBVIOUS
  <2>2. \A k \in DOMAIN handled : handled[k] \notin late' BY <1>1, <1>2 DEF HandledOK, Fresh
  <2>3. \A m \in late' : m <= cur BY <1>1, Numbers DEF HandledOK
  <2> HIDE DEF Reconnect
  <2> QED BY <2>1, <2>2, <2>3 DEF HandledOK, HandledOnce
<1> QED BY <1>3, <1>4, <1>5, <1>6

\* The server handles what is new to it.
LEMMA ServerKeepsIInv == ASSUME IInv, Server PROVE IInv'
<1> USE DEF IInv, ownerVars, netVars
<1>1. CASE Answer
  <2> USE <1>1 DEF Answer
  <2>1. Len(wire) = 2 /\ wire[1] = <<"length", cur>> /\ wire[2] = <<"body", cur>>
    <3>1. Len(wire) \in Nat /\ Len(wire) > 1 BY DEF TypeOK, NetTypeOK
    <3>2. wire[2] = <<"body", wire[1][2]>> OBVIOUS
    <3> HIDE DEF Answer
    <3>3. Len(wire) <= 2 /\ (Len(wire) > 0 => wire[1] = <<"length", cur>>) BY DEF WireOK
    <3>4. Len(wire) = 2
      <4> HIDE DEF IInv
      <4> QED BY <3>1, <3>3, JustTwo
    <3>5. wire[1] = <<"length", cur>> BY <3>3, <3>4
    <3> QED BY <3>2, <3>4, <3>5
  <2>a. worker = "answer" /\ answers = <<>>
    <3>1. conn = "up" OBVIOUS
    <3> HIDE DEF Answer
    <3> QED BY <2>1, <3>1 DEF WireOK, TypeOK, WorkerTypeOK
  <2>b. wire' = <<>>
    <3>1. wire' = Tail(Tail(wire)) OBVIOUS
    <3> HIDE DEF Answer
    <3> DEFINE S == {"length", "part", "body"} \X Messages
    <3>2. wire \in Seq(S) BY DEF TypeOK, NetTypeOK
    <3> HIDE DEF S
    <3> QED BY <2>1, <3>1, <3>2, TwoTails
  <2>c. handled' = Append(handled, cur) /\ answers' = <<cur>> BY <2>1, <2>a
  <2>2. Fresh(cur) BY <2>1 DEF HandledOK
  <2>3. cur \in Messages BY <2>a DEF TypeOK, WorkerTypeOK
  <2>4. TypeOK'
    <3>1. OwnerTypeOK' BY DEF OwnerTypeOK, TypeOK
    <3>2. WorkerTypeOK' BY DEF WorkerTypeOK, TypeOK
    <3>3. NetTypeOK' BY <2>b, <2>c, <2>3 DEF NetTypeOK, TypeOK
    <3>4. FlagsTypeOK' BY DEF FlagsTypeOK, TypeOK
    <3> QED BY <3>1, <3>2, <3>3, <3>4 DEF TypeOK
  <2>5. QueueOK' /\ StopOK' BY DEF QueueOK, StopOK
  <2>6. WireOK'
    <3>1. UNCHANGED <<worker, cur, conn>> /\ conn = "up" OBVIOUS
    <3> HIDE DEF Answer
    <3> QED BY <3>1, <2>a, <2>b, <2>c DEF WireOK
  <2>7. HandledOK'
    <3>1. UNCHANGED <<worker, cur, late>> OBVIOUS
    <3> HIDE DEF Answer
    <3>2. HandledOnce' /\ \A k \in DOMAIN handled' :
             handled'[k] = cur \/ \E j \in DOMAIN handled : handled'[k] = handled[j]
      BY <2>c, <2>2, <2>3, OneMoreHandled DEF TypeOK, NetTypeOK, HandledOK, Fresh
    <3> QED BY <3>1, <3>2, <2>a, <2>b, <2>2, Numbers DEF HandledOK, Fresh
  <2> QED BY <2>4, <2>5, <2>6, <2>7
<1>2. CASE Break
  <2> USE <1>2 DEF Break
  <2>1. TypeOK'
    <3>1. OwnerTypeOK' BY DEF OwnerTypeOK, TypeOK, Messages
    <3>2. WorkerTypeOK' BY DEF OwnerTypeOK, WorkerTypeOK, NetTypeOK, TypeOK, Messages
    <3>3. NetTypeOK' BY DEF OwnerTypeOK, WorkerTypeOK, NetTypeOK, TypeOK, Messages
    <3>4. FlagsTypeOK' BY DEF FlagsTypeOK, TypeOK
    <3> QED BY <3>1, <3>2, <3>3, <3>4 DEF TypeOK
  <2>2. QueueOK' /\ StopOK' BY DEF QueueOK, StopOK
  <2>3. WireOK' BY DEF WireOK
  <2>4. HandledOK' BY DEF HandledOK, HandledOnce, Fresh
  <2> QED BY <2>1, <2>2, <2>3, <2>4
<1>3. CASE HandleLate
  <2>1. PICK m \in late : handled' = Append(handled, m) /\ late' = late \ {m}
    BY <1>3 DEF HandleLate
  <2> USE <1>3, <2>1 DEF HandleLate
  <2>2. m \in Messages BY DEF TypeOK, OwnerTypeOK, WorkerTypeOK, NetTypeOK
  <2>3. TypeOK'
    <3>1. OwnerTypeOK' BY <2>2 DEF OwnerTypeOK, TypeOK, Messages
    <3>2. WorkerTypeOK' BY <2>2 DEF OwnerTypeOK, WorkerTypeOK, NetTypeOK, TypeOK, Messages
    <3>3. NetTypeOK' BY <2>2 DEF OwnerTypeOK, WorkerTypeOK, NetTypeOK, TypeOK, Messages
    <3>4. FlagsTypeOK' BY DEF FlagsTypeOK, TypeOK
    <3> QED BY <3>1, <3>2, <3>3, <3>4 DEF TypeOK
  <2>4. QueueOK' /\ StopOK' BY DEF QueueOK, StopOK
  <2>5. WireOK' BY DEF WireOK
  <2>6. HandledOK'
    <3>1. UNCHANGED <<worker, cur, wire>> OBVIOUS
    <3> HIDE DEF HandleLate
    <3>2. HandledOnce' /\ \A k \in DOMAIN handled' :
             handled'[k] = m \/ \E j \in DOMAIN handled : handled'[k] = handled[j]
      BY <2>1, <2>2, OneMoreHandled DEF TypeOK, NetTypeOK, HandledOK
    <3>3. m # cur \/ ~Fresh(cur) BY DEF Fresh
    <3> QED BY <2>1, <3>1, <3>2, <3>3, Numbers DEF HandledOK, Fresh
  <2> QED BY <2>3, <2>4, <2>5, <2>6
<1> QED BY <1>1, <1>2, <1>3 DEF Server

\* Every step of the owner, of run_send and of the server keeps it.
LEMMA StepKeepsIInv == IInv /\ [Next]_vars => IInv'
<1> SUFFICES ASSUME IInv, [Next]_vars PROVE IInv' OBVIOUS
<1>1. CASE Owner BY <1>1, OwnerKeepsIInv
<1>2. CASE RunSend
  BY <1>2, LookingKeepsIInv, TakingKeepsIInv, WritingKeepsIInv, ReadingKeepsIInv, ReconnectKeepsIInv DEF RunSend
<1>3. CASE Server BY <1>3, ServerKeepsIInv
<1>4. CASE UNCHANGED vars
  <2> USE <1>4 DEF IInv, vars, ownerVars, netVars
  <2>1. TypeOK'
    <3>1. OwnerTypeOK' /\ NetTypeOK' BY DEF TypeOK, OwnerTypeOK, NetTypeOK
    <3>2. WorkerTypeOK' BY DEF TypeOK, WorkerTypeOK
    <3>3. FlagsTypeOK' BY DEF TypeOK, FlagsTypeOK
    <3> QED BY <3>1, <3>2, <3>3 DEF TypeOK
  <2>2. QueueOK' /\ StopOK' BY DEF QueueOK, StopOK
  <2>3. WireOK' BY DEF WireOK
  <2>4. HandledOK' BY DEF HandledOK, HandledOnce, Fresh
  <2> QED BY <2>1, <2>2, <2>3, <2>4
<1> QED BY <1>1, <1>2, <1>3, <1>4 DEF Next

\* A message is always in one place: queue, hands of run_send, wire, server.
THEOREM Invariance == Spec => []IInv
  BY InitIInv, StepKeepsIInv, PTL DEF Spec

\* The variables keep their types: run_send sends only what was queued.
THEOREM DuplexTypeCorrect == Spec => []TypeOK
<1>1. IInv => TypeOK BY DEF IInv
<1> QED BY <1>1, Invariance, PTL

\* No message is handled twice, wherever connections break.
THEOREM NothingHandledTwice == Spec => []HandledOnce
<1>1. IInv => HandledOnce BY DEF IInv, HandledOK
<1> QED BY <1>1, Invariance, PTL

\* No other step takes an answer.
LEMMA StepKeepsMatch == IInv /\ AnswersMatch /\ [Next]_vars => AnswersMatch'
<1> SUFFICES ASSUME IInv, AnswersMatch, [Next]_vars PROVE AnswersMatch' OBVIOUS
<1>1. CASE ReadAnswer
  <2>1. Head(answers) = cur BY <1>1 DEF IInv, TypeOK, NetTypeOK, WireOK, ReadAnswer
  <2> QED BY <1>1, <2>1 DEF ReadAnswer, AnswersMatch
<1>2. ASSUME ~ReadAnswer PROVE UNCHANGED matched
  BY <1>2 DEF Next, vars, ownerVars, netVars, Owner, Enqueue, Queue, SetEvent, StartThread, StopThread,
     Destroy, Joined, RunSend, TestStop, WaitOne, WaitTimeout, SizeApprox, ResetEvent, TryDequeue,
     NothingToDequeue, WriteLength, WriteBody, Throw, Reconnect, ReconnectThrows, Connect, JustGoto, Goto,
     Server, Answer, Break, HandleLate
<1> QED BY <1>1, <1>2 DEF AnswersMatch

\* The answer run_send takes is the one to the message it has just sent.
THEOREM AnswersAlwaysMatch == Spec => []AnswersMatch
<1>1. Init => AnswersMatch BY DEF Init, AnswersMatch
<1> QED BY <1>1, Invariance, StepKeepsMatch, PTL DEF Spec

\* Nothing is left in the queue when run_send has taken the stop message.
THEOREM NothingAfterStop == Spec => []StopMessageIsLast
<1>1. IInv => StopMessageIsLast BY DEF IInv, StopOK, StopMessageIsLast
<1> QED BY <1>1, Invariance, PTL

\* run_send takes the messages one by one in the order of the calls of send_data:
\* none is passed over, and none is taken again after a reconnection.
TakenInTurn ==
  /\ cur' \in {cur, cur + 1}
  /\ worker' = "length" /\ worker # "length" => cur' = cur + 1

\* No other step takes a message or goes to the first write.
LEMMA StepTakesInTurn == IInv /\ [Next]_vars => TakenInTurn
<1> SUFFICES ASSUME IInv, [Next]_vars PROVE TakenInTurn OBVIOUS
<1>1. CASE TryDequeue
  <2>1. Len(queue) \in Nat \ {0} /\ Head(queue) = queue[1]
    BY <1>1 DEF TryDequeue, IInv, TypeOK, WorkerTypeOK
  <2>2. queue[1] = cur + 1
    BY <2>1, Numbers DEF IInv, QueueOK
  <2> QED BY <1>1, <2>1, <2>2 DEF TryDequeue, TakenInTurn
<1>2. ASSUME ~TryDequeue PROVE UNCHANGED cur /\ (worker' = "length" => worker = "length")
  BY <1>2 DEF Next, vars, ownerVars, netVars, Owner, Enqueue, Queue, SetEvent, StartThread, StopThread,
     Destroy, Joined, RunSend, TestStop, WaitOne, WaitTimeout, SizeApprox, ResetEvent, ReadAnswer,
     NothingToDequeue, WriteLength, WriteBody, Throw, Reconnect, ReconnectThrows, Connect, JustGoto, Goto,
     Server, Answer, Break, HandleLate
<1> QED BY <1>1, <1>2, Numbers DEF TakenInTurn, IInv

\* Each message is sent once, in its turn.
THEOREM EachInItsTurn == Spec => [][TakenInTurn]_vars
<1>1. IInv /\ [Next]_vars => [TakenInTurn]_vars BY StepTakesInTurn
<1> QED BY <1>1, Invariance, PTL DEF Spec

\* What the server handles is a message it has not handled, and one taken.
LEMMA HandledIsNew ==
  ASSUME IInv, Server, handled' # handled
  PROVE  Delivery!Handle
<1>1. PICK m \in Messages : /\ m <= cur /\ \A k \in DOMAIN handled : handled[k] # m
                            /\ handled' = Append(handled, m)
  <2>1. CASE Answer
    <3>1. wire[1][2] = cur /\ wire[2] = <<"body", cur>> /\ Len(wire) = 2 /\ cur \in Messages
      <4>1. wire \in Seq({"length", "part", "body"} \X Messages) /\ Len(wire) > 1 /\ Len(wire) <= 2
        BY <2>1 DEF Answer, IInv, TypeOK, NetTypeOK, WireOK
      <4>2. wire[1] = <<"length", cur>> /\ wire[1] \in {"length", "part", "body"} \X Messages
        BY <4>1 DEF IInv, WireOK
      <4>3. wire[1][2] = cur /\ cur \in Messages BY <4>2
      <4>4. Len(wire) = 2 BY <4>1, JustTwo
      <4> QED BY <2>1, <4>3, <4>4 DEF Answer
    <3>2. Fresh(cur) BY <3>1 DEF IInv, HandledOK
    <3> QED BY <2>1, <3>1, <3>2, Numbers DEF Answer, IInv, Fresh
  <2>2. CASE HandleLate
    <3>1. PICK m \in late : handled' = Append(handled, m) /\ late' = late \ {m}
      BY <2>2 DEF HandleLate
    <3>2. m \in Messages /\ m <= cur /\ \A k \in DOMAIN handled : handled[k] # m
      BY <3>1 DEF IInv, TypeOK, NetTypeOK, HandledOK
    <3> QED BY <3>1, <3>2
  <2> QED BY <2>1, <2>2 DEF Server, Break
<1>2. UNCHANGED <<sent, cur>> BY DEF Server, Answer, Break, HandleLate, ownerVars
<1>3. m \in 1 .. cur BY <1>1, Numbers DEF Messages, IInv
<1> QED BY <1>1, <1>2, <1>3 DEF Delivery!Handle

\* Every step of the sender and of the server is one of AtMostOnce or none.
THEOREM ImplementsAtMostOnce == Spec => HandledAtMostOnce
<1>1. Init => Delivery!Init BY DEF Init, Delivery!Init
<1>2. ASSUME IInv, [Next]_vars PROVE [Delivery!Next]_<<sent, cur, handled>>
  <2>1. CASE TryDequeue
    <3>1. cur' = cur + 1 /\ UNCHANGED <<sent, handled>>
      BY <1>2, <2>1, StepTakesInTurn DEF TakenInTurn, TryDequeue, Goto, ownerVars, netVars
    <3>2. Len(queue) \in Nat \ {0} /\ cur = sent - Len(queue) /\ sent \in Nat
      BY <1>2, <2>1, Numbers DEF TryDequeue, IInv, TypeOK, WorkerTypeOK, QueueOK
    <3> QED BY <3>1, <3>2 DEF Delivery!Next, Delivery!Take
  <2>2. CASE Server
    BY <1>2, <2>2, HandledIsNew DEF Delivery!Next, Server, Answer, Break, HandleLate, ownerVars
  <2>3. ASSUME NEW isStop \in BOOLEAN, Enqueue(isStop) PROVE Delivery!Next
    BY <2>3 DEF Enqueue, Queue, Delivery!Next, Delivery!Enqueue, netVars
  <2>4. CASE ~TryDequeue /\ ~Server /\ ~\E isStop \in BOOLEAN : Enqueue(isStop)
    BY <1>2, <2>4 DEF Next, vars, ownerVars, netVars, Owner, SetEvent, StartThread, StopThread,
       Destroy, Joined, RunSend, TestStop, WaitOne, WaitTimeout, SizeApprox, ResetEvent, ReadAnswer,
       NothingToDequeue, WriteLength, WriteBody, Throw, Reconnect, ReconnectThrows, Connect, JustGoto, Goto
  <2> QED BY <2>1, <2>2, <2>3, <2>4
<1>3. IInv /\ [Next]_vars => [Delivery!Next]_<<sent, cur, handled>> BY <1>2
<1> QED BY <1>1, <1>3, Invariance, PTL DEF Spec, HandledAtMostOnce, Delivery!Spec

\* Once send_data takes no more messages, run_send goes on exactly as long as
\* the stop message waits for it in the queue.
StopIsComing == ~adding => (working <=> InQueue(stopMsg))

\* The stop message is neither lost nor taken for another: the safety half of
\* OwnerReturns, where the destructor joins without asking run_send to stop.
THEOREM StopAlwaysComes == Spec => []StopIsComing
<1>1. ASSUME IInv, ~adding PROVE working <=> InQueue(stopMsg)
  <2>1. stopMsg # 0 /\ stopMsg = sent BY <1>1 DEF IInv, StopOK
  <2>2. CASE working
    <3>1. Len(queue) \in Nat \ {0} /\ DOMAIN queue = 1 .. Len(queue)
      BY <1>1, <2>1, <2>2 DEF IInv, StopOK, TypeOK, WorkerTypeOK
    <3>2. queue[Len(queue)] = sent
      BY <1>1, <3>1, Numbers DEF IInv, QueueOK
    <3> QED BY <2>1, <2>2, <3>1, <3>2 DEF InQueue
  <2>3. CASE ~working
    <3>1. queue = <<>> BY <1>1, <2>3 DEF IInv, StopOK
    <3> QED BY <2>3, <3>1 DEF InQueue
  <2> QED BY <1>1, <2>2, <2>3 DEF IInv, TypeOK, FlagsTypeOK
<1>2. IInv => StopIsComing BY <1>1 DEF StopIsComing
<1> QED BY <1>2, Invariance, PTL

\* run_send ends for a request to stop, or because it took the stop message.
EndOK == worker = "done" => stopReq \/ ~working

\* What run_send waits for at the end of a pass, on a connection that is up: the
\* rest of a long message is with nobody, and any other is whole on the wire or
\* answered.
AnswerIsDue ==
  worker = "answer" /\ conn = "up" =>
    IF cur \in Big THEN answers = <<>> /\ (Len(wire) = 2 => wire[2] # <<"body", cur>>)
                   ELSE answers # <<>> \/ (Len(wire) = 2 /\ wire[2] = <<"body", cur>>)

\* run_send waits in vain for a server that answers exactly when its message is a
\* long one: the excuse Held in QueueIsServed and OwnerReturns covers nothing else,
\* and nothing but a broken connection ends it.
THEOREM OnlyLongMessagesHold == Spec => []AnswerIsDue
<1>1. Init => AnswerIsDue BY DEF Init, AnswerIsDue
<1>2. IInv /\ AnswerIsDue /\ [Next]_vars => AnswerIsDue'
  <2> SUFFICES ASSUME IInv, AnswerIsDue, [Next]_vars PROVE AnswerIsDue' OBVIOUS
  <2>1. CASE WriteBody
    <3>1. CASE conn = "up"
      <4>1. Len(wire) = 1 /\ answers = <<>> BY <2>1, <3>1 DEF IInv, WireOK, WriteBody, Goto
      <4>2. /\ Len(wire') = 2
            /\ wire'[2] = <<IF cur \in Big THEN "part" ELSE "body", cur>>
        <5> DEFINE x == <<IF cur \in Big THEN "part" ELSE "body", cur>>
        <5>1. wire' = Append(wire, x)  BY <2>1, <3>1 DEF WriteBody, Put
        <5>2. wire \in Seq({"length", "part", "body"} \X Messages)  BY DEF IInv, TypeOK, NetTypeOK
        <5> HIDE DEF x
        <5>3. Len(wire') = 2 /\ wire'[2] = x  BY <4>1, <5>1, <5>2, OneAndAnother
        <5> QED BY <5>3 DEF x
      <4> QED BY <2>1, <4>1, <4>2 DEF AnswerIsDue, WriteBody
    <3>2. CASE conn # "up" BY <2>1, <3>2 DEF AnswerIsDue, WriteBody
    <3> QED BY <3>1, <3>2
  <2>2. CASE Answer
    <3>1. Len(wire) = 2 /\ wire[2] = <<"body", cur>>
      <4>1. Len(wire) \in Nat /\ Len(wire) > 1 /\ wire[2] = <<"body", wire[1][2]>>
        BY <2>2 DEF Answer, IInv, TypeOK, NetTypeOK
      <4>2. Len(wire) <= 2 /\ wire[1] = <<"length", cur>> BY <4>1 DEF IInv, WireOK
      <4>3. Len(wire) = 2 BY <4>1, <4>2, JustTwo
      <4>4. wire[1][2] = cur BY <4>2
      <4> QED BY <4>1, <4>3, <4>4
    <3>2. worker = "answer" /\ conn = "up" BY <2>2, <3>1 DEF Answer, IInv, WireOK, TypeOK, WorkerTypeOK
    <3>3. cur \notin Big BY <3>1, <3>2 DEF AnswerIsDue
    <3>4. answers' # <<>> /\ cur' = cur BY <2>2 DEF Answer, IInv, TypeOK, NetTypeOK
    <3> QED BY <3>3, <3>4 DEF AnswerIsDue
  <2>3. CASE Owner \/ Break \/ HandleLate
    BY <2>3 DEF AnswerIsDue, Owner, Enqueue, Queue, SetEvent, StartThread, StopThread, Destroy,
       Joined, Break, HandleLate, netVars
  <2>4. CASE RunSend /\ ~WriteBody
    <3>1. worker' # "answer"
      BY <2>4 DEF RunSend, TestStop, WaitOne, WaitTimeout, SizeApprox, ResetEvent, TryDequeue,
         NothingToDequeue, WriteLength, ReadAnswer, Throw, Reconnect, ReconnectThrows, Connect,
         JustGoto, Goto
    <3> QED BY <3>1 DEF AnswerIsDue
  <2>5. CASE UNCHANGED vars BY <2>5 DEF AnswerIsDue, vars, netVars
  <2> QED BY <2>1, <2>2, <2>3, <2>4, <2>5 DEF Next, Server
<1> QED BY <1>1, <1>2, Invariance, PTL DEF Spec

\* run_send never ends with messages in the queue unless it was told to stop,
\* although the owner may still be in the send_data that queued the stop message
\* when that message is taken: the safety half of QueueIsServed.
THEOREM EndsWithEmptyQueue ==
  Spec => [](queue # <<>> /\ Joinable /\ ~stopReq => working /\ worker # "done")
<1>1. Init => EndOK BY DEF Init, EndOK
<1>2. IInv /\ EndOK /\ [Next]_vars => EndOK'
  <2> SUFFICES ASSUME IInv, EndOK, [Next]_vars PROVE EndOK' OBVIOUS
  <2>1. CASE Owner \/ Server
    BY <2>1 DEF EndOK, Owner, Enqueue, Queue, SetEvent, StartThread, StopThread, Destroy, Joined,
       Server, Answer, Break, HandleLate
  <2>2. CASE RunSend
    BY <2>2 DEF EndOK, RunSend, TestStop, WaitOne, WaitTimeout, SizeApprox, ResetEvent, TryDequeue,
       NothingToDequeue, WriteLength, WriteBody, ReadAnswer, Throw, Reconnect, ReconnectThrows, Connect,
       JustGoto, Goto
  <2>3. CASE UNCHANGED vars BY <2>3 DEF EndOK, vars
  <2> QED BY <2>1, <2>2, <2>3 DEF Next
<1>3. IInv /\ EndOK => (queue # <<>> /\ Joinable /\ ~stopReq => working /\ worker # "done")
  BY DEF IInv, StopOK, EndOK
<1> QED BY <1>1, <1>2, <1>3, Invariance, PTL DEF Spec
=============================================================================
