------------------------------- MODULE TcpDuplex -------------------------------
(***************************************************************************)
(* Class TcpDuplex of TcpDuplex.cpp: a queue of messages that one thread,  *)
(* run_send, takes and sends to a server, waiting for its answer to each;  *)
(* a manual_reset_event that wakes it; and an owner who sends, stops and   *)
(* destroys.  A message is the number of the send_data call that queued    *)
(* it.  run_read returns at once and has no state.                         *)
(***************************************************************************)
EXTENDS Naturals, Sequences

CONSTANTS
  MaxSend,   \* bound: calls of send_data that queue a message
  MaxLaunch, \* bound: calls of start_thread
  Big        \* the messages longer than one write of Asio, 64 KB

ASSUME DuplexAssumption == MaxSend \in Nat /\ MaxLaunch \in Nat /\ Big \subseteq 1 .. MaxSend

VARIABLES
  sent,      \* messages queued so far
  stopMsg,   \* the message equal to stop_working_, 0: none yet
  queue,     \* queue_send_
  signaled,  \* wait_handle_
  adding,    \* is_add_send_
  working,   \* is_working_send_
  stopReq,   \* the stop token of the thread that runs
  owner,     \* the call the owner is in
  launched,  \* how often start_thread was called
  worker,    \* where run_send is
  cur,       \* data_
  conn,      \* the connection: "up", or "broken" by the other side
  wire,      \* what of the messages the server has received on it, in order
  answers,   \* the answers on their way back, by message
  late,      \* messages the server received on former connections
  handled,   \* the messages the server has handled
  matched    \* every answer taken so far was to the message just sent

ownerVars == <<sent, stopMsg, adding, owner, launched>>
netVars   == <<conn, wire, answers, late, handled>>
vars      == <<ownerVars, netVars, queue, signaled, working, stopReq, worker, cur, matched>>

-----------------------------------------------------------------------------
(* The owner.                                                                *)

Queue(isStop) ==
  /\ owner = "idle" /\ sent < MaxSend
  /\ sent' = sent + 1
  /\ queue' = Append(queue, sent + 1)
  /\ stopMsg' = IF isStop /\ stopMsg = 0 THEN sent + 1 ELSE stopMsg
  /\ owner' = "queued"
  /\ UNCHANGED <<adding, launched, netVars, signaled, working, stopReq, worker, cur, matched>>

\* Mutant: send_data goes on queueing after the stop message.
EnqueueAlways(isStop) == Queue(isStop)

\* send_data up to enqueue; without is_add_send_ it returns at once.
Enqueue(isStop) == adding /\ Queue(isStop)

\* The rest of send_data: is_add_send_, which only the owner reads, and set().
SetEvent ==
  /\ owner = "queued"
  /\ adding' = (adding /\ sent # stopMsg)
  /\ signaled' = TRUE
  /\ owner' = "idle"
  /\ UNCHANGED <<sent, stopMsg, launched, netVars, queue, working, stopReq, worker, cur, matched>>

Joinable == worker \notin {"none", "joined"}

StartThread ==
  /\ owner = "idle" /\ (Joinable => worker = "done") /\ launched < MaxLaunch
  /\ launched' = launched + 1
  /\ worker' = "test" /\ stopReq' = FALSE
  /\ UNCHANGED <<sent, stopMsg, adding, owner, netVars, queue, signaled, working, cur, matched>>

\* stop_thread passes by a thread that is not joinable.
StopThread ==
  /\ owner = "idle" /\ Joinable
  /\ stopReq' = TRUE
  /\ owner' = "stopping"
  /\ UNCHANGED <<sent, stopMsg, adding, launched, netVars, queue, signaled, working, worker, cur, matched>>

\* The destructor joins without a request to stop.  join of a thread that is
\* not joinable throws, and a destructor that throws ends the process.
Destroy ==
  /\ owner = "idle"
  /\ owner' = IF Joinable THEN "destroying" ELSE "terminated"
  /\ UNCHANGED <<sent, stopMsg, adding, launched, netVars, queue, signaled, working, stopReq, worker, cur, matched>>

Joined ==
  /\ owner \in {"stopping", "destroying"} /\ worker = "done"
  /\ worker' = "joined"
  /\ owner' = IF owner = "stopping" THEN "idle" ELSE "gone"
  /\ UNCHANGED <<sent, stopMsg, adding, launched, netVars, queue, signaled, working, stopReq, cur, matched>>

Owner == \/ \E isStop \in BOOLEAN : Enqueue(isStop)
         \/ SetEvent \/ StartThread \/ StopThread \/ Destroy \/ Joined

-----------------------------------------------------------------------------
(* The thread of run_send.                                                   *)

Goto(from, to) ==
  /\ worker = from
  /\ worker' = to
  /\ UNCHANGED <<ownerVars, stopReq>>

JustGoto(from, to) ==
  Goto(from, to) /\ UNCHANGED <<netVars, queue, signaled, working, cur, matched>>

\* Mutant: the stop token is not looked at.
TestFlagOnly == JustGoto("test", IF working THEN "wait" ELSE "done")

TestStop == JustGoto("test", IF ~stopReq /\ working THEN "wait" ELSE "done")

\* wait_one(500): true with the event set, false when the time is over.
WaitOne == signaled /\ JustGoto("wait", "size")

\* Mutant: the loop looks into the queue only when the event woke it.
WaitTimeoutIgnored == ~signaled /\ JustGoto("wait", "test")
WaitTimeout        == ~signaled /\ JustGoto("wait", "take")

SizeApprox == JustGoto("size", IF queue = <<>> THEN "reset" ELSE "take")

\* A message queued since size_approx leaves the event reset all the same.
ResetEvent ==
  /\ Goto("reset", "test")
  /\ signaled' = FALSE
  /\ UNCHANGED <<netVars, queue, working, cur, matched>>

\* try_dequeue and the test for the stop message, which is sent like others.
TryDequeue ==
  /\ queue # <<>>
  /\ Goto("take", "length")
  /\ cur' = Head(queue) /\ queue' = Tail(queue)
  /\ working' = (Head(queue) # stopMsg)
  /\ UNCHANGED <<netVars, signaled, matched>>

\* Mutant: the result of try_dequeue is not looked at.
SendAnyway == queue = <<>> /\ JustGoto("take", "length")

NothingToDequeue == queue = <<>> /\ JustGoto("take", "test")

Put(part) == wire' = IF conn = "up" THEN Append(wire, <<part, cur>>) ELSE wire

\* The write of the length; a break need not be noticed by a write.  is_open
\* holds after a write that did not throw.
WriteLength ==
  /\ Goto("length", "body")
  /\ Put("length")
  /\ UNCHANGED <<conn, answers, late, handled, queue, signaled, working, cur, matched>>

\* async_write puts 64 KB out.  What is left to it, and what async_wait is to
\* do, are handlers of io_context_, which nothing runs: no step stands for them.
WriteBody ==
  /\ Goto("body", "answer")
  /\ Put(IF cur \in Big THEN "part" ELSE "body")
  /\ UNCHANGED <<conn, answers, late, handled, queue, signaled, working, cur, matched>>

\* Mutant: an answer that has not come is not waited for.
ReadIfThere ==
  /\ Goto("answer", "test")
  /\ answers' = IF answers = <<>> THEN answers ELSE Tail(answers)
  /\ matched' = (matched /\ (answers = <<>> \/ Head(answers) = cur))
  /\ UNCHANGED <<conn, wire, late, handled, queue, signaled, working, cur>>

\* The two blocking reads of an answer.
ReadAnswer ==
  /\ answers # <<>>
  /\ Goto("answer", "test")
  /\ answers' = Tail(answers)
  /\ matched' = (matched /\ Head(answers) = cur)
  /\ UNCHANGED <<conn, wire, late, handled, queue, signaled, working, cur>>

\* A blocking write or read of a broken connection throws; so does, on one that
\* is up, a buffer of the length an answer announces, when it is too large.
Throw ==
  \/ conn = "broken" /\ \E from \in {"length", "answer"} : JustGoto(from, "reconnect")
  \/ /\ answers # <<>> /\ Goto("answer", "reconnect")
     /\ answers' = <<>>
     /\ UNCHANGED <<conn, wire, late, handled, queue, signaled, working, cur, matched>>

Connect(to) ==
  /\ Goto("reconnect", to)
  /\ conn' = "up" /\ wire' = <<>> /\ answers' = <<>>
  /\ late' = late \cup {m \in 1 .. MaxSend : \E k \in DOMAIN wire : wire[k] = <<"body", m>>}
  /\ UNCHANGED <<handled, queue, signaled, working, cur, matched>>

\* Mutant: what could not be sent is sent again.
ReconnectAndRetry == Connect("length")

\* A new connection; the message that could not be sent is given up.
Reconnect == Connect("test")

\* connect throws in the catch block and nothing in the thread catches it.
ReconnectThrows == JustGoto("reconnect", "terminated")

RunSend == \/ TestStop \/ WaitOne \/ WaitTimeout \/ SizeApprox \/ ResetEvent
           \/ TryDequeue \/ NothingToDequeue
           \/ WriteLength \/ WriteBody \/ ReadAnswer
           \/ Throw \/ Reconnect \/ ReconnectThrows

-----------------------------------------------------------------------------
(* The server: it answers a message it has whole; and the connection may     *)
(* break, which loses the answers not yet read.                              *)

Answer ==
  /\ conn = "up" /\ Len(wire) > 1 /\ wire[2] = <<"body", wire[1][2]>>
  /\ handled' = Append(handled, wire[1][2])
  /\ answers' = Append(answers, wire[1][2])
  /\ wire' = Tail(Tail(wire))
  /\ UNCHANGED <<ownerVars, conn, late, queue, signaled, working, stopReq, worker, cur, matched>>

Break ==
  /\ conn = "up" /\ Joinable
  /\ conn' = "broken" /\ answers' = <<>>
  /\ UNCHANGED <<ownerVars, wire, late, handled, queue, signaled, working, stopReq, worker, cur, matched>>

\* A message that came whole before the break is handled after it.
HandleLate ==
  /\ \E m \in late : handled' = Append(handled, m) /\ late' = late \ {m}
  /\ UNCHANGED <<ownerVars, conn, wire, answers, queue, signaled, working, stopReq, worker, cur, matched>>

Server == Answer \/ Break \/ HandleLate

-----------------------------------------------------------------------------
\* The constructor has connected, or thrown and left no object.
Init ==
  /\ sent = 0 /\ stopMsg = 0 /\ queue = <<>>
  /\ signaled = FALSE /\ adding = TRUE /\ working = TRUE /\ stopReq = FALSE
  /\ owner = "idle" /\ launched = 0 /\ worker = "none" /\ cur = 0
  /\ conn = "up" /\ wire = <<>> /\ answers = <<>> /\ late = {} /\ handled = <<>>
  /\ matched = TRUE

Terminated == worker = "terminated" \/ owner = "terminated"

Next == ~Terminated /\ (Owner \/ RunSend \/ Server)

Spec == Init /\ [][Next]_vars

\* The thread is scheduled, and a call of the owner goes on when it can.
Returning == ~Terminated /\ (SetEvent \/ Joined)
SilentSpec == Spec /\ WF_vars(~Terminated /\ RunSend) /\ WF_vars(Returning)

\* Besides, the server answers what it has whole.  No connection has to break.
LiveSpec == SilentSpec /\ WF_vars(~Terminated /\ Answer)

-----------------------------------------------------------------------------
Messages == 1 .. MaxSend
InQueue(m) == \E k \in DOMAIN queue : queue[k] = m

OwnerTypeOK ==
  /\ sent \in 0 .. MaxSend /\ stopMsg \in 0 .. MaxSend /\ launched \in 0 .. MaxLaunch
  /\ owner \in {"idle", "queued", "stopping", "destroying", "gone", "terminated"}

WorkerTypeOK ==
  /\ queue \in Seq(Messages)
  /\ cur \in 0 .. MaxSend /\ (worker \in {"length", "body", "answer"} => cur \in Messages)
  /\ worker \in {"none", "test", "wait", "size", "reset", "take", "length", "body",
                 "answer", "reconnect", "done", "joined", "terminated"}

NetTypeOK ==
  /\ conn \in {"up", "broken"} /\ late \subseteq Messages
  /\ wire \in Seq({"length", "part", "body"} \X Messages)
  /\ answers \in Seq(Messages) /\ handled \in Seq(Messages)

FlagsTypeOK ==
  /\ adding \in BOOLEAN /\ signaled \in BOOLEAN /\ working \in BOOLEAN
  /\ stopReq \in BOOLEAN /\ matched \in BOOLEAN

\* Types; and what run_send sends is a message that was queued.
TypeOK == OwnerTypeOK /\ WorkerTypeOK /\ NetTypeOK /\ FlagsTypeOK

Delivery == INSTANCE AtMostOnce WITH queued <- sent, taken <- cur

\* TcpDuplex implements AtMostOnce: however often the connection breaks and is
\* made anew, messages are taken in their order, and the server handles none
\* twice, none that was not taken, and some perhaps late.
HandledAtMostOnce == Delivery!Spec

\* The answer that run_send takes is the answer to the message it has just
\* sent: none is left over from an earlier message or connection.
AnswersMatch == matched

\* The stop message is the last: nothing is queued when it has been taken.
StopMessageIsLast == ~working => queue = <<>>

\* run_send reads the answer to a message whose rest nobody puts out, and the
\* server on the other end of a sound connection waits for that rest.
Held == worker = "answer" /\ cur \in Big /\ conn = "up"

\* Every queued message is taken, although reset() may undo the set() that
\* announced it, unless the thread is told to stop, the process ends or a long
\* message before it holds run_send for ever.
QueueIsServed ==
  \A m \in Messages :
     InQueue(m) /\ Joinable /\ ~stopReq
       ~> (~InQueue(m) \/ stopReq \/ Terminated \/ []Held)

\* stop_thread returns, and the destructor does once the stop message is queued,
\* from whatever run_send is at, a silent answer to a long message excepted.
OwnerReturns ==
  /\ owner = "stopping" ~> (owner # "stopping" \/ Terminated \/ []Held)
  /\ owner = "destroying" /\ ~adding ~> (owner = "gone" \/ Terminated \/ []Held)

\* "Устанавливаем таймаут на запись", we set a timeout for the write: a server
\* that keeps silent does not hold run_send for ever.
WriteTimesOut == worker = "answer" ~> worker # "answer"
=============================================================================
