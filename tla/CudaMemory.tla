------------------------------- MODULE CudaMemory -------------------------------
(***************************************************************************)
(* Two CudaMemory objects in two processes, a client that sends requests   *)
(* and a server that answers each from its callback, over two MemoryBase   *)
(* channels, one each way.  Members are made and destroyed around a reader *)
(* thread that runs already, or still.  A payload is known by the oldest   *)
(* and the newest request it holds something of; SharedChannel models the  *)
(* channel cell by cell.                                                   *)
(***************************************************************************)
EXTENDS Naturals

CONSTANT MaxRequest  \* bound: calls of SendData

ASSUME CudaAssumption == MaxRequest \in Nat

Node    == {"client", "server"}
Channel == {"Read", "Write"}

VARIABLES
  requests, \* requests the client has sent or failed to send
  phase,    \* where construction or destruction of the object is
  alive,    \* what a callback may use: "callback" is _userCallback, "writer"
            \* what _memoryNome->_memoryWrite leads to
  rpc,      \* the reader thread
  got,      \* the payload the thread has copied
  shown,    \* the payload last given to the user's callback
  wpc, msg, \* the call of WriteData under way, and its payload
  open,     \* who holds handles of a channel; its names go with the last
  data, ctl, event, \* segments and event of a channel
  lost,     \* since the last request went out a send failed, or a reader got no view
  misused   \* objects whose parts were used before or after their life

object  == <<phase, alive, open>>
sending == <<requests, wpc, msg, lost>>
channel == <<data, ctl, event>>
vars    == <<object, sending, channel, rpc, got, shown, misused>>

Nothing == [oldest |-> 0, newest |-> 0]
Request(k) == [oldest |-> k, newest |-> k]

ReadChannel(n)  == IF n = "server" THEN "Read" ELSE "Write"
WriteChannel(n) == IF n = "server" THEN "Write" ELSE "Read"

-----------------------------------------------------------------------------
(* Construction and destruction.                                             *)

Enter(n, from, to) == phase[n] = from /\ phase' = [phase EXCEPT ![n] = to]

\* A constructor finds the named objects as they are, or makes them.
Open(n, c) ==
  /\ open' = [open EXCEPT ![c] = @ \cup {n}]
  /\ IF open[c] # {} THEN UNCHANGED channel
     ELSE /\ data' = [data EXCEPT ![c] = Nothing]
          /\ ctl' = [ctl EXCEPT ![c] = "empty"]
          /\ event' = [event EXCEPT ![c] = FALSE]

Close(n, c) == open' = [open EXCEPT ![c] = @ \ {n}]

MakeReaderWith(n, members) ==
  /\ Enter(n, "none", "reader")
  /\ Open(n, ReadChannel(n))
  /\ alive' = [alive EXCEPT ![n] = members]
  /\ rpc' = [rpc EXCEPT ![n] = "wait"]
  /\ UNCHANGED <<sending, got, shown, misused>>

\* Mutant: the constructor takes the callback after it has made MemoryNome.
MakeReaderFirst(n) == MakeReaderWith(n, {})

\* _userCallback, then the reader, whose thread runs from now on.
MakeReader(n) == MakeReaderWith(n, {"callback"})

\* The writer, and with it the pointer _memoryNome.
MakeWriter(n) ==
  /\ Enter(n, "reader", "up")
  /\ Open(n, WriteChannel(n))
  /\ alive' = [alive EXCEPT ![n] = {"callback", "writer"}]
  /\ UNCHANGED <<sending, rpc, got, shown, misused>>

\* ~MemoryBase of the reader up to its join.
StopThread(n) ==
  /\ event' = [event EXCEPT ![ReadChannel(n)] = TRUE]
  /\ UNCHANGED <<data, ctl, alive, open, sending, rpc, got, shown, misused>>

\* The writer's constructor throws: the reader, a member, is destroyed.
MakeWriterThrows(n) == Enter(n, "reader", "joining") /\ StopThread(n)

Misuse(n, cond) == misused' = IF cond THEN misused \cup {n} ELSE misused

\* Members go in reverse: first _userCallback, though a call of it may run.
DestroyCallback(n) ==
  /\ Enter(n, "up", "noCallback")
  /\ n = "client" => wpc[n] = "idle"
  /\ alive' = [alive EXCEPT ![n] = @ \ {"callback"}]
  /\ Misuse(n, rpc[n] \in {"user", "reply"})
  /\ UNCHANGED <<open, sending, channel, rpc, got, shown>>

\* Then _memoryNome: its _memoryWrite first.
DestroyWriter(n) ==
  /\ Enter(n, "noCallback", "noWriter")
  /\ alive' = [alive EXCEPT ![n] = {}]
  /\ Close(n, WriteChannel(n))
  /\ Misuse(n, rpc[n] = "reply")
  /\ UNCHANGED <<sending, channel, rpc, got, shown>>

\* Then its _memoryRead.
StopReader(n) == Enter(n, "noWriter", "joining") /\ StopThread(n)

JoinWith(n, done) ==
  /\ Enter(n, "joining", "gone")
  /\ done
  /\ Close(n, ReadChannel(n))
  /\ alive' = [alive EXCEPT ![n] = {}]
  /\ UNCHANGED <<sending, channel, rpc, got, shown, misused>>

\* Mutant: the thread is detached.
Detach(n) == JoinWith(n, TRUE)

Join(n) == JoinWith(n, rpc[n] = "exited")

Begun(n)     == MakeWriter(n) \/ MakeWriterThrows(n) \/ DestroyWriter(n) \/ StopReader(n) \/ Join(n)
Lifecycle(n) == MakeReader(n) \/ DestroyCallback(n) \/ Begun(n)

-----------------------------------------------------------------------------
(* WriteDataToMemory, as WriteData does it.                                  *)

Begin(n, m) ==
  /\ wpc' = [wpc EXCEPT ![n] = "data"]
  /\ msg' = [msg EXCEPT ![n] = m]
  /\ data' = [data EXCEPT ![WriteChannel(n)].newest = m.newest]
  /\ UNCHANGED <<ctl, event>>

\* WriteData throws before it has written; WriteDataToMemory reports it.
Refused == lost' = TRUE /\ UNCHANGED <<wpc, msg, channel>>

SendDataOf(k) ==
  /\ phase["client"] = "up" /\ wpc["client"] = "idle" /\ requests < MaxRequest
  /\ requests' = requests + 1
  /\ \/ Begin("client", Request(k)) /\ lost' = FALSE
     \/ Refused
  /\ UNCHANGED <<object, rpc, got, shown, misused>>

\* Mutant: off by one in what is packed.
SendDataAhead == SendDataOf(requests + 2)
\* Mutant: the buffer keeps the first request, which unpack finds again.
SendDataKept == SendDataOf(1)

\* SendData of the client's main program.
SendData == SendDataOf(requests + 1)

DataWritten(n, to) ==
  /\ wpc[n] = "data" /\ phase[n] # "terminated"
  /\ wpc' = [wpc EXCEPT ![n] = to]
  /\ UNCHANGED <<requests, msg, event, object, got, shown, misused>>

BeginControl(n) ==
  /\ DataWritten(n, "ctl")
  /\ data' = [data EXCEPT ![WriteChannel(n)] = msg[n]]
  /\ ctl' = [ctl EXCEPT ![WriteChannel(n)] = "torn"]
  /\ UNCHANGED <<rpc, lost>>

BackFromReply(n) == rpc' = [rpc EXCEPT ![n] = IF @ = "reply" THEN "wait" ELSE @]

FailWith(n, left) ==
  /\ DataWritten(n, "idle")
  /\ data' = [data EXCEPT ![WriteChannel(n)] = left]
  /\ lost' = TRUE
  /\ BackFromReply(n)
  /\ UNCHANGED ctl

\* Mutant: a send that fails leaves the segment zeroed.
ControlRefusedZeroed(n) == FailWith(n, Nothing)

\* SetCommandControl throws: new data under the control string of before.
ControlRefused(n) == FailWith(n, msg[n])

Signal(n) ==
  /\ wpc[n] = "ctl" /\ phase[n] # "terminated"
  /\ wpc' = [wpc EXCEPT ![n] = "idle"]
  /\ ctl' = [ctl EXCEPT ![WriteChannel(n)] = "whole"]
  /\ event' = [event EXCEPT ![WriteChannel(n)] = TRUE]
  /\ BackFromReply(n)
  /\ UNCHANGED <<requests, msg, lost, object, data, got, shown, misused>>

Writing(n) == BeginControl(n) \/ ControlRefused(n) \/ Signal(n)

-----------------------------------------------------------------------------
(* The reader thread: event_loop and, from "handle" on, OnRawDataReceived.   *)

Goto(n, from, to) == rpc[n] = from /\ rpc' = [rpc EXCEPT ![n] = to]
Quietly == UNCHANGED <<object, sending, data, ctl>>

\* Mutant: the destructor leaves _running set.
NeverStopped(n) == FALSE

Stopped(n) == phase[n] = "joining"

\* A wait that times out and finds _running set has no step.
Exit(n) == /\ Stopped(n) /\ \E from \in {"wait", "woken"} : Goto(n, from, "exited")
           /\ Quietly /\ UNCHANGED <<event, got, shown, misused>>

Wake(n) ==
  /\ event[ReadChannel(n)] /\ Goto(n, "wait", "woken")
  /\ event' = [event EXCEPT ![ReadChannel(n)] = FALSE]
  /\ Quietly /\ UNCHANGED <<got, shown, misused>>

\* A control string that is being written, or whose writer died, may miss its
\* type or part of its size: OnRawDataReceived or unpack rejects it.
ReadControl(n) ==
  /\ ~Stopped(n)
  /\ \/ ctl[ReadChannel(n)] # "empty" /\ Goto(n, "woken", "copy")
     \/ ctl[ReadChannel(n)] # "whole" /\ Goto(n, "woken", "wait")
  /\ Quietly /\ UNCHANGED <<event, got, shown, misused>>

\* The string ends at "size=": std::stoul ends the process and frees the names.
ReadTerminates(n) ==
  /\ ~Stopped(n) /\ ctl[ReadChannel(n)] = "torn" /\ Goto(n, "woken", "terminated")
  /\ phase' = [phase EXCEPT ![n] = "terminated"]
  /\ open' = [c \in Channel |-> open[c] \ {n}]
  /\ UNCHANGED <<alive, sending, channel, got, shown, misused>>

\* MapViewOfFile fails for the control string or for the payload: the callback
\* gets no data, which OnRawDataReceived rejects, and the signal is used up.
ReadUnmapped(n) ==
  /\ \/ ~Stopped(n) /\ Goto(n, "woken", "wait")
     \/ Goto(n, "copy", "wait")
  /\ lost' = TRUE
  /\ UNCHANGED <<object, requests, wpc, msg, channel, got, shown, misused>>

\* The copy of the payload begins, and ends with what was written meanwhile.
BeginCopy(n) ==
  /\ Goto(n, "copy", "data")
  /\ got' = [got EXCEPT ![n] = data[ReadChannel(n)]]
  /\ Quietly /\ UNCHANGED <<event, shown, misused>>

ReadData(n) ==
  /\ Goto(n, "data", "handle")
  /\ got' = [got EXCEPT ![n].newest = data[ReadChannel(n)].newest]
  /\ Quietly /\ UNCHANGED <<event, shown, misused>>

\* msgpack may refuse a payload of more than one message.
Reject(n) ==
  /\ got[n].oldest # got[n].newest /\ Goto(n, "handle", "wait")
  /\ Quietly /\ UNCHANGED <<event, got, shown, misused>>

CallUser(n) ==
  /\ Goto(n, "handle", "user")
  /\ shown' = [shown EXCEPT ![n] = got[n]]
  /\ Misuse(n, "callback" \notin alive[n])
  /\ Quietly /\ UNCHANGED <<event, got>>

\* The client's callback prints.
UserReturns ==
  /\ Goto("client", "user", "wait")
  /\ Quietly /\ UNCHANGED <<event, got, shown, misused>>

\* The server's calls SendProcessedData, through a pointer that is null before
\* the constructor has returned and dangles after the writer is destroyed.
SendProcessedData ==
  /\ \/ Begin("server", shown["server"]) /\ Goto("server", "user", "reply") /\ UNCHANGED lost
     \/ Refused /\ Goto("server", "user", "wait")
  /\ Misuse("server", "writer" \notin alive["server"])
  /\ UNCHANGED <<requests, object, got, shown>>

Reader(n) == \/ Exit(n) \/ Wake(n) \/ ReadControl(n) \/ ReadTerminates(n)
             \/ ReadUnmapped(n) \/ BeginCopy(n) \/ ReadData(n) \/ Reject(n) \/ CallUser(n)
User(n)   == IF n = "client" THEN UserReturns ELSE SendProcessedData

-----------------------------------------------------------------------------
Init ==
  /\ requests = 0 /\ lost = FALSE /\ misused = {}
  /\ phase = [n \in Node |-> "none"] /\ rpc = [n \in Node |-> "none"]
  /\ alive = [n \in Node |-> {}]
  /\ got = [n \in Node |-> Nothing] /\ shown = [n \in Node |-> Nothing]
  /\ wpc = [n \in Node |-> "idle"] /\ msg = [n \in Node |-> Nothing]
  /\ open = [c \in Channel |-> {}] /\ data = [c \in Channel |-> Nothing]
  /\ ctl = [c \in Channel |-> "empty"] /\ event = [c \in Channel |-> FALSE]

\* Of what follows undefined behaviour nothing is said.
Next == /\ misused = {}
        /\ SendData \/ \E n \in Node : Lifecycle(n) \/ Writing(n) \/ Reader(n) \/ User(n)

Spec == Init /\ [][Next]_vars

\* Threads are scheduled, a constructor or destructor once begun goes on.
LiveSpec == /\ Spec
            /\ \A n \in Node : /\ WF_vars(misused = {} /\ Begun(n))
                               /\ WF_vars(misused = {} /\ Writing(n))
                               /\ WF_vars(misused = {} /\ (Reader(n) \/ User(n)))

-----------------------------------------------------------------------------
Payload == {p \in [oldest : 0 .. MaxRequest, newest : 0 .. MaxRequest] : p.oldest <= p.newest}

ObjectTypeOK ==
  /\ phase \in [Node -> {"none", "reader", "up", "noCallback", "noWriter", "joining", "gone", "terminated"}]
  /\ alive \in [Node -> SUBSET {"callback", "writer"}]
  /\ open \in [Channel -> SUBSET Node] /\ misused \subseteq Node

SendingTypeOK ==
  /\ requests \in 0 .. MaxRequest /\ lost \in BOOLEAN
  /\ wpc \in [Node -> {"idle", "data", "ctl"}] /\ msg \in [Node -> Payload]

ChannelTypeOK ==
  /\ data \in [Channel -> Payload]
  /\ ctl \in [Channel -> {"empty", "torn", "whole"}] /\ event \in [Channel -> BOOLEAN]

ReaderTypeOK ==
  /\ rpc \in [Node -> {"none", "wait", "woken", "copy", "data", "handle", "user", "reply", "exited", "terminated"}]
  /\ got \in [Node -> Payload] /\ shown \in [Node -> Payload]
  /\ \A n \in Node : shown[n].newest <= requests

\* Types; and what a callback is shown is of requests that were sent.
TypeOK == ObjectTypeOK /\ SendingTypeOK /\ ChannelTypeOK /\ ReaderTypeOK

\* The reader thread starts before the constructor is done, and finds
\* _userCallback there all the same: until the destructor begins, parts are
\* misused only by an answer sent before the constructor has returned.
UsedInTheirLife ==
  \A n \in misused : phase[n] # "up" /\ (phase[n] = "reader" => rpc[n] # "user")

\* A destroyed object has no thread, no write under way and no handle, also
\* when it was destroyed half made.
DestroyedIsQuiet ==
  \A n \in Node : phase[n] = "gone" =>
     rpc[n] = "exited" /\ wpc[n] = "idle" /\ \A c \in Channel : n \notin open[c]

Exchange == INSTANCE RequestReply
            WITH made <- requests, seen <- shown["server"], answered <- shown["client"]

\* The two objects implement RequestReply: neither the oldest nor the newest
\* request a callback is shown goes back, across two channels that skip, repeat
\* and mix, and the client is answered nothing the server has not seen.
NeverGoesBack == Exchange!Spec

\* With both objects up, the last request is answered, whatever was refused
\* before it, unless it or an answer could not be written or a reader could not
\* map a view of a segment since.
LastRequestAnswered ==
  requests = MaxRequest /\ wpc["client"] = "idle"
    ~> shown["client"] = Request(MaxRequest) \/ lost \/ \E n \in Node : phase[n] # "up"

\* A destructor returns, unless what it destroyed was in use.
DestructorReturns ==
  \A n \in Node :
    phase[n] \in {"noCallback", "joining"} ~> phase[n] \in {"gone", "terminated"} \/ misused # {}
=============================================================================
