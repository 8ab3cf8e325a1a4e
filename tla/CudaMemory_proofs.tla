----------------------------- MODULE CudaMemory_proofs -----------------------------
(***************************************************************************)
(* Theorems about CudaMemory for any number of requests.  Along the way a  *)
(* request and its answer take, client, segment, server, segment, client,  *)
(* nothing is newer than what is before it: WriteOK and ReadOK.  LifeOK is *)
(* needed for the construction of an object, which may find a segment that *)
(* the other holds or clear one that nobody reads.                         *)
(***************************************************************************)
EXTENDS CudaMemory, TLAPS

\* p is no newer than q.
Leq(p, q) == p.oldest <= q.oldest /\ p.newest <= q.newest

\* What a phase of the object says of its members, its thread and its handles.
LifeOK(n) ==
  /\ phase[n] = "none" <=> rpc[n] = "none"
  /\ phase[n] = "reader" => alive[n] = {"callback"}
  /\ phase[n] = "up" => alive[n] = {"callback", "writer"}
  /\ rpc[n] = "exited" => phase[n] \in {"joining", "gone"}
  /\ phase[n] = "gone" => rpc[n] = "exited"
  /\ phase[n] = "terminated" => rpc[n] = "terminated"
  /\ n \in open[ReadChannel(n)] <=> phase[n] \notin {"none", "gone", "terminated"}
  /\ n \in open[WriteChannel(n)] <=> phase[n] \in {"up", "noCallback"}

\* The client writes from its program, while its object is up; the server from
\* its thread.
CallOK ==
  /\ wpc["client"] # "idle" => phase["client"] \in {"up", "terminated"}
  /\ wpc["server"] # "idle" => rpc["server"] = "reply"
  /\ rpc["client"] # "reply"

\* The thread may still copy from the segment.
Reading(n) == rpc[n] \notin {"none", "exited", "terminated"}

\* A payload shown, then a payload copied, then the segment: each as new as the
\* one before.
ReadOK(n) ==
  /\ rpc[n] = "none" => shown[n] = Nothing
  /\ Reading(n) => Leq(shown[n], data[ReadChannel(n)])
  /\ rpc[n] \in {"data", "handle"} => Leq(shown[n], got[n]) /\ Leq(got[n], data[ReadChannel(n)])

\* What is in a segment is no newer than what its writer has, and what is being
\* written is just that.
WriteOK ==
  /\ Leq(data["Read"], Request(requests))
  /\ wpc["client"] = "data" => msg["client"] = Request(requests)
  /\ Leq(data["Write"], shown["server"])
  /\ wpc["server"] = "data" => msg["server"] = shown["server"]
  /\ \A n \in Node : Leq(shown[n], Request(requests))

\* The invariant that is inductive.
Lives == \A n \in Node : LifeOK(n)
Reads == \A n \in Node : ReadOK(n)

IInv == TypeOK /\ CallOK /\ WriteOK /\ UsedInTheirLife /\ Lives /\ Reads

-----------------------------------------------------------------------------

\* The payloads a channel can hold: none, one request, an older one under a newer.
LEMMA PayloadFacts ==
  /\ Nothing \in Payload
  /\ \A k \in 0 .. MaxRequest : Request(k) \in Payload
  /\ \A p, q \in Payload : p.oldest <= q.newest => [p EXCEPT !.newest = q.newest] \in Payload
BY CudaAssumption DEF Payload, Nothing, Request

\* Each object reads one channel and writes the other.
LEMMA ChannelFacts ==
  /\ WriteChannel("client") = "Read" /\ WriteChannel("server") = "Write"
  /\ \A n \in Node : ReadChannel(n) \in Channel /\ WriteChannel(n) \in Channel
BY DEF Node, Channel, ReadChannel, WriteChannel

\* Every step keeps the types of the objects.
LEMMA ObjectTypes ==
  ASSUME ObjectTypeOK, Next PROVE ObjectTypeOK'
<1> USE CudaAssumption DEF object, sending, channel, ObjectTypeOK
<1>1. ASSUME NEW n \in Node, MakeReader(n) PROVE ObjectTypeOK'
  BY <1>1 DEF MakeReader, MakeReaderWith, Enter, Open
<1>2. ASSUME NEW n \in Node, MakeWriter(n) PROVE ObjectTypeOK'
  BY <1>2 DEF MakeWriter, Enter, Open
<1>3. ASSUME NEW n \in Node, MakeWriterThrows(n) \/ StopReader(n) PROVE ObjectTypeOK'
  BY <1>3 DEF MakeWriterThrows, Enter, StopThread, StopReader
<1>4. ASSUME NEW n \in Node, DestroyCallback(n) \/ DestroyWriter(n) \/ Join(n)
      PROVE  ObjectTypeOK'
  BY <1>4 DEF DestroyCallback, Enter, Misuse, DestroyWriter, Close, Join, JoinWith
<1>5. ASSUME NEW n \in Node, BeginControl(n) \/ ControlRefused(n) \/ Signal(n)
      PROVE  ObjectTypeOK'
  BY <1>5 DEF BeginControl, DataWritten, ControlRefused, FailWith, BackFromReply, Signal
<1>6. ASSUME NEW n \in Node, Exit(n) \/ Wake(n) \/ ReadControl(n) \/ ReadUnmapped(n)
             \/ Reject(n) \/ UserReturns
      PROVE  ObjectTypeOK'
  BY <1>6 DEF Exit, Goto, Quietly, Stopped, Wake, ReadControl, ReadUnmapped, Reject, UserReturns
<1>7. ASSUME NEW n \in Node, ReadTerminates(n) \/ BeginCopy(n) \/ ReadData(n) \/ CallUser(n)
      PROVE  ObjectTypeOK'
  BY <1>7 DEF ReadTerminates, Goto, Stopped, BeginCopy, Quietly, ReadData, CallUser, Misuse
<1>8. ASSUME SendData PROVE ObjectTypeOK'
  BY <1>8 DEF SendData, SendDataOf, Begin, Refused
<1>9. ASSUME SendProcessedData PROVE ObjectTypeOK'
  BY <1>9 DEF SendProcessedData, Misuse, Node
<1> QED BY <1>1, <1>2, <1>3, <1>4, <1>5, <1>6, <1>7, <1>8, <1>9 DEF Next, Lifecycle, Begun,
      Writing, Reader, User

\* The first half of WriteData keeps the types when it writes no older payload.
LEMMA BeginTypes ==
  ASSUME SendingTypeOK, ChannelTypeOK, NEW n \in Node, NEW p \in Payload,
         data[WriteChannel(n)].oldest <= p.newest, Begin(n, p)
  PROVE  /\ wpc' \in [Node -> {"idle", "data", "ctl"}] /\ msg' \in [Node -> Payload]
         /\ ChannelTypeOK'
<1>1. WriteChannel(n) \in Channel
  BY ChannelFacts
<1>2. [data[WriteChannel(n)] EXCEPT !.newest = p.newest] \in Payload
  BY <1>1, PayloadFacts DEF ChannelTypeOK
<1> QED BY <1>1, <1>2 DEF Begin, SendingTypeOK, ChannelTypeOK

\* Every step keeps the types of the sends and of the channels.
LEMMA SendingStep ==
  ASSUME IInv, Next PROVE SendingTypeOK' /\ ChannelTypeOK'
<1> USE DEF object, sending, channel, IInv, Lives, Reads, TypeOK, SendingTypeOK
<1>1. ASSUME NEW n \in Node, MakeReader(n) \/ MakeWriter(n)
      PROVE  SendingTypeOK' /\ ChannelTypeOK'
  <2>1. ReadChannel(n) \in Channel /\ WriteChannel(n) \in Channel /\ Nothing \in Payload
    BY ChannelFacts, PayloadFacts
  <2>2. CASE MakeReader(n)
    BY <2>1, <2>2 DEF MakeReader, MakeReaderWith, Open, ChannelTypeOK
  <2>3. CASE MakeWriter(n)
    BY <2>1, <2>3 DEF MakeWriter, Open, ChannelTypeOK
  <2> QED BY <1>1, <2>2, <2>3
<1>2. ASSUME NEW n \in Node, MakeWriterThrows(n) \/ StopReader(n) \/ Wake(n)
      PROVE  SendingTypeOK' /\ ChannelTypeOK'
  BY <1>2, ChannelFacts DEF MakeWriterThrows, StopReader, StopThread, Wake, Quietly,
      ChannelTypeOK
<1>3. ASSUME NEW n \in Node, BeginControl(n) PROVE SendingTypeOK' /\ ChannelTypeOK'
  BY <1>3, ChannelFacts DEF BeginControl, DataWritten, ChannelTypeOK
<1>4. ASSUME NEW n \in Node, ControlRefused(n) PROVE SendingTypeOK' /\ ChannelTypeOK'
  BY <1>4, ChannelFacts DEF ControlRefused, FailWith, DataWritten, ChannelTypeOK
<1>5. ASSUME NEW n \in Node, Signal(n) PROVE SendingTypeOK' /\ ChannelTypeOK'
  BY <1>5, ChannelFacts DEF Signal, ChannelTypeOK
<1>6. ASSUME SendData PROVE SendingTypeOK' /\ ChannelTypeOK'
  <2>1. requests' = requests + 1 /\ requests' \in 0 .. MaxRequest
    BY <1>6, CudaAssumption DEF SendData, SendDataOf
  <2>2. Request(requests') \in Payload /\ "client" \in Node
    BY <2>1, PayloadFacts DEF Node
  <2>3. CASE Begin("client", Request(requests'))
    <3>1. data[WriteChannel("client")] \in Payload
      BY ChannelFacts, <2>2 DEF ChannelTypeOK
    <3>2. data[WriteChannel("client")].oldest <= Request(requests').newest
      BY <2>1, <3>1, ChannelFacts, CudaAssumption DEF WriteOK, Leq, Request, Payload
    <3>3. lost' \in BOOLEAN BY <1>6 DEF SendData, SendDataOf, Refused
    <3> QED BY <2>1, <2>2, <2>3, <3>2, <3>3, BeginTypes
  <2>4. CASE Refused
    BY <2>1, <2>4 DEF Refused, ChannelTypeOK
  <2> QED BY <1>6, <2>1, <2>3, <2>4 DEF SendData, SendDataOf
<1>7. ASSUME SendProcessedData PROVE SendingTypeOK' /\ ChannelTypeOK'
  <2>1. shown["server"] \in Payload /\ "server" \in Node
    BY DEF ReaderTypeOK, Node
  <2>2. CASE Begin("server", shown["server"])
    <3>1. data[WriteChannel("server")] \in Payload
      BY ChannelFacts, <2>1 DEF ChannelTypeOK
    <3>2. data[WriteChannel("server")].oldest <= shown["server"].newest
      BY <2>1, <3>1, ChannelFacts, CudaAssumption DEF WriteOK, Leq, Payload
    <3>3. lost' \in BOOLEAN BY <1>7 DEF SendProcessedData, Refused
    <3> QED BY <1>7, <2>1, <2>2, <3>2, <3>3, BeginTypes DEF SendProcessedData
  <2>3. CASE Refused
    BY <1>7, <2>3 DEF SendProcessedData, Refused, ChannelTypeOK
  <2> QED BY <1>7, <2>2, <2>3 DEF SendProcessedData
<1>8. ASSUME NEW n \in Node,
             \/ DestroyCallback(n) \/ DestroyWriter(n) \/ Join(n) \/ Exit(n) \/ ReadControl(n)
             \/ ReadTerminates(n) \/ BeginCopy(n) \/ ReadData(n) \/ Reject(n) \/ CallUser(n) \/ UserReturns
             \/ ReadUnmapped(n)
      PROVE  SendingTypeOK' /\ ChannelTypeOK'
  BY <1>8 DEF DestroyCallback, DestroyWriter, Join, JoinWith, Exit, ReadControl, ReadTerminates,
              ReadUnmapped, BeginCopy, ReadData, Reject, CallUser, UserReturns, Quietly,
              ChannelTypeOK
<1> QED BY <1>1, <1>2, <1>3, <1>4, <1>5, <1>6, <1>7, <1>8 DEF Next, Lifecycle, Begun, Writing,
      Reader, User

\* Every step keeps the types of the readers.
LEMMA ReaderTypes ==
  ASSUME IInv, Next PROVE ReaderTypeOK'
<1> USE CudaAssumption DEF object, sending, channel, Node, IInv, Lives, Reads, TypeOK,
      SendingTypeOK, ChannelTypeOK, ReaderTypeOK, Channel, ReadChannel, WriteChannel, WriteOK,
      ReadOK, Leq, Request, Payload
<1>1. ASSUME NEW n \in Node, MakeReader(n) \/ MakeWriter(n) PROVE ReaderTypeOK'
  BY <1>1 DEF MakeReader, MakeReaderWith, Enter, Open, MakeWriter
<1>2. ASSUME NEW n \in Node, MakeWriterThrows(n) \/ StopReader(n) PROVE ReaderTypeOK'
  BY <1>2 DEF MakeWriterThrows, Enter, StopThread, StopReader
<1>3. ASSUME NEW n \in Node, DestroyCallback(n) \/ DestroyWriter(n) \/ Join(n)
      PROVE  ReaderTypeOK'
  BY <1>3 DEF DestroyCallback, Enter, Misuse, DestroyWriter, Close, Join, JoinWith
<1>4. ASSUME NEW n \in Node, BeginControl(n) \/ ControlRefused(n) \/ Signal(n)
      PROVE  ReaderTypeOK'
  BY <1>4 DEF BeginControl, DataWritten, ControlRefused, FailWith, BackFromReply, Signal
<1>5. ASSUME NEW n \in Node, Exit(n) \/ Wake(n) \/ ReadControl(n) \/ ReadUnmapped(n)
             \/ Reject(n) \/ UserReturns
      PROVE  ReaderTypeOK'
  BY <1>5 DEF Exit, Goto, Quietly, Stopped, Wake, ReadControl, ReadUnmapped, Reject, UserReturns
<1>6. ASSUME NEW n \in Node, ReadTerminates(n) \/ BeginCopy(n) PROVE ReaderTypeOK'
  BY <1>6 DEF ReadTerminates, Goto, Stopped, BeginCopy, Quietly
<1>7. ASSUME NEW n \in Node, ReadData(n) PROVE ReaderTypeOK'
  BY <1>7 DEF ReadData, Goto, Quietly
<1>8. ASSUME NEW n \in Node, CallUser(n) PROVE ReaderTypeOK'
  BY <1>8 DEF CallUser, Goto, Quietly, Misuse
<1>9. ASSUME SendData \/ SendProcessedData PROVE ReaderTypeOK'
  BY <1>9 DEF SendData, SendDataOf, Begin, Refused, SendProcessedData, Goto, Misuse
<1> QED BY <1>1, <1>2, <1>3, <1>4, <1>5, <1>6, <1>7, <1>8, <1>9 DEF Next, Lifecycle, Begun,
      Writing, Reader, User

\* Every step keeps CallOK: who may be inside WriteData, and when.
LEMMA CallStep ==
  ASSUME IInv, Next PROVE CallOK'
<1> USE CudaAssumption DEF object, sending, channel, Node, IInv, Lives, Reads, TypeOK,
      ObjectTypeOK, SendingTypeOK, ReaderTypeOK, CallOK, LifeOK
<1>1. ASSUME NEW n \in Node, MakeReader(n) \/ MakeWriter(n) PROVE CallOK'
  BY <1>1 DEF MakeReader, MakeReaderWith, Enter, Open, MakeWriter
<1>2. ASSUME NEW n \in Node, MakeWriterThrows(n) \/ StopReader(n) PROVE CallOK'
  BY <1>2 DEF MakeWriterThrows, Enter, StopThread, StopReader
<1>3. ASSUME NEW n \in Node, DestroyCallback(n) \/ DestroyWriter(n) \/ Join(n) PROVE CallOK'
  BY <1>3 DEF DestroyCallback, Enter, Misuse, DestroyWriter, Close, Join, JoinWith
<1>4. ASSUME NEW n \in Node, BeginControl(n) \/ ControlRefused(n) \/ Signal(n) PROVE CallOK'
  BY <1>4 DEF BeginControl, DataWritten, ControlRefused, FailWith, BackFromReply, Signal
<1>5. ASSUME NEW n \in Node, Exit(n) \/ Wake(n) \/ ReadControl(n) \/ ReadUnmapped(n)
             \/ Reject(n) \/ UserReturns
      PROVE  CallOK'
  BY <1>5 DEF Exit, Goto, Quietly, Stopped, Wake, ReadControl, ReadUnmapped, Reject, UserReturns
<1>6. ASSUME NEW n \in Node, ReadTerminates(n) \/ BeginCopy(n) \/ ReadData(n) \/ CallUser(n)
      PROVE  CallOK'
  BY <1>6 DEF ReadTerminates, Goto, Stopped, BeginCopy, Quietly, ReadData, CallUser, Misuse
<1>7. ASSUME SendData \/ SendProcessedData PROVE CallOK'
  BY <1>7 DEF SendData, SendDataOf, Begin, Refused, SendProcessedData, Goto, Misuse
<1> QED BY <1>1, <1>2, <1>3, <1>4, <1>5, <1>6, <1>7 DEF Next, Lifecycle, Begun, Writing,
      Reader, User

\* Every step keeps the life of the objects: a thread and handles go with a phase.
LEMMA LifeStep ==
  ASSUME IInv, Next PROVE Lives'
<1> USE CudaAssumption DEF object, sending, channel, Node, IInv, Lives, Reads, TypeOK,
      ObjectTypeOK, ReaderTypeOK, LifeOK, Channel, ReadChannel, WriteChannel
<1>1. ASSUME NEW n \in Node, MakeReader(n) PROVE Lives'
  BY <1>1 DEF MakeReader, MakeReaderWith, Enter, Open
<1>2. ASSUME NEW n \in Node, MakeWriter(n) PROVE Lives'
  BY <1>2 DEF MakeWriter, Enter, Open
<1>3. ASSUME NEW n \in Node, MakeWriterThrows(n) \/ StopReader(n) PROVE Lives'
  BY <1>3 DEF MakeWriterThrows, Enter, StopThread, StopReader
<1>4. ASSUME NEW n \in Node, DestroyCallback(n) \/ DestroyWriter(n) \/ Join(n) PROVE Lives'
  BY <1>4 DEF DestroyCallback, Enter, Misuse, DestroyWriter, Close, Join, JoinWith
<1>5. ASSUME NEW n \in Node, BeginControl(n) \/ ControlRefused(n) \/ Signal(n) PROVE Lives'
  BY <1>5 DEF BeginControl, DataWritten, ControlRefused, FailWith, BackFromReply, Signal
<1>6. ASSUME NEW n \in Node, Exit(n) \/ Wake(n) \/ ReadControl(n) \/ ReadUnmapped(n)
             \/ Reject(n) \/ UserReturns
      PROVE  Lives'
  BY <1>6 DEF Exit, Goto, Quietly, Stopped, Wake, ReadControl, ReadUnmapped, Reject, UserReturns
<1>7. ASSUME NEW n \in Node, ReadTerminates(n) PROVE Lives'
  BY <1>7 DEF ReadTerminates, Goto, Stopped
<1>8. ASSUME NEW n \in Node, BeginCopy(n) \/ ReadData(n) \/ CallUser(n) PROVE Lives'
  BY <1>8 DEF BeginCopy, Goto, Quietly, ReadData, CallUser, Misuse
<1>9. ASSUME SendData \/ SendProcessedData PROVE Lives'
  BY <1>9 DEF SendData, SendDataOf, Begin, Refused, SendProcessedData, Goto, Misuse
<1> QED BY <1>1, <1>2, <1>3, <1>4, <1>5, <1>6, <1>7, <1>8, <1>9 DEF Next, Lifecycle, Begun,
      Writing, Reader, User

\* Every step keeps UsedInTheirLife: an object that is up has all its parts.
LEMMA UseStep ==
  ASSUME IInv, Next PROVE UsedInTheirLife'
<1> USE CudaAssumption DEF object, sending, channel, Node, IInv, Lives, Reads, TypeOK,
      ObjectTypeOK, ReaderTypeOK, UsedInTheirLife, LifeOK, CallOK
<1>1. misused = {} BY DEF Next
<1>2. ASSUME NEW n \in Node, MakeReader(n) \/ MakeWriter(n) PROVE UsedInTheirLife'
  BY <1>2, <1>1 DEF MakeReader, MakeReaderWith, Enter, Open, MakeWriter
<1>3. ASSUME NEW n \in Node, MakeWriterThrows(n) \/ StopReader(n) PROVE UsedInTheirLife'
  BY <1>3, <1>1 DEF MakeWriterThrows, Enter, StopThread, StopReader
<1>4. ASSUME NEW n \in Node, DestroyCallback(n) \/ DestroyWriter(n) \/ Join(n)
      PROVE  UsedInTheirLife'
  BY <1>4, <1>1 DEF DestroyCallback, Enter, Misuse, DestroyWriter, Close, Join, JoinWith
<1>5. ASSUME NEW n \in Node, BeginControl(n) \/ ControlRefused(n) \/ Signal(n)
      PROVE  UsedInTheirLife'
  BY <1>5, <1>1 DEF BeginControl, DataWritten, ControlRefused, FailWith, BackFromReply, Signal
<1>6. ASSUME NEW n \in Node, Exit(n) \/ Wake(n) \/ ReadControl(n) \/ ReadUnmapped(n)
             \/ Reject(n) \/ UserReturns
      PROVE  UsedInTheirLife'
  BY <1>6, <1>1 DEF Exit, Goto, Quietly, Stopped, Wake, ReadControl, ReadUnmapped, Reject, UserReturns
<1>7. ASSUME NEW n \in Node, ReadTerminates(n) \/ BeginCopy(n) \/ ReadData(n)
      PROVE  UsedInTheirLife'
  BY <1>7, <1>1 DEF ReadTerminates, Goto, Stopped, BeginCopy, Quietly, ReadData
<1>8. ASSUME NEW n \in Node, CallUser(n) PROVE UsedInTheirLife'
  BY <1>8, <1>1 DEF CallUser, Goto, Quietly, Misuse
<1>9. ASSUME SendData \/ SendProcessedData PROVE UsedInTheirLife'
  BY <1>9, <1>1 DEF SendData, SendDataOf, Begin, Refused, SendProcessedData, Goto, Misuse
<1> QED BY <1>1, <1>2, <1>3, <1>4, <1>5, <1>6, <1>7, <1>8, <1>9 DEF Next, Lifecycle, Begun,
      Writing, Reader, User

\* Every step keeps WriteOK: writers write nothing older than they wrote before.
LEMMA WriteStep ==
  ASSUME IInv, Next PROVE WriteOK'
<1> USE CudaAssumption DEF object, sending, channel, Node, IInv, Lives, Reads, TypeOK,
      SendingTypeOK, ChannelTypeOK, ReaderTypeOK, WriteOK, CallOK, ReadOK, Reading, Leq,
      Payload, Request, Nothing, Channel, ReadChannel, WriteChannel
<1>1. ASSUME NEW n \in Node, MakeReader(n) PROVE WriteOK'
  BY <1>1 DEF MakeReader, MakeReaderWith, Enter, Open
<1>2. ASSUME NEW n \in Node, MakeWriter(n) PROVE WriteOK'
  BY <1>2 DEF MakeWriter, Enter, Open
<1>3. ASSUME NEW n \in Node, MakeWriterThrows(n) \/ StopReader(n) PROVE WriteOK'
  BY <1>3 DEF MakeWriterThrows, Enter, StopThread, StopReader
<1>4. ASSUME NEW n \in Node, DestroyCallback(n) \/ DestroyWriter(n) \/ Join(n) PROVE WriteOK'
  BY <1>4 DEF DestroyCallback, Enter, Misuse, DestroyWriter, Close, Join, JoinWith
<1>5. ASSUME NEW n \in Node, BeginControl(n) \/ ControlRefused(n) \/ Signal(n) PROVE WriteOK'
  BY <1>5 DEF BeginControl, DataWritten, ControlRefused, FailWith, BackFromReply, Signal
<1>6. ASSUME NEW n \in Node, Exit(n) \/ Wake(n) \/ ReadControl(n) \/ ReadUnmapped(n)
             \/ Reject(n) \/ UserReturns
      PROVE  WriteOK'
  BY <1>6 DEF Exit, Goto, Quietly, Stopped, Wake, ReadControl, ReadUnmapped, Reject, UserReturns
<1>7. ASSUME NEW n \in Node, ReadTerminates(n) \/ BeginCopy(n) \/ ReadData(n) PROVE WriteOK'
  BY <1>7 DEF ReadTerminates, Goto, Stopped, BeginCopy, Quietly, ReadData
<1>8. ASSUME NEW n \in Node, CallUser(n) PROVE WriteOK'
  BY <1>8 DEF CallUser, Goto, Quietly, Misuse
<1>9. ASSUME SendData PROVE WriteOK'
  BY <1>9 DEF SendData, SendDataOf, Begin, Refused
<1>10. ASSUME SendProcessedData PROVE WriteOK'
  BY <1>10 DEF SendProcessedData, Begin, Refused, Goto, Misuse
<1> QED BY <1>1, <1>2, <1>3, <1>4, <1>5, <1>6, <1>7, <1>8, <1>9, <1>10 DEF Next, Lifecycle,
      Begun, Writing, Reader, User

\* Every step keeps ReadOK: what is shown is as old as what is copied, and that as the segment.
LEMMA ReadStep ==
  ASSUME IInv, Next PROVE Reads'
<1> USE CudaAssumption DEF object, sending, channel, Node, IInv, Lives, Reads, TypeOK,
      SendingTypeOK, ChannelTypeOK, ReaderTypeOK, ReadOK, WriteOK, CallOK, LifeOK, Reading,
      Leq, Payload, Request, Nothing, Channel, ReadChannel, WriteChannel
<1>1. ASSUME NEW n \in Node, MakeReader(n) PROVE Reads'
  BY <1>1 DEF MakeReader, MakeReaderWith, Enter, Open
<1>2. ASSUME NEW n \in Node, MakeWriter(n) PROVE Reads'
  BY <1>2 DEF MakeWriter, Enter, Open
<1>3. ASSUME NEW n \in Node, MakeWriterThrows(n) \/ StopReader(n) PROVE Reads'
  BY <1>3 DEF MakeWriterThrows, Enter, StopThread, StopReader
<1>4. ASSUME NEW n \in Node, DestroyCallback(n) \/ DestroyWriter(n) \/ Join(n) PROVE Reads'
  BY <1>4 DEF DestroyCallback, Enter, Misuse, DestroyWriter, Close, Join, JoinWith
<1>5. ASSUME NEW n \in Node, BeginControl(n) \/ ControlRefused(n) \/ Signal(n) PROVE Reads'
  BY <1>5 DEF BeginControl, DataWritten, ControlRefused, FailWith, BackFromReply, Signal
<1>6. ASSUME NEW n \in Node, Exit(n) \/ Wake(n) \/ ReadControl(n) \/ ReadUnmapped(n)
             \/ Reject(n) \/ UserReturns
      PROVE  Reads'
  BY <1>6 DEF Exit, Goto, Quietly, Stopped, Wake, ReadControl, ReadUnmapped, Reject, UserReturns
<1>7. ASSUME NEW n \in Node, ReadTerminates(n) PROVE Reads'
  BY <1>7 DEF ReadTerminates, Goto, Stopped
<1>8. ASSUME NEW n \in Node, BeginCopy(n) PROVE Reads'
  BY <1>8 DEF BeginCopy, Goto, Quietly
<1>9. ASSUME NEW n \in Node, ReadData(n) PROVE Reads'
  BY <1>9 DEF ReadData, Goto, Quietly
<1>10. ASSUME NEW n \in Node, CallUser(n) PROVE Reads'
  BY <1>10 DEF CallUser, Goto, Quietly, Misuse
<1>11. ASSUME SendData PROVE Reads'
  BY <1>11 DEF SendData, SendDataOf, Begin, Refused
<1>12. ASSUME SendProcessedData PROVE Reads'
  BY <1>12 DEF SendProcessedData, Begin, Refused, Goto, Misuse
<1> QED BY <1>1, <1>2, <1>3, <1>4, <1>5, <1>6, <1>7, <1>8, <1>9, <1>10, <1>11, <1>12 DEF Next,
      Lifecycle, Begun, Writing, Reader, User

-----------------------------------------------------------------------------
\* The strengthened invariant holds of the fresh objects.
LEMMA InitIInv ==
  ASSUME Init PROVE IInv
<1>1. TypeOK
  <2>1. Nothing \in Payload /\ Nothing.newest = 0
    BY PayloadFacts DEF Nothing
  <2>2. ObjectTypeOK
    BY DEF Init, ObjectTypeOK
  <2>3. SendingTypeOK
    <3>1. requests \in 0 .. MaxRequest
      BY CudaAssumption DEF Init
    <3>2. lost \in BOOLEAN /\ wpc \in [Node -> {"idle", "data", "ctl"}]
      BY DEF Init
    <3>3. msg \in [Node -> Payload]
      BY <2>1 DEF Init
    <3> QED BY <3>1, <3>2, <3>3 DEF SendingTypeOK
  <2>4. ChannelTypeOK
    BY <2>1 DEF Init, ChannelTypeOK
  <2>5. ReaderTypeOK
    BY <2>1 DEF Init, ReaderTypeOK
  <2> QED BY <2>2, <2>3, <2>4, <2>5 DEF TypeOK
<1>2. CallOK /\ WriteOK
  BY DEF Init, CallOK, WriteOK, Nothing, Leq, Request, Node, Channel
<1>3. UsedInTheirLife
  BY DEF Init, UsedInTheirLife
<1>4. Lives /\ Reads
  BY DEF Init, Lives, LifeOK, Reads, ReadOK, Reading, Node, Channel, ReadChannel, WriteChannel
<1> QED BY <1>1, <1>2, <1>3, <1>4 DEF IInv

\* Every step keeps it.
LEMMA StepKeepsIInv ==
  ASSUME IInv, [Next]_vars PROVE IInv'
<1>1. CASE Next
  <2>1. TypeOK'
    BY <1>1, ObjectTypes, SendingStep, ReaderTypes DEF IInv, TypeOK
  <2> QED BY <1>1, <2>1, CallStep, LifeStep, UseStep, WriteStep, ReadStep DEF IInv
<1>2. CASE UNCHANGED vars
  BY <1>2 DEF vars, object, sending, channel, IInv, TypeOK, ObjectTypeOK, SendingTypeOK, ChannelTypeOK,
     ReaderTypeOK, CallOK, WriteOK, UsedInTheirLife, Lives, Reads, LifeOK, ReadOK, Reading
<1> QED BY <1>1, <1>2

\* IInv in every behaviour.
LEMMA IInvHolds == Spec => []IInv
<1>1. IInv /\ [Next]_vars => IInv'
  BY StepKeepsIInv
<1> QED BY <1>1, InitIInv, PTL DEF Spec

\* Types, and that a callback is shown only requests that were sent, for any
\* number of requests.
THEOREM TypeCorrect == Spec => []TypeOK
<1>1. IInv => TypeOK
  BY DEF IInv
<1> QED BY <1>1, IInvHolds, PTL

\* UsedInTheirLife: the thread that CudaMemory's first member starts never meets
\* a missing _userCallback before the destructor begins.
THEOREM PartsAreThere == Spec => []UsedInTheirLife
<1>1. IInv => UsedInTheirLife
  BY DEF IInv
<1> QED BY <1>1, IInvHolds, PTL

\* DestroyedIsQuiet: ~CudaMemory leaves no thread, no write and no handle.
THEOREM DestructionIsComplete == Spec => []DestroyedIsQuiet
<1>1. IInv => DestroyedIsQuiet
  BY DEF IInv, Lives, LifeOK, CallOK, DestroyedIsQuiet, Node, Channel, ReadChannel, WriteChannel,
     TypeOK, SendingTypeOK
<1> QED BY <1>1, IInvHolds, PTL

\* What a thread gives to the callback is between what it gave before and what
\* stood at the other end.
LEMMA CallIsBetween ==
  ASSUME IInv, NEW n \in Node, CallUser(n)
  PROVE  /\ n = "server" => shown'[n] \in Exchange!Between(shown[n], Exchange!Span(requests))
         /\ n = "client" => shown'[n] \in Exchange!Between(shown[n], shown["server"])
<1>1. /\ {shown[n], got[n], data[ReadChannel(n)], shown["server"]} \subseteq Payload
      /\ requests \in Nat /\ shown'[n] = got[n]
  BY ChannelFacts DEF CallUser, IInv, TypeOK, ReaderTypeOK, ChannelTypeOK, SendingTypeOK, Node
<1>2. Leq(shown[n], got[n]) /\ Leq(got[n], data[ReadChannel(n)])
  BY DEF CallUser, Goto, IInv, Reads, ReadOK
<1>3. /\ n = "server" => Leq(data[ReadChannel(n)], Request(requests))
      /\ n = "client" => Leq(data[ReadChannel(n)], shown["server"])
  BY DEF IInv, WriteOK, ReadChannel
<1>4. ASSUME NEW p \in Payload, NEW s \in Payload, NEW d \in Payload, NEW q,
             q \in Payload \/ q = Request(requests), Leq(p, s), Leq(s, d), Leq(d, q)
      PROVE  s \in Exchange!Between(p, q)
  BY <1>1, <1>4, CudaAssumption DEF Payload, Leq, Request, Exchange!Between
<1> QED  BY <1>1, <1>2, <1>3, <1>4 DEF Request, Exchange!Span

\* NeverGoesBack: the two objects implement RequestReply.  Only CallUser shows
\* anything, and only SendData makes a request.
THEOREM ImplementsRequestReply == Spec => NeverGoesBack
<1>1. Init => Exchange!Init
  BY DEF Init, Nothing, Exchange!Init, Exchange!Span, Node
<1>2. ASSUME IInv, [Next]_vars
      PROVE  Exchange!Next \/ UNCHANGED <<requests, shown["server"], shown["client"]>>
  <2>1. CASE SendData
    BY <2>1 DEF SendData, SendDataOf, Exchange!Next, Exchange!Make
  <2>2. ASSUME NEW n \in Node, CallUser(n) PROVE Exchange!Next
    <3>1. UNCHANGED requests /\ shown' = [shown EXCEPT ![n] = got[n]]
      BY <2>2 DEF CallUser, Quietly, sending
    <3>2. shown \in [Node -> Payload]
      BY <1>2 DEF IInv, TypeOK, ReaderTypeOK
    <3>3. CASE n = "server"
      BY <1>2, <2>2, <3>1, <3>2, <3>3, CallIsBetween DEF Exchange!Next, Exchange!See, Node
    <3>4. CASE n = "client"
      BY <1>2, <2>2, <3>1, <3>2, <3>4, CallIsBetween DEF Exchange!Next, Exchange!BeAnswered, Node
    <3> QED  BY <3>3, <3>4 DEF Node
  <2>3. CASE UNCHANGED vars
    BY <2>3 DEF vars, sending
  <2>4. CASE Next /\ ~SendData /\ ~\E n \in Node : CallUser(n)
    BY <2>4 DEF Next, Lifecycle, MakeReader, MakeReaderWith, DestroyCallback, Begun,
         MakeWriter, MakeWriterThrows, StopThread, DestroyWriter, StopReader, Join, JoinWith, Writing,
         BeginControl, ControlRefused, FailWith, DataWritten, Signal, Reader, Exit, Wake, ReadControl,
         ReadTerminates, ReadUnmapped, BeginCopy, ReadData, Reject, User, UserReturns, SendProcessedData,
         Begin, Refused, Quietly, sending
  <2> QED  BY <1>2, <2>1, <2>2, <2>3, <2>4
<1>3. IInv /\ [Next]_vars => [Exchange!Next]_<<requests, shown["server"], shown["client"]>>
  BY <1>2
<1> QED  BY <1>1, <1>3, IInvHolds, PTL DEF Spec, NeverGoesBack, Exchange!Spec

-----------------------------------------------------------------------------
(* The last request and its answer are not lost on the way, whichever of the *)
(* two signals coalesce.                                                     *)

\* The answer k lies whole in the server's segment, and the client has its
\* signal to come, is in a pass that reads it, or has been shown it.
Answered(k) ==
  /\ data["Write"] = Request(k) /\ ctl["Write"] = "whole" /\ wpc["server"] = "idle"
  /\ \/ event["Write"] \/ rpc["client"] \in {"woken", "copy"}
     \/ rpc["client"] \in {"data", "handle"} /\ got["client"] = Request(k)
     \/ rpc["client"] \in {"user", "wait"} /\ shown["client"] = Request(k)

Replying(k) ==
  /\ rpc["server"] = "reply" /\ msg["server"] = Request(k)
  /\ wpc["server"] \in {"data", "ctl"}
  /\ wpc["server"] = "ctl" => data["Write"] = Request(k)

\* Request k lies whole in the client's segment, and the server has its signal
\* to come, is in a pass that reads it, answers it or has answered it.
OnItsWay(k) ==
  /\ data["Read"] = Request(k) /\ ctl["Read"] = "whole"
  /\ \/ event["Read"] \/ rpc["server"] \in {"woken", "copy"}
     \/ rpc["server"] \in {"data", "handle"} /\ got["server"] = Request(k)
     \/ rpc["server"] = "user" /\ shown["server"] = Request(k)
     \/ Replying(k)
     \/ rpc["server"] = "wait" /\ Answered(k)

BeingSent(k) ==
  /\ msg["client"] = Request(k)
  /\ wpc["client"] = "ctl" => data["Read"] = Request(k)

\* Nobody has been destroyed, and since the last request no send and no view was
\* refused; the server may still be
\* under construction, or not be there yet.
Standing == phase["client"] = "up" /\ phase["server"] \in {"none", "reader", "up"} /\ ~lost

NotForgotten ==
  Standing /\ requests > 0 =>
    IF wpc["client"] = "idle" THEN OnItsWay(requests) ELSE BeingSent(requests)

WayInv == NotForgotten /\ (phase["client"] \in {"none", "reader"} => requests = 0)

LEMMA InitWay == Init => WayInv
BY DEF Init, WayInv, NotForgotten

\* Objects that are made find the segments that the other holds as they are.
LEMMA LifecycleWay ==
  ASSUME IInv, WayInv, NEW n \in Node, Lifecycle(n) PROVE WayInv'
<1> USE DEF IInv, TypeOK, ObjectTypeOK, object, sending, channel
<1>1. UNCHANGED <<requests, wpc, msg, lost>>
  BY DEF Lifecycle, Begun, MakeReader, MakeReaderWith, MakeWriter, MakeWriterThrows,
         DestroyCallback, DestroyWriter, StopReader, StopThread, Join, JoinWith
<1>2. phase["client"] \notin {"none", "reader"} => phase'["client"] \notin {"none", "reader"}
  <2>1. \E from, to : Enter(n, from, to) /\ to # "none" /\ (to = "reader" => from = "none")
    <3>1. CASE MakeReader(n)  BY <3>1 DEF MakeReader, MakeReaderWith
    <3>2. CASE MakeWriter(n) \/ MakeWriterThrows(n)  BY <3>2 DEF MakeWriter, MakeWriterThrows
    <3>3. CASE DestroyCallback(n) \/ DestroyWriter(n)  BY <3>3 DEF DestroyCallback, DestroyWriter
    <3>4. CASE StopReader(n) \/ Join(n)  BY <3>4 DEF StopReader, Join, JoinWith
    <3> QED  BY <3>1, <3>2, <3>3, <3>4 DEF Lifecycle, Begun
  <2> QED  BY <2>1 DEF Enter, Node
<1>3. SUFFICES ASSUME Standing', requests > 0 PROVE NotForgotten'
  BY <1>1, <1>2 DEF WayInv, NotForgotten
<1>4. n = "server" /\ phase["client"] = "up" /\ ~lost
  <2>1. phase["client"] \notin {"none", "reader"}
    BY <1>3 DEF WayInv, SendingTypeOK
  <2>2. n # "client"
    BY <1>3, <2>1 DEF Standing, Lifecycle, Begun, MakeReader, MakeReaderWith, MakeWriter,
       MakeWriterThrows, DestroyCallback, DestroyWriter, StopReader, Join, JoinWith, Enter
  <2>3. phase'["client"] = phase["client"]
    BY <2>2 DEF Lifecycle, Begun, MakeReader, MakeReaderWith, MakeWriter, MakeWriterThrows,
       DestroyCallback, DestroyWriter, StopReader, Join, JoinWith, Enter, Node
  <2> QED  BY <1>1, <1>3, <2>2, <2>3 DEF Standing, Node
<1>5. open["Read"] # {} /\ open["Write"] # {}
  BY <1>4 DEF Lives, LifeOK, ReadChannel, WriteChannel, Node
<1>6. CASE MakeReader("server")
  <2>1. /\ UNCHANGED <<data, ctl, event, got, shown>> /\ rpc["server"] = "none"
        /\ phase["server"] = "none" /\ rpc'["client"] = rpc["client"]
    BY <1>5, <1>6 DEF MakeReader, MakeReaderWith, Open, Enter, ReadChannel, Lives, LifeOK,
       Node, ReaderTypeOK
  <2>2. IF wpc["client"] = "idle" THEN OnItsWay(requests) ELSE BeingSent(requests)
    BY <1>3, <1>4, <2>1 DEF WayInv, NotForgotten, Standing
  <2> QED  BY <1>1, <2>1, <2>2 DEF NotForgotten, OnItsWay, BeingSent, Replying
<1>7. CASE MakeWriter("server")
  <2>1. UNCHANGED <<data, ctl, event, got, shown, rpc>> /\ phase["server"] = "reader"
    BY <1>5, <1>7 DEF MakeWriter, Open, Enter, WriteChannel
  <2>2. IF wpc["client"] = "idle" THEN OnItsWay(requests) ELSE BeingSent(requests)
    BY <1>3, <1>4, <2>1 DEF WayInv, NotForgotten, Standing
  <2> QED  BY <1>1, <2>1, <2>2 DEF NotForgotten, OnItsWay, BeingSent, Replying, Answered
<1>8. CASE ~MakeReader("server") /\ ~MakeWriter("server")
  <2>1. phase'["server"] \notin {"none", "reader", "up"}
    BY <1>4, <1>8 DEF Lifecycle, Begun, MakeWriterThrows, DestroyCallback, DestroyWriter,
       StopReader, Join, JoinWith, Enter, Node
  <2> QED  BY <1>3, <2>1 DEF Standing
<1> QED  BY <1>4, <1>6, <1>7, <1>8

\* The client's own writes: a new request takes the place of the one before.
LEMMA SendWay ==
  ASSUME IInv, WayInv, SendData \/ Writing("client") PROVE WayInv'
<1> USE DEF IInv, TypeOK, ObjectTypeOK, SendingTypeOK, ChannelTypeOK, object, sending, channel
<1>1. phase' = phase /\ "client" \in Node /\ "Read" \in Channel /\ WriteChannel("client") = "Read"
  BY ChannelFacts DEF SendData, SendDataOf, Writing, BeginControl, ControlRefused, FailWith, DataWritten,
         Signal, Node, Channel
<1>2. phase["client"] \in {"none", "reader"} => requests' = 0
  BY DEF WayInv, SendData, SendDataOf, Writing, BeginControl, ControlRefused, FailWith, DataWritten,
         Signal
<1>3. NotForgotten'
  <2> SUFFICES ASSUME Standing', requests' > 0
               PROVE  (IF wpc["client"] = "idle" THEN OnItsWay(requests) ELSE BeingSent(requests))'
    BY DEF NotForgotten
  <2>1. CASE SendData
    BY <1>1, <2>1 DEF Standing, SendData, SendDataOf, Begin, Refused, BeingSent
  <2>2. CASE BeginControl("client")
    BY <1>1, <2>2 DEF BeginControl, DataWritten, BeingSent, WayInv, NotForgotten, Standing
  <2>3. CASE Signal("client")
    BY <1>1, <2>3 DEF Signal, OnItsWay, BeingSent, WayInv, NotForgotten, Standing
  <2>4. ~ControlRefused("client")
    BY DEF Standing, ControlRefused, FailWith
  <2> QED  BY <2>1, <2>2, <2>3, <2>4 DEF Writing
<1> QED  BY <1>1, <1>2, <1>3 DEF WayInv

\* What any other step has to show: the client's side is as it was, and from
\* where the request or its answer is now they go on.
LEMMA OthersWay ==
  ASSUME WayInv, UNCHANGED <<phase, requests, lost, data["Read"], ctl["Read"]>>,
         UNCHANGED <<wpc["client"], msg["client"]>>,
         Standing /\ requests > 0 /\ wpc["client"] = "idle" /\ OnItsWay(requests)
           => OnItsWay(requests)'
  PROVE  WayInv'
BY DEF WayInv, NotForgotten, Standing, BeingSent

\* The server's answer takes the place of the one before.
LEMMA ReplyWay ==
  ASSUME IInv, WayInv, Writing("server") \/ User("server") PROVE WayInv'
<1> USE DEF IInv, TypeOK, ObjectTypeOK, SendingTypeOK, ChannelTypeOK, ReaderTypeOK, object, sending,
            channel, CallOK
<1>1. /\ "client" \in Node /\ "server" \in Node /\ "Read" \in Channel /\ "Write" \in Channel
      /\ WriteChannel("server") = "Write" /\ "Read" # "Write" /\ "client" # "server"
  BY ChannelFacts DEF Node, Channel
<1>2. CASE lost'
  <2>1. UNCHANGED <<phase, requests>>
    BY DEF Writing, BeginControl, ControlRefused, FailWith, DataWritten, Signal, User,
           SendProcessedData, Begin, Refused
  <2> QED  BY <1>2, <2>1 DEF WayInv, NotForgotten, Standing
<1>3. CASE BeginControl("server")
  <2>1. /\ rpc["server"] = "reply" /\ wpc["server"] = "data" /\ wpc'["server"] = "ctl"
        /\ data'["Write"] = msg["server"]
        /\ UNCHANGED <<phase, requests, msg, event, rpc, got, shown, lost>>
        /\ UNCHANGED <<data["Read"], ctl["Read"], wpc["client"]>>
    BY <1>1, <1>3 DEF BeginControl, DataWritten
  <2> QED  BY <2>1, OthersWay DEF OnItsWay, Replying
<1>4. CASE Signal("server")
  <2>1. /\ rpc["server"] = "reply" /\ wpc["server"] = "ctl" /\ wpc'["server"] = "idle"
        /\ rpc'["server"] = "wait" /\ ctl'["Write"] = "whole" /\ event'["Write"]
        /\ UNCHANGED <<phase, requests, msg, data, got, shown, lost>>
        /\ UNCHANGED <<ctl["Read"], event["Read"], wpc["client"]>>
    BY <1>1, <1>4 DEF Signal, BackFromReply
  <2> QED  BY <2>1, OthersWay DEF OnItsWay, Replying, Answered
<1>5. CASE Begin("server", shown["server"]) /\ SendProcessedData
  <2>1. /\ rpc["server"] = "user" /\ rpc'["server"] = "reply" /\ wpc'["server"] = "data"
        /\ msg'["server"] = shown["server"]
        /\ UNCHANGED <<phase, requests, event, got, shown, lost, ctl>>
        /\ UNCHANGED <<data["Read"], wpc["client"], msg["client"]>>
    BY <1>1, <1>5 DEF SendProcessedData, Begin, Goto, Refused
  <2> QED  BY <2>1, OthersWay DEF OnItsWay, Replying
<1> QED
  BY <1>2, <1>3, <1>4, <1>5 DEF Writing, ControlRefused, FailWith, User, SendProcessedData, Refused

\* A pass of the server's thread that begins with the request reads it whole.
LEMMA ServerWay ==
  ASSUME IInv, WayInv, Reader("server") PROVE WayInv'
<1> USE DEF IInv, TypeOK, ObjectTypeOK, SendingTypeOK, ChannelTypeOK, ReaderTypeOK, object, sending,
            channel, Quietly, Goto
<1>1. /\ "client" \in Node /\ "server" \in Node /\ "Read" \in Channel /\ "Write" \in Channel
      /\ ReadChannel("server") = "Read" /\ "Read" # "Write" /\ "client" # "server"
  BY ChannelFacts DEF Node, Channel, ReadChannel
<1>2. CASE ReadTerminates("server")
  BY <1>1, <1>2 DEF ReadTerminates, WayInv, NotForgotten, Standing
<1>3. CASE ReadUnmapped("server")
  BY <1>3 DEF ReadUnmapped, WayInv, NotForgotten, Standing
<1>4. CASE ~ReadTerminates("server") /\ ~ReadUnmapped("server")
  <2>1. /\ UNCHANGED <<phase, requests, lost, data, ctl, wpc, msg, event["Write"], got["client"]>>
        /\ UNCHANGED <<rpc["client"], shown["client"]>>
    BY <1>1, <1>4 DEF Reader, Exit, Wake, ReadControl, BeginCopy, ReadData, Reject, CallUser
  <2> SUFFICES ASSUME Standing, OnItsWay(requests), requests > 0 PROVE OnItsWay(requests)'
    BY <2>1, OthersWay
  <2>2. data["Read"] = Request(requests) /\ ctl["Read"] = "whole"
    BY DEF OnItsWay
  <2>3. CASE Wake("server")
    BY <1>1, <2>1, <2>2, <2>3 DEF Wake, OnItsWay
  <2>4. CASE event["Read"] /\ ~Wake("server")
    <3>1. event'["Read"]
      BY <1>1, <1>4, <2>4 DEF Reader, Exit, ReadControl, BeginCopy, ReadData, Reject, CallUser
    <3> QED  BY <2>1, <2>2, <3>1 DEF OnItsWay
  <2>5. CASE ~event["Read"] /\ ReadControl("server")
    BY <1>1, <2>1, <2>2, <2>5 DEF ReadControl, OnItsWay, Replying
  <2>6. CASE ~event["Read"] /\ BeginCopy("server")
    BY <1>1, <2>1, <2>2, <2>6 DEF BeginCopy, OnItsWay
  <2>7. CASE ~event["Read"] /\ ReadData("server")
    <3>1. got["server"] = Request(requests)
      BY <2>7 DEF ReadData, OnItsWay, Replying
    <3>2. got'["server"] = Request(requests)
      BY <1>1, <2>2, <2>7, <3>1 DEF ReadData, Request
    <3> QED  BY <1>1, <2>1, <2>2, <2>7, <3>2 DEF ReadData, OnItsWay
  <2>8. CASE ~event["Read"] /\ CallUser("server")
    <3>1. got["server"] = Request(requests)
      BY <2>8 DEF CallUser, OnItsWay, Replying
    <3> QED  BY <1>1, <2>1, <2>2, <2>8, <3>1 DEF CallUser, OnItsWay
  <2>9. ~Exit("server")
    BY DEF Exit, Stopped, Standing
  <2>10. CASE ~event["Read"] /\ Reject("server")
    BY <2>10 DEF Reject, OnItsWay, Replying, Request
  <2> QED  BY <1>4, <2>3, <2>4, <2>5, <2>6, <2>7, <2>8, <2>9, <2>10 DEF Reader
<1> QED  BY <1>2, <1>3, <1>4

\* So does a pass of the client's thread that begins with the answer.
LEMMA ClientWay ==
  ASSUME IInv, WayInv, Reader("client") \/ User("client") PROVE WayInv'
<1> USE DEF IInv, TypeOK, ObjectTypeOK, SendingTypeOK, ChannelTypeOK, ReaderTypeOK, object, sending,
            channel, Quietly, Goto
<1>1. /\ "client" \in Node /\ "server" \in Node /\ "Read" \in Channel /\ "Write" \in Channel
      /\ ReadChannel("client") = "Write" /\ "Read" # "Write" /\ "client" # "server"
  BY ChannelFacts DEF Node, Channel, ReadChannel
<1>2. CASE ReadTerminates("client")
  <2>1. phase'["client"] = "terminated" /\ UNCHANGED requests
    BY <1>1, <1>2 DEF ReadTerminates
  <2> QED  BY <2>1 DEF WayInv, NotForgotten, Standing
<1>3. CASE ReadUnmapped("client")
  BY <1>3 DEF ReadUnmapped, WayInv, NotForgotten, Standing
<1>4. CASE ~ReadTerminates("client") /\ ~ReadUnmapped("client")
  <2>1. /\ UNCHANGED <<phase, requests, lost, data, ctl, wpc, msg, event["Read"], got["server"]>>
        /\ UNCHANGED <<rpc["server"], shown["server"]>>
    BY <1>1, <1>4 DEF Reader, Exit, Wake, ReadControl, BeginCopy, ReadData, Reject, CallUser,
       User, UserReturns
  <2> SUFFICES ASSUME Standing, Answered(requests) PROVE Answered(requests)'
    BY <2>1, OthersWay DEF OnItsWay, Replying
  <2>2. data["Write"] = Request(requests) /\ ctl["Write"] = "whole"
    BY DEF Answered
  <2>3. CASE Wake("client")
    BY <1>1, <2>1, <2>2, <2>3 DEF Wake, Answered
  <2>4. CASE event["Write"] /\ ~Wake("client")
    <3>1. event'["Write"]
      BY <1>1, <1>4, <2>4 DEF Reader, Exit, ReadControl, BeginCopy, ReadData, Reject, CallUser,
         User, UserReturns
    <3> QED  BY <2>1, <2>2, <3>1 DEF Answered
  <2>5. CASE ~event["Write"] /\ ReadControl("client")
    BY <1>1, <2>1, <2>2, <2>5 DEF ReadControl, Answered
  <2>6. CASE ~event["Write"] /\ BeginCopy("client")
    BY <1>1, <2>1, <2>2, <2>6 DEF BeginCopy, Answered
  <2>7. CASE ~event["Write"] /\ ReadData("client")
    <3>1. got["client"] = Request(requests)
      BY <2>7 DEF ReadData, Answered
    <3>2. got'["client"] = Request(requests)
      BY <1>1, <2>2, <2>7, <3>1 DEF ReadData, Request
    <3> QED  BY <1>1, <2>1, <2>2, <2>7, <3>2 DEF ReadData, Answered
  <2>8. CASE ~event["Write"] /\ CallUser("client")
    <3>1. got["client"] = Request(requests)
      BY <2>8 DEF CallUser, Answered
    <3> QED  BY <1>1, <2>1, <2>2, <2>8, <3>1 DEF CallUser, Answered
  <2>9. CASE ~event["Write"] /\ UserReturns
    BY <1>1, <2>1, <2>2, <2>9 DEF UserReturns, Answered
  <2>10. ~Exit("client")
    BY DEF Exit, Stopped, Standing
  <2>11. CASE ~event["Write"] /\ Reject("client")
    BY <2>11 DEF Reject, Answered, Request
  <2> QED  BY <1>4, <2>3, <2>4, <2>5, <2>6, <2>7, <2>8, <2>9, <2>10, <2>11 DEF Reader, User
<1> QED  BY <1>2, <1>3, <1>4

LEMMA NextWay == ASSUME IInv, WayInv, [Next]_vars PROVE WayInv'
<1>1. CASE Next
  <2>1. ASSUME NEW n \in Node, Writing(n) \/ Reader(n) \/ User(n) PROVE WayInv'
    BY <2>1, SendWay, ReplyWay, ServerWay, ClientWay DEF Node
  <2> QED  BY <1>1, <2>1, LifecycleWay, SendWay DEF Next
<1>2. CASE UNCHANGED vars
  BY <1>2 DEF vars, object, sending, channel, WayInv, NotForgotten, Standing, OnItsWay, BeingSent,
     Replying, Answered
<1> QED  BY <1>1, <1>2

\* While both objects are up, the last request, unless a send or a view of a
\* reader was refused since it was made, is in a
\* segment with its signal pending, in the hands of a thread, or answered and
\* the answer so: what is left of LastRequestAnswered is that threads run.
THEOREM LastIsNeverForgotten == Spec => []NotForgotten
<1>1. WayInv => NotForgotten
  BY DEF WayInv
<1> QED  BY <1>1, IInvHolds, InitWay, NextWay, PTL DEF Spec

-----------------------------------------------------------------------------
(* The way of a thread to the join of its destructor.                        *)

\* What the thread of a reader that is stopped has still to do at most, the
\* rest of a WriteData it is inside included.
StepsFrom == [none |-> 0, wait |-> 2, woken |-> 1, copy |-> 8, data |-> 7, handle |-> 6,
              user |-> 5, reply |-> 3, exited |-> 0, terminated |-> 0]
ThreadStepsLeft(n) ==
  StepsFrom[rpc[n]] + (IF rpc[n] = "reply" /\ wpc[n] = "data" THEN 1 ELSE 0)

\* A thread in a reply is inside WriteData, and one that ended its process has
\* no destructor to wait for it.
InReply ==
  /\ rpc["server"] = "reply" => wpc["server"] \in {"data", "ctl"}
  /\ \A n \in Node : rpc[n] = "terminated" => phase[n] = "terminated"

LEMMA InReplyStep ==
  ASSUME IInv, InReply, [Next]_vars PROVE InReply'
<1> USE DEF object, sending, channel, Node, InReply, IInv, TypeOK, ObjectTypeOK, SendingTypeOK,
      ReaderTypeOK, CallOK, Lives, LifeOK
<1>1. ASSUME NEW n \in Node, MakeReader(n) \/ MakeWriter(n) PROVE InReply'
  BY <1>1 DEF MakeReader, MakeReaderWith, Enter, Open, MakeWriter
<1>2. ASSUME NEW n \in Node, MakeWriterThrows(n) \/ StopReader(n) PROVE InReply'
  BY <1>2 DEF MakeWriterThrows, Enter, StopThread, StopReader
<1>3. ASSUME NEW n \in Node, DestroyCallback(n) \/ DestroyWriter(n) \/ Join(n) PROVE InReply'
  BY <1>3 DEF DestroyCallback, Enter, Misuse, DestroyWriter, Close, Join, JoinWith
<1>4. ASSUME NEW n \in Node, BeginControl(n) \/ ControlRefused(n) \/ Signal(n) PROVE InReply'
  BY <1>4 DEF BeginControl, DataWritten, ControlRefused, FailWith, BackFromReply, Signal
<1>5. ASSUME NEW n \in Node, Exit(n) \/ Wake(n) \/ ReadControl(n) \/ ReadUnmapped(n)
             \/ Reject(n) \/ UserReturns
      PROVE  InReply'
  BY <1>5 DEF Exit, Goto, Quietly, Stopped, Wake, ReadControl, ReadUnmapped, Reject, UserReturns
<1>6. ASSUME NEW n \in Node, ReadTerminates(n) \/ BeginCopy(n) \/ ReadData(n) \/ CallUser(n)
      PROVE  InReply'
  BY <1>6 DEF ReadTerminates, Goto, Stopped, BeginCopy, Quietly, ReadData, CallUser, Misuse
<1>7. ASSUME SendData \/ SendProcessedData PROVE InReply'
  BY <1>7 DEF SendData, SendDataOf, Begin, Refused, SendProcessedData, Goto, Misuse
<1>8. ASSUME UNCHANGED vars PROVE InReply'
  BY <1>8 DEF vars
<1> QED  BY <1>1, <1>2, <1>3, <1>4, <1>5, <1>6, <1>7, <1>8 DEF Next, Lifecycle, Begun, Writing,
      Reader, User

\* What a step of anybody makes of the measure of a thread that is to be joined.
LEMMA JoiningStep ==
  ASSUME IInv, InReply, Next, NEW n \in Node, phase[n] = "joining"
  PROVE  /\ ThreadStepsLeft(n)' <= ThreadStepsLeft(n)
         /\ Writing(n) \/ Reader(n) \/ User(n) => ThreadStepsLeft(n)' < ThreadStepsLeft(n)
<1> DEFINE Ends(m) == m = n /\ ThreadStepsLeft(n)' < ThreadStepsLeft(n)
           Keeps == UNCHANGED <<rpc[n], wpc[n]>>
<1> USE DEF object, sending, channel, Node, InReply, IInv, TypeOK, ObjectTypeOK, SendingTypeOK,
      ReaderTypeOK, CallOK, Lives, LifeOK
<1>1. ASSUME NEW m \in Node, Lifecycle(m) PROVE Keeps
  <2>1. CASE MakeReader(m)
    BY <2>1 DEF MakeReader, MakeReaderWith, Enter
  <2>2. CASE MakeWriter(m) \/ MakeWriterThrows(m) \/ StopReader(m)
    BY <2>2 DEF MakeWriter, MakeWriterThrows, StopThread, StopReader
  <2>3. CASE DestroyCallback(m) \/ DestroyWriter(m) \/ Join(m)
    BY <2>3 DEF DestroyCallback, DestroyWriter, Join, JoinWith
  <2> QED  BY <1>1, <2>1, <2>2, <2>3 DEF Lifecycle, Begun
<1>2. ASSUME SendData PROVE Keeps
  BY <1>2 DEF SendData, SendDataOf, Begin, Refused
<1>3. ASSUME NEW m \in Node, Writing(m) PROVE Ends(m) \/ (m # n /\ Keeps)
  <2> USE DEF DataWritten, BackFromReply
  <2>1. CASE m # n
    BY <1>3, <2>1 DEF Writing, BeginControl, ControlRefused, FailWith, Signal
  <2>2. CASE m = n
    <3>1. n = "server" /\ rpc[n] = "reply"
      BY <1>3, <2>2 DEF Writing, BeginControl, ControlRefused, FailWith, Signal
    <3>2. CASE BeginControl(n)
      BY <3>1, <3>2, <2>2 DEF BeginControl, ThreadStepsLeft, StepsFrom
    <3>3. CASE ControlRefused(n)
      BY <3>1, <3>3, <2>2 DEF ControlRefused, FailWith, ThreadStepsLeft, StepsFrom
    <3>4. CASE Signal(n)
      BY <3>1, <3>4, <2>2 DEF Signal, ThreadStepsLeft, StepsFrom
    <3> QED  BY <1>3, <2>2, <3>2, <3>3, <3>4 DEF Writing
  <2> QED  BY <2>1, <2>2
<1>4. ASSUME NEW m \in Node, Reader(m) PROVE Ends(m) \/ (m # n /\ Keeps)
  <2> USE DEF Goto, Quietly, Stopped
  <2>1. CASE m # n
    BY <1>4, <2>1 DEF Reader, Exit, Wake, ReadControl, ReadTerminates, ReadUnmapped, BeginCopy,
       ReadData, Reject, CallUser
  <2>2. CASE m = n
    <3>1. CASE Exit(n) \/ Wake(n)
      BY <3>1, <2>2 DEF Exit, Wake, ThreadStepsLeft, StepsFrom
    <3>2. ~ReadControl(n) /\ ~ReadTerminates(n)
      BY DEF ReadControl, ReadTerminates
    <3>3. CASE BeginCopy(n) \/ ReadData(n)
      BY <3>3, <2>2 DEF BeginCopy, ReadData, ThreadStepsLeft, StepsFrom
    <3>4. CASE Reject(n) \/ CallUser(n) \/ ReadUnmapped(n)
      BY <3>4, <2>2 DEF Reject, CallUser, ReadUnmapped, ThreadStepsLeft, StepsFrom
    <3> QED  BY <1>4, <2>2, <3>1, <3>2, <3>3, <3>4 DEF Reader
  <2> QED  BY <2>1, <2>2
<1>5. ASSUME NEW m \in Node, User(m) PROVE Ends(m) \/ (m # n /\ Keeps)
  <2>1. CASE m = "client"
    BY <1>5, <2>1 DEF User, UserReturns, Goto, Quietly, ThreadStepsLeft, StepsFrom
  <2>2. CASE m = "server"
    BY <1>5, <2>2 DEF User, SendProcessedData, Goto, Begin, Refused, ThreadStepsLeft, StepsFrom
  <2> QED  BY <2>1, <2>2
<1>6. ThreadStepsLeft(n) \in Nat /\ ThreadStepsLeft(n)' \in Nat
  <2>1. IInv'
    BY StepKeepsIInv
  <2>2. rpc[n] \in DOMAIN StepsFrom /\ rpc'[n] \in DOMAIN StepsFrom
    BY <2>1 DEF StepsFrom
  <2>3. \A at \in DOMAIN StepsFrom : StepsFrom[at] \in Nat
    BY DEF StepsFrom
  <2> QED  BY <2>2, <2>3 DEF ThreadStepsLeft
<1>7. Keeps => ThreadStepsLeft(n)' = ThreadStepsLeft(n)
  BY DEF ThreadStepsLeft
<1>8. ThreadStepsLeft(n)' < ThreadStepsLeft(n) => ThreadStepsLeft(n)' <= ThreadStepsLeft(n)
  <2>1. \A x, y \in Nat : x < y => x <= y
    OBVIOUS
  <2> QED  BY <1>6, <2>1
<1> QED  BY <1>1, <1>2, <1>3, <1>4, <1>5, <1>6, <1>7, <1>8 DEF Next

\* Once ~MemoryBase waits for its thread, whatever was under way in it, a copy,
\* a callback or an answer to the other end, is over after at most eight steps
\* of the thread; nothing another does adds one, and none is left exactly when
\* the join returns: what is left of DestructorReturns is that threads run.
THEOREM JoinIsShort ==
  Spec => /\ [](\A n \in Node : phase[n] = "joining" =>
                   /\ ThreadStepsLeft(n) \in 0 .. 8
                   /\ ThreadStepsLeft(n) = 0 <=> rpc[n] = "exited"
                   /\ rpc[n] = "reply" => n = "server" /\ wpc[n] \in {"data", "ctl"})
          /\ [][\A n \in Node : phase[n] = "joining" =>
                   /\ ThreadStepsLeft(n)' <= ThreadStepsLeft(n)
                   /\ Writing(n) \/ Reader(n) \/ User(n) =>
                        ThreadStepsLeft(n)' < ThreadStepsLeft(n)]_vars
<1>1. Init => InReply
  BY DEF Init, InReply, Node
<1>2. IInv /\ InReply =>
        \A n \in Node : phase[n] = "joining" =>
           /\ ThreadStepsLeft(n) \in 0 .. 8
           /\ ThreadStepsLeft(n) = 0 <=> rpc[n] = "exited"
           /\ rpc[n] = "reply" => n = "server" /\ wpc[n] \in {"data", "ctl"}
  BY DEF IInv, TypeOK, ReaderTypeOK, CallOK, Lives, LifeOK, InReply, ThreadStepsLeft, StepsFrom, Node
<1>3. IInv /\ InReply /\ [Next]_vars => InReply'
  BY InReplyStep
<1>4. IInv /\ InReply /\ [Next]_vars =>
        [\A n \in Node : phase[n] = "joining" =>
            /\ ThreadStepsLeft(n)' <= ThreadStepsLeft(n)
            /\ Writing(n) \/ Reader(n) \/ User(n) =>
                 ThreadStepsLeft(n)' < ThreadStepsLeft(n)]_vars
  BY JoiningStep
<1> QED  BY <1>1, <1>2, <1>3, <1>4, IInvHolds, PTL DEF Spec
=============================================================================
