----------------------------- MODULE Programs_proofs -----------------------------
(* The smaller programs, each for any values of its constants: the client    *)
(* with acknowledgement, the programs that send one message, and the address *)
(* book.  The three models share nothing.                                    *)
EXTENDS AckClient, OneShot, AddressBook, SequenceTheorems, TLAPS

-----------------------------------------------------------------------------
(* AckClient: the order of the two packets.                                  *)

\* Why the block may be empty: once the first packet is in it, in a channel
\* that was empty before, only a server that has read that packet empties it.
\* Whatever is read, answered or acknowledged was taken.
IInv ==
  /\ ~inherited =>
       /\ block \in {"empty", "first", "second"}
       /\ main \in {"construct", "send"} => block = "empty"
       /\ main \in {"poll", "test"} /\ block = "empty" => "first" \in taken
       /\ main = "send2" \/ block = "second" \/ server = "read" => "first" \in taken
       /\ "second" \in taken => "first" \in taken
  /\ server \in {"read", "cleared"} \/ ackSent \/ ackReceived => taken # {}

THEOREM OrderInit == Init => IInv
  BY DEF Init, IInv

\* The looking, sending and acknowledged client, and the server at any pace.
THEOREM OrderStep == IInv /\ [Next]_vars => IInv'
<1> SUFFICES ASSUME IInv, [Next]_vars PROVE IInv'
  OBVIOUS
<1> USE DEF IInv, vars, remote, acks
<1>1. CASE Construct
  BY <1>1 DEF Construct
<1>2. CASE SendCudaVectors
  BY <1>2 DEF SendCudaVectors, Send
<1>3. CASE Poll
  BY <1>3 DEF Poll, IsWriteChannelReady
<1>4. CASE Test
  BY <1>4 DEF Test, IsWriteChannelReady
<1>5. CASE SendCudaValues
  BY <1>5 DEF SendCudaValues, Send
<1>6. CASE OnAckReceived
  BY <1>6 DEF OnAckReceived, Alive
<1>7. CASE ServerReads
  BY <1>7 DEF ServerReads
<1>8. CASE ServerClears
  BY <1>8 DEF ServerClears
<1>9. CASE ServerAcknowledges
  BY <1>9 DEF ServerAcknowledges
<1>10. CASE ServerEnds \/ ServerStarts
  BY <1>10 DEF ServerEnds, ServerStarts
<1>11. CASE UNCHANGED vars
  BY <1>11
<1>. QED
  BY <1>1, <1>2, <1>3, <1>4, <1>5, <1>6, <1>7, <1>8, <1>9, <1>10, <1>11 DEF Next, Main

\* The second packet never replaces a first one nobody has read, and every
\* acknowledgement is of a packet: TcMemory02 over any number of looks and any
\* ends and starts of the server.
THEOREM SecondIsAfterFirst == Spec => []SecondAfterFirst
<1>1. IInv => SecondAfterFirst
  BY DEF IInv, SecondAfterFirst
<1>. QED
  BY <1>1, OrderInit, OrderStep, PTL DEF Spec

\* The steps main has left at most: its looks at the block, its two packets.
MainStepsLeft ==
  IF main = "poll" THEN MaxPoll - polls + 3
  ELSE [construct |-> MaxPoll + 5, send |-> MaxPoll + 4, test |-> 2, send2 |-> 1, enter |-> 0][main]

PollsOK == /\ main \in {"construct", "send", "poll", "test", "send2", "enter"}
           /\ polls \in 0 .. MaxPoll /\ (main \in {"construct", "send"} => polls = 0)

\* Whatever the server does or leaves undone, main is at its end after MaxPoll
\* + 5 steps of its own: the safety half of ClientEnds.
THEOREM MainTakesFewSteps ==
  Spec => /\ [](MainStepsLeft \in 0 .. MaxPoll + 5)
          /\ [][/\ MainStepsLeft' <= MainStepsLeft
                /\ Main => MainStepsLeft' < MainStepsLeft]_vars
<1> USE PollAssumption
<1>1. Init => PollsOK
  BY DEF Init, PollsOK
<1>2. PollsOK /\ [Next]_vars =>
        PollsOK' /\ [/\ MainStepsLeft' <= MainStepsLeft
                     /\ Main => MainStepsLeft' < MainStepsLeft]_vars
  <2> SUFFICES ASSUME PollsOK, [Next]_vars
               PROVE  /\ PollsOK'
                      /\ ~UNCHANGED vars => MainStepsLeft' <= MainStepsLeft
                      /\ Main => MainStepsLeft' < MainStepsLeft
    OBVIOUS
  <2>1. ASSUME Main PROVE PollsOK' /\ MainStepsLeft' < MainStepsLeft /\ MainStepsLeft' <= MainStepsLeft
    <3>1. CASE Poll
      BY <3>1 DEF Poll, PollsOK, MainStepsLeft
    <3>2. CASE Construct
      BY <3>2 DEF Construct, PollsOK, MainStepsLeft
    <3>3. CASE SendCudaVectors
      BY <3>3 DEF SendCudaVectors, Send, PollsOK, MainStepsLeft
    <3>4. CASE Test
      BY <3>4 DEF Test, PollsOK, MainStepsLeft
    <3>5. CASE SendCudaValues
      BY <3>5 DEF SendCudaValues, Send, PollsOK, MainStepsLeft
    <3> QED  BY <2>1, <3>1, <3>2, <3>3, <3>4, <3>5 DEF Main
  <2>2. MainStepsLeft \in Int
    BY DEF PollsOK, MainStepsLeft
  <2>3. ASSUME ~Main PROVE UNCHANGED <<main, polls>>
    BY <2>3 DEF Next, OnAckReceived, ServerReads, ServerClears, ServerAcknowledges, ServerEnds,
                ServerStarts, vars
  <2> QED  BY <2>1, <2>2, <2>3 DEF PollsOK, MainStepsLeft
<1>3. PollsOK => MainStepsLeft \in 0 .. MaxPoll + 5
  BY DEF PollsOK, MainStepsLeft
<1> QED  BY <1>1, <1>2, <1>3, PTL DEF Spec

-----------------------------------------------------------------------------
(* AddressBook: the converters.                                              *)

IsAddress(rec) == DOMAIN rec = Address /\ rec = [x \in Address |-> rec[x]]
IsMessage(rec) == DOMAIN rec = Message /\ rec = [x \in Message |-> rec[x]]

\* decode gives back what was written with the keys it asks for, and throws
\* when they are written the other way or belong to a message.
LEMMA DecodeLower ==
  ASSUME NEW rec, IsAddress(rec) PROVE Decode(Node("lower", rec)) = rec
<1> DEFINE node == Node("lower", rec)
<1>1. node = [k \in {"lower"} \X Address |-> rec[k[2]]]
  BY DEF Node, IsAddress
<1>2. \A x \in Address : <<"lower", x>> \in DOMAIN node /\ node[<<"lower", x>>] = rec[x]
  BY <1>1
<1> HIDE DEF node
<1>3. Decode(node) = [x \in Address |-> rec[x]]
  BY <1>2 DEF Decode
<1> QED  BY <1>3 DEF node, IsAddress

LEMMA DecodeOther ==
  ASSUME NEW style, NEW rec, style = "Upper" \/ DOMAIN rec = Message
  PROVE  Decode(Node(style, rec)) = NoRecord
<1> DEFINE node == Node(style, rec)
<1>1. DOMAIN node = {style} \X DOMAIN rec
  BY DEF Node
<1>2. <<"lower", "id">> \notin DOMAIN node
  <2>1. CASE style = "Upper"  BY <1>1, <2>1
  <2>2. CASE DOMAIN rec = Message  BY <1>1, <2>2 DEF Message
  <2> QED  BY <2>1, <2>2
<1> HIDE DEF node
<1>3. Decode(node) = NoRecord
  BY <1>2 DEF Decode, Address
<1> QED  BY <1>3 DEF node

LEMMA DeserializeUpper ==
  ASSUME NEW rec, IsMessage(rec) PROVE DeserializeFromYaml(Node("Upper", rec)) = rec
<1> DEFINE node == Node("Upper", rec)
<1>1. node = [k \in {"Upper"} \X Message |-> rec[k[2]]]
  BY DEF Node, IsMessage
<1>2. \A x \in Message : <<"Upper", x>> \in DOMAIN node /\ node[<<"Upper", x>>] = rec[x]
  BY <1>1
<1> HIDE DEF node
<1>3. DeserializeFromYaml(node) = [x \in Message |-> rec[x]]
  BY <1>2 DEF DeserializeFromYaml
<1> QED  BY <1>3 DEF node, IsMessage

\* The text is of one of the writers, and what was read of it is what its
\* reader makes of that text.
TextOK ==
  \/ text.by = "nobody"
  \/ /\ text.by \in Formats \ {"MSocket01.h"} /\ IsAddress(text.rec)
     /\ text.node = Encode(text.by, text.rec)
  \/ /\ text.by = "MSocket01.h" /\ IsMessage(text.rec)
     /\ text.node = Node("Upper", text.rec)
  \/ /\ text.by = "SendToServerCharp.cpp" /\ IsMessage(text.rec)
     /\ text.node = Node("lower", text.rec)

ReadOK ==
  \/ reader = "nobody" /\ out = NoRecord /\ (text.by = "nobody" => text.rec = NoRecord)
  \/ /\ text.by # "nobody" /\ reader \in Formats
     /\ out = IF reader = "MSocket01.h" THEN DeserializeFromYaml(text.node)
                                        ELSE Decode(text.node)

StringsInv == TextOK /\ ReadOK

LEMMA RecordsAreRecords ==
  \A v : /\ \A f \in Formats \ {"MSocket01.h"} : IsAddress(Record(f, v))
         /\ IsMessage(Record("MSocket01.h", v))
BY DEF Record, FieldsOf, IsAddress, IsMessage

LEMMA SerializeStep ==
  ASSUME NEW f \in Formats, NEW v, Serialize(f, v) PROVE StringsInv'
<1> DEFINE rec == Record(f, v)
<1>1. /\ text' = [by |-> f, rec |-> rec, node |-> Encode(f, rec)]
      /\ reader' = "nobody" /\ out' = NoRecord
  BY DEF Serialize, Emit
<1>2. /\ text'.by = f /\ text'.rec = rec /\ text'.node = Encode(f, rec)
      /\ f # "nobody"
  BY <1>1 DEF Formats
<1>3. IF f = "MSocket01.h" THEN IsMessage(rec) /\ Encode(f, rec) = Node("Upper", rec)
                           ELSE IsAddress(rec)
  BY RecordsAreRecords DEF Encode
<1> HIDE DEF rec
<1>4. TextOK'
  BY <1>2, <1>3 DEF TextOK
<1> QED  BY <1>1, <1>2, <1>4 DEF StringsInv, ReadOK

LEMMA SerializeMessageStep ==
  ASSUME NEW v, SerializeMyMessage(v) PROVE StringsInv'
<1> DEFINE rec == Record("MSocket01.h", v)
<1>1. /\ text' = [by |-> "SendToServerCharp.cpp", rec |-> rec, node |-> Node("lower", rec)]
      /\ reader' = "nobody" /\ out' = NoRecord
  BY DEF SerializeMyMessage, Emit
<1>2. IsMessage(rec)
  BY RecordsAreRecords
<1> HIDE DEF rec
<1>3. /\ text'.by = "SendToServerCharp.cpp" /\ text'.rec = rec
      /\ text'.node = Node("lower", rec)
  BY <1>1
<1> QED  BY <1>1, <1>2, <1>3 DEF StringsInv, TextOK, ReadOK

\* All other steps leave the text alone; of these only a reader changes what
\* was read.
LEMMA StringsStep == StringsInv /\ [BookNext]_(bookVars) => StringsInv'
<1> SUFFICES ASSUME StringsInv, [BookNext]_(bookVars) PROVE StringsInv'
  OBVIOUS
<1>1. ASSUME NEW f \in Formats, Deserialize(f) PROVE StringsInv'
  <2>1. /\ text.by # "nobody" /\ text' = text /\ reader' = f
        /\ out' = IF f = "MSocket01.h" THEN DeserializeFromYaml(text.node)
                                       ELSE Decode(text.node)
    BY <1>1 DEF Deserialize
  <2>2. TextOK'
    BY <2>1 DEF StringsInv, TextOK
  <2>3. ReadOK'
    BY <2>1 DEF ReadOK
  <2> QED  BY <2>2, <2>3 DEF StringsInv
<1>2. ASSUME UNCHANGED strings PROVE StringsInv'
  BY <1>2 DEF strings, StringsInv, TextOK, ReadOK
<1>3. CASE UNCHANGED bookVars
  BY <1>2, <1>3 DEF bookVars
<1>4. ASSUME NEW keys, NEW v, OpenYaml(keys, v) PROVE UNCHANGED strings
  BY <1>4 DEF OpenYaml
<1>5. CASE FlushYaml \/ CloseYaml \/ ReadYaml
  BY <1>2, <1>5 DEF FlushYaml, CloseYaml, ReadYaml
<1> QED  BY <1>1, <1>2, <1>3, <1>4, <1>5, SerializeStep, SerializeMessageStep DEF BookNext

\* Which writer's record which reader gets back, for any records.
THEOREM ConvertersAgreeAlways == BookSpec => []ConvertersAgree
<1>1. BookInit => StringsInv
  BY DEF BookInit, StringsInv, TextOK, ReadOK
<1>2. StringsInv => ConvertersAgree
  <2> SUFFICES ASSUME StringsInv PROVE ConvertersAgree
    OBVIOUS
  <2>1. CASE reader = "nobody"
    BY <2>1 DEF StringsInv, TextOK, ReadOK, ConvertersAgree, Formats
  <2>2. CASE text.by # "nobody" /\ reader \in Formats \ {"MSocket01.h"}
    <3>1. out = Decode(text.node) /\ reader # "nobody"
      BY <2>2 DEF StringsInv, ReadOK, Formats
    <3>2. CASE text.by \in {"MyYaml.cpp", "TestYaml.h"}
      <4>1. out = text.rec
        BY <2>2, <3>1, <3>2, DecodeLower DEF StringsInv, TextOK, Encode
      <4> QED  BY <3>2, <4>1 DEF ConvertersAgree
    <3>3. CASE text.by \notin {"MyYaml.cpp", "TestYaml.h"}
      <4>1. out = NoRecord
        BY <2>2, <3>1, <3>3, DecodeOther DEF StringsInv, TextOK, Encode, Formats, IsMessage
      <4> QED  BY <2>2, <3>3, <4>1 DEF StringsInv, TextOK, ConvertersAgree, Formats
    <3> QED  BY <3>2, <3>3
  <2>3. CASE text.by # "nobody" /\ reader = "MSocket01.h"
    <3>1. out = DeserializeFromYaml(text.node)
      BY <2>3 DEF StringsInv, ReadOK
    <3>2. text.by = "MSocket01.h" => out = text.rec
      BY <3>1, DeserializeUpper DEF StringsInv, TextOK
    <3> QED  BY <2>3, <3>2 DEF ConvertersAgree
  <2> QED  BY <2>1, <2>2, <2>3 DEF StringsInv, ReadOK
<1> QED  BY <1>1, <1>2, StringsStep, PTL DEF BookSpec

\* Every entry that is written is in the keys decode does not ask for, and
\* nothing was read but empty books.
FileInv == /\ \A e \in file \union entries : Decode(e.node) = NoRecord
           /\ books \subseteq {{}}

\* That BookComesBack fails is no matter of one book: ReadYaml never gives back
\* an entry of a book that WriteYaml wrote, for any books and records.
THEOREM NoEntryComesBack == BookSpec => [](books \subseteq {{}})
<1>1. BookInit => FileInv
  BY DEF BookInit, FileInv
<1>2. FileInv /\ [BookNext]_(bookVars) => FileInv'
  <2> SUFFICES ASSUME FileInv, [BookNext]_(bookVars) PROVE FileInv'
    OBVIOUS
  <2> USE DEF FileInv
  <2>1. ASSUME NEW keys, NEW v, OpenYaml(keys, v) PROVE FileInv'
    <3> DEFINE node == Encode("IpAddressOne.h", Record("IpAddressOne.h", v))
    <3>1. Decode(node) = NoRecord
      BY DecodeOther DEF Encode
    <3>2. /\ file' = {} /\ UNCHANGED books
          /\ entries' = {[key |-> k, node |-> node, kind |-> RootOf(keys)] : k \in keys}
      BY <2>1 DEF OpenYaml
    <3> HIDE DEF node
    <3> QED  BY <3>1, <3>2
  <2>2. CASE FlushYaml
    BY <2>2 DEF FlushYaml
  <2>3. CASE CloseYaml
    BY <2>3 DEF CloseYaml
  <2>4. CASE ReadYaml
    <3>1. file = {} => {e.key : e \in file} = {}
      OBVIOUS
    <3>2. books' \subseteq {{}} /\ UNCHANGED <<file, entries>>
      BY <2>4, <3>1 DEF ReadYaml
    <3> QED  BY <3>2
  <2>5. ASSUME UNCHANGED <<file, entries, books>> PROVE FileInv'
    BY <2>5
  <2>6. CASE UNCHANGED bookVars
    BY <2>5, <2>6 DEF bookVars, files
  <2>7. ASSUME NEW f, NEW v, Serialize(f, v) \/ SerializeMyMessage(v) \/ Deserialize(f)
        PROVE  FileInv'
    BY <2>5, <2>7 DEF Serialize, SerializeMyMessage, Deserialize, Emit,
                      files
  <2> QED  BY <2>1, <2>2, <2>3, <2>4, <2>6, <2>7 DEF BookNext
<1>3. FileInv => books \subseteq {{}}
  BY DEF FileInv
<1> QED  BY <1>1, <1>2, <1>3, PTL DEF BookSpec

-----------------------------------------------------------------------------
(* OneShot: the framed answer.                                               *)

Cell == {"length", "data", "text"}

\* What the server has sent to p in all: read or still under way.
Sent(p) == got[p] \o down[p]

\* A direction holds what one server sent on it: a line of Boost_server or
\* nothing, also after that one has ended; or nothing, the length, or the frame
\* of the framed one.  Who listens decides which, and a connection is served
\* only while the text says so.
SentOK(p) ==
  /\ ~replied[p] => Sent(p) = <<>>
  /\ listener # "framed" => Sent(p) \in {<<>>, Line}
  /\ listener = "framed" =>
       /\ Sent(p) \in {<<>>, <<"length">>, Frame}
       /\ replied[p] /\ link[p] = "backlog" => Sent(p) = <<"length">>
       /\ link[p] # "open"
  /\ pc[p] = "dial" => link[p] = "none" /\ ~replied[p]

ReplyOK(p) ==
  /\ result[p] = "reply" => pc[p] = "end"
  /\ p \in Framed /\ result[p] = "reply" => Complete(got[p])

FrameTypes ==
  /\ got \in [Programs -> Seq(Cell)] /\ down \in [Programs -> Seq(Cell)]
  /\ link \in [Programs -> {"none", "backlog", "open", "gone", "closed", "reset"}]
  /\ replied \in [Programs -> BOOLEAN]
  /\ pc \in [Programs -> {"dial", "write", "read", "end"}]
  /\ result \in [Programs -> {"none", "reply", "error", "undefined"}]

FrameInv == FrameTypes /\ \A p \in Programs : SentOK(p) /\ ReplyOK(p)

\* A step of one connection leaves the others alone.
LEMMA OneConnection ==
  ASSUME FrameInv, FrameTypes', listener' = listener, NEW q \in Programs,
         SentOK(q)', ReplyOK(q)',
         \A p \in Programs \ {q} :
            /\ got'[p] = got[p] /\ down'[p] = down[p] /\ link'[p] = link[p]
            /\ replied'[p] = replied[p] /\ pc'[p] = pc[p] /\ result'[p] = result[p]
  PROVE  FrameInv'
<1> SUFFICES ASSUME NEW p \in Programs \ {q} PROVE (SentOK(p) /\ ReplyOK(p))'
  BY DEF FrameInv
<1>1. Sent(p)' = Sent(p)
  BY DEF Sent
<1> QED  BY <1>1 DEF FrameInv, SentOK, ReplyOK

\* The three things a direction may hold, told apart.
LEMMA Contents ==
  /\ Line \in Seq(Cell) /\ Frame \in Seq(Cell) /\ <<"length">> \in Seq(Cell)
  /\ Body \in Seq(Cell) /\ <<>> \in Seq(Cell)
  /\ Len(Line) = 2 /\ Line[1] = "text"
  /\ Len(Frame) = 3 /\ Frame = <<"length">> \o Body
<1>1. \A a, b \in Cell : <<a, b>> \in Seq(Cell) /\ <<a>> \in Seq(Cell)
  OBVIOUS
<1>2. Line \in Seq(Cell) /\ Body \in Seq(Cell) /\ <<"length">> \in Seq(Cell)
  BY <1>1 DEF Cell, Line, Body
<1>3. Len(Line) = 2 /\ Line[1] = "text" /\ Len(Body) = 2 /\ Len(<<"length">>) = 1
  BY DEF Line, Body
<1>4. Frame = <<"length">> \o Body
  BY DEF Frame
<1>5. Frame \in Seq(Cell) /\ Len(Frame) = 3
  BY <1>2, <1>3, <1>4, ConcatProperties
<1> QED  BY <1>2, <1>3, <1>4, <1>5, EmptySeq

\* A receive takes from the front of what is under way and loses nothing.
LEMMA TakeKeeps ==
  ASSUME FrameTypes, NEW p \in Programs, NEW k \in 1 .. Len(down[p]), Take(p, k)
  PROVE  /\ got' \in [Programs -> Seq(Cell)] /\ down' \in [Programs -> Seq(Cell)]
         /\ Sent(p)' = Sent(p)
         /\ \A q \in Programs \ {p} : got'[q] = got[q] /\ down'[q] = down[q]
<1> DEFINE g == got[p]  d == down[p]
           a == SubSeq(d, 1, k)  b == SubSeq(d, k + 1, Len(d))
<1>1. g \in Seq(Cell) /\ d \in Seq(Cell) /\ Len(d) \in Nat
  BY LenProperties DEF FrameTypes
<1>2. got' = [got EXCEPT ![p] = g \o a] /\ down' = [down EXCEPT ![p] = b]
  BY DEF Take, Set
<1>3. \A j \in 1 .. Len(d) : d[j] \in Cell
  BY <1>1, ElementOfSeq
<1>4. a \in Seq(Cell) /\ b \in Seq(Cell)
  <2>1. \A j \in 1 .. k : d[j] \in Cell
    BY <1>1, <1>3
  <2>2. \A j \in k + 1 .. Len(d) : d[j] \in Cell
    BY <1>1, <1>3
  <2> QED  BY <1>1, <2>1, <2>2, SubSeqProperties
<1>5. a \o b = d
  <2>1. 1 \in 1 .. Len(d) + 1 /\ k \in 1 - 1 .. Len(d) /\ Len(d) \in k .. Len(d)
    BY <1>1
  <2>2. a \o b = SubSeq(d, 1, Len(d))
    BY <1>1, <2>1, ConcatAdjacentSubSeq
  <2> QED  BY <1>1, <2>2, SubSeqFull
<1> HIDE DEF a, b
<1>6. (g \o a) \o b = g \o d
  <2>1. \A s \in Seq(Cell) : (s \o a) \o b = s \o (a \o b)
    BY <1>4, ConcatAssociative
  <2> QED  BY <1>1, <1>5, <2>1
<1>7. g \o a \in Seq(Cell)
  BY <1>1, <1>4, ConcatProperties
<1>8. got'[p] = g \o a /\ down'[p] = b
  BY <1>2 DEF FrameTypes
<1> QED  BY <1>2, <1>4, <1>6, <1>7, <1>8 DEF FrameTypes, Sent

\* A complete answer is all that was sent, and is the frame.
LEMMA CompleteIsFrame ==
  ASSUME FrameInv, NEW p \in Programs, Complete(got[p])
  PROVE  listener = "framed" /\ got[p] = Frame
<1> DEFINE g == got[p]  d == down[p]
<1>1. /\ g \in Seq(Cell) /\ d \in Seq(Cell) /\ Len(g) \in Nat /\ Len(d) \in Nat
      /\ Sent(p) = g \o d /\ SentOK(p)
  BY LenProperties DEF FrameInv, FrameTypes, Sent
<1>2. Len(g) = 3 /\ g[1] = "length"
  BY Contents DEF Complete
<1>3. Len(Sent(p)) = 3 + Len(d) /\ Sent(p)[1] = "length"
  <2>1. /\ Len(g \o d) = Len(g) + Len(d)
        /\ \A i \in 1 .. Len(g) + Len(d) :
             (g \o d)[i] = IF i <= Len(g) THEN g[i] ELSE d[i - Len(g)]
    BY <1>1, ConcatProperties
  <2>2. 1 \in 1 .. Len(g) + Len(d) /\ 1 <= Len(g)
    BY <1>1, <1>2
  <2>3. (g \o d)[1] = g[1]
    BY <2>1, <2>2
  <2> QED  BY <1>1, <1>2, <2>1, <2>3
<1>4. Len(<<>>) = 0 /\ Len(<<"length">>) = 1
  OBVIOUS
<1>5. Sent(p) # <<>> /\ Sent(p) # <<"length">> /\ Sent(p) # Line
  <2>1. Len(Sent(p)) # 0 /\ Len(Sent(p)) # 1 /\ Len(Sent(p)) # 2
    BY <1>1, <1>3
  <2> QED  BY <1>4, <2>1, Contents, Zenon
<1>6. listener = "framed" /\ Sent(p) = Frame
  BY <1>1, <1>5 DEF SentOK
<1>7. d = <<>>
  BY <1>1, <1>3, <1>6, Contents, EmptySeq
<1> QED  BY <1>1, <1>6, <1>7, ConcatEmptySeq

\* Steps that send and take nothing.
LEMMA NothingSent ==
  ASSUME FrameInv, NEW q \in Programs, NEW l, NEW at, NEW r,
         UNCHANGED <<listener, got, down, replied>>,
         link' = [link EXCEPT ![q] = l], pc' = [pc EXCEPT ![q] = at],
         result' = [result EXCEPT ![q] = r],
         l \in {"none", "backlog", "open", "gone", "closed", "reset"},
         at \in {"write", "read", "end"} \/ (at = pc[q] /\ l = link[q]),
         r \in {"none", "reply", "error", "undefined"},
         l = "backlog" => link[q] = "backlog" \/ ~replied[q],
         l = "open" => listener # "framed",
         r = "reply" => at = "end" /\ (q \in Framed => result[q] = "reply")
  PROVE  FrameInv'
<1>1. /\ link'[q] = l /\ pc'[q] = at /\ result'[q] = r
      /\ \A p \in Programs \ {q} : /\ link'[p] = link[p] /\ pc'[p] = pc[p]
                                   /\ result'[p] = result[p]
  BY DEF FrameInv, FrameTypes
<1>2. FrameTypes'
  BY DEF FrameInv, FrameTypes
<1>3. Sent(q)' = Sent(q)
  BY DEF Sent
<1>4. SentOK(q)'
  BY <1>1, <1>3 DEF FrameInv, SentOK
<1>5. ReplyOK(q)'
  BY <1>1 DEF FrameInv, ReplyOK
<1> QED  BY <1>1, <1>2, <1>4, <1>5, OneConnection

LEMMA QuietClientStep ==
  ASSUME FrameInv, NEW q \in Programs,
         \/ Connect(q) \/ ConnectFails(q) \/ Write(q) \/ WriteFails(q)
         \/ ReadEnd(q) \/ ReadFails(q) \/ Kill(q)
  PROVE  FrameInv'
<1> USE DEF Set, End
<1>1. /\ SentOK(q) /\ ReplyOK(q)
      /\ link[q] \in {"none", "backlog", "open", "gone", "closed", "reset"}
      /\ result[q] \in {"none", "reply", "error", "undefined"}
      /\ link = [link EXCEPT ![q] = link[q]] /\ result = [result EXCEPT ![q] = result[q]]
      /\ pc = [pc EXCEPT ![q] = pc[q]]
      /\ "Send01" \notin Framed
  BY DEF FrameInv, FrameTypes, Framed
<1>2. CASE Connect(q)
  BY <1>1, <1>2, NothingSent DEF Connect, SentOK, ReplyOK
<1>3. CASE ConnectFails(q)
  <2>1. /\ pc[q] = "dial" /\ result[q] # "reply"
        /\ UNCHANGED <<listener, got, down, replied, link>>
    BY <1>1, <1>3 DEF ConnectFails, ReplyOK
  <2>2. PICK at \in {"write", "end"}, w \in {result[q], "error"} :
           pc' = [pc EXCEPT ![q] = at] /\ result' = [result EXCEPT ![q] = w]
    BY <1>1, <1>3 DEF ConnectFails
  <2>3. link[q] = "open" => listener # "framed"
    BY <1>1 DEF SentOK
  <2> QED  BY <1>1, <2>1, <2>2, <2>3, NothingSent
<1>4. CASE Write(q)
  <2>1. PICK at \in {"read", "write"} : pc' = [pc EXCEPT ![q] = at]
    BY <1>4 DEF Write
  <2>2. PICK l \in {link[q], "reset"} : link' = [link EXCEPT ![q] = l]
    BY <1>1, <1>4 DEF Write
  <2>3. pc[q] = "write" /\ UNCHANGED <<listener, got, down, replied, result>>
    BY <1>4 DEF Write
  <2>4. link[q] = "open" => listener # "framed"
    BY <1>1 DEF SentOK
  <2>5. result[q] # "reply"
    BY <1>1, <2>3 DEF ReplyOK
  <2> QED  BY <1>1, <2>1, <2>2, <2>3, <2>4, <2>5, NothingSent
<1>5. CASE WriteFails(q)
  <2>1. /\ pc[q] = "write" /\ result[q] # "reply"
        /\ UNCHANGED <<listener, got, down, replied, link>>
    BY <1>1, <1>5 DEF WriteFails, ReplyOK
  <2>2. PICK at \in {"read", "end"}, w \in {result[q], "error"} :
           pc' = [pc EXCEPT ![q] = at] /\ result' = [result EXCEPT ![q] = w]
    BY <1>1, <1>5 DEF WriteFails
  <2>3. link[q] = "open" => listener # "framed"
    BY <1>1 DEF SentOK
  <2> QED  BY <1>1, <2>1, <2>2, <2>3, NothingSent
<1>6. CASE ReadEnd(q)
  <2>1. /\ link[q] = "closed" /\ pc' = [pc EXCEPT ![q] = "end"]
        /\ UNCHANGED <<listener, got, down, replied, link>>
    BY <1>6 DEF ReadEnd
  <2>2. PICK w \in {"reply", "error"} : /\ result' = [result EXCEPT ![q] = w]
                                        /\ w = "reply" => q = "Send01"
    BY <1>6 DEF ReadEnd
  <2> QED  BY <1>1, <2>1, <2>2, NothingSent
<1>7. CASE ReadFails(q)
  BY <1>1, <1>7, NothingSent DEF ReadFails, SentOK, ReplyOK
<1>8. CASE Kill(q)
  BY <1>1, <1>8, NothingSent DEF Kill, SentOK, ReplyOK
<1> QED  BY <1>2, <1>3, <1>4, <1>5, <1>6, <1>7, <1>8

LEMMA QuietServerStep ==
  ASSUME FrameInv, NEW q \in Programs,
         Accept(q) \/ AnswerFails(q) \/ NextClient(q)
  PROVE  FrameInv'
<1> USE DEF Set
<1>1. /\ SentOK(q) /\ ReplyOK(q)
      /\ pc[q] \in {"dial", "write", "read", "end"}
      /\ result[q] \in {"none", "reply", "error", "undefined"}
      /\ result = [result EXCEPT ![q] = result[q]] /\ pc = [pc EXCEPT ![q] = pc[q]]
  BY DEF FrameInv, FrameTypes
<1>2. PICK l \in {"gone", "open", "closed", "reset"} :
         /\ link' = [link EXCEPT ![q] = l] /\ (l = "open" => listener # "framed")
         /\ link[q] # "none" /\ UNCHANGED <<listener, got, down, replied, pc, result>>
  <2>1. CASE Accept(q)
    BY <2>1 DEF Accept
  <2>2. CASE AnswerFails(q)
    BY <2>2 DEF AnswerFails
  <2>3. CASE NextClient(q)
    BY <2>3 DEF NextClient
  <2> QED  BY <2>1, <2>2, <2>3
<1>3. pc[q] \in {"write", "read", "end"}
  BY <1>1, <1>2 DEF SentOK
<1> QED  BY <1>1, <1>2, <1>3, NothingSent DEF ReplyOK

\* The server that ends resets who waits for it.
LEMMA ServerGoneStep ==
  ASSUME FrameInv, NEW q \in Programs, AcceptThrows(q) PROVE FrameInv'
<1>1. /\ listener = "Boost_server" /\ listener' = "nobody"
      /\ link' = [p \in Programs |-> IF link[p] = "backlog" THEN "reset" ELSE link[p]]
      /\ UNCHANGED <<got, down, replied, pc, result>>
  BY DEF AcceptThrows
<1>2. FrameTypes'
  BY <1>1 DEF FrameInv, FrameTypes
<1>3. ASSUME NEW p \in Programs PROVE SentOK(p)' /\ ReplyOK(p)'
  BY <1>1 DEF FrameInv, SentOK, ReplyOK, Sent
<1> QED  BY <1>2, <1>3 DEF FrameInv

\* A framed client prints only what is complete, and waits otherwise.
LEMMA ReadStep ==
  ASSUME FrameInv, NEW q \in Programs, ReadFrame(q) \/ ReadOnce(q) PROVE FrameInv'
<1>1. PICK k \in 1 .. Len(down[q]) : Take(q, k)
  BY DEF ReadFrame, ReadOnce
<1>2. /\ got' \in [Programs -> Seq(Cell)] /\ down' \in [Programs -> Seq(Cell)]
      /\ Sent(q)' = Sent(q)
      /\ \A p \in Programs \ {q} : got'[p] = got[p] /\ down'[p] = down[p]
  BY <1>1, TakeKeeps DEF FrameInv
<1>3. PICK r \in {"none", "reply", "error", "undefined"}, at \in {"read", "end"} :
         /\ result' = [result EXCEPT ![q] = r] /\ pc' = [pc EXCEPT ![q] = at]
         /\ r = "reply" => at = "end" /\ (q \in Framed => Complete(got'[q]))
  <2>1. pc[q] = "read" /\ result[q] \in {"none", "error", "undefined"}
    BY DEF FrameInv, FrameTypes, ReplyOK, ReadFrame, ReadOnce
  <2>2. CASE ReadFrame(q) /\ ~UNCHANGED <<pc, result>>
    <3>1. PICK r \in {"reply", "error"} :
             /\ pc' = [pc EXCEPT ![q] = "end"] /\ result' = [result EXCEPT ![q] = r]
             /\ r = "reply" => Complete(got'[q])
      BY <2>2 DEF ReadFrame, End, Set
    <3> QED  BY <3>1
  <2>3. CASE ReadFrame(q) /\ UNCHANGED <<pc, result>>
    <3>2. pc = [pc EXCEPT ![q] = "read"] /\ result = [result EXCEPT ![q] = result[q]]
      BY <2>1 DEF FrameInv, FrameTypes
    <3> QED  BY <2>1, <2>3, <3>2
  <2>4. CASE ReadOnce(q)
    BY <2>4 DEF ReadOnce, End, Set
  <2> QED  BY <2>2, <2>3, <2>4
<1>4. UNCHANGED <<listener, link, replied>> /\ pc[q] = "read"
  BY DEF ReadFrame, ReadOnce
<1>5. /\ result'[q] \in {r} /\ pc'[q] = at
      /\ \A p \in Programs \ {q} : result'[p] = result[p] /\ pc'[p] = pc[p]
  BY <1>3 DEF FrameInv, FrameTypes
<1>6. FrameTypes'
  BY <1>2, <1>3, <1>4 DEF FrameInv, FrameTypes
<1>7. SentOK(q)' /\ ReplyOK(q)'
  BY <1>2, <1>3, <1>4, <1>5 DEF FrameInv, SentOK, ReplyOK
<1> QED  BY <1>2, <1>4, <1>5, <1>6, <1>7, OneConnection

\* What a server sends is put behind what it has sent.
LEMMA AnswerStep ==
  ASSUME FrameInv, NEW q \in Programs, Answer(q) PROVE FrameInv'
<1>1. /\ ~replied[q] /\ link[q] = "open"
      /\ down' = [down EXCEPT ![q] = Line] /\ replied' = [replied EXCEPT ![q] = TRUE]
      /\ UNCHANGED <<listener, got, link, pc, result>>
  BY DEF Answer, Set
<1>2. got[q] \in Seq(Cell) /\ down[q] \in Seq(Cell) /\ SentOK(q) /\ ReplyOK(q)
  BY DEF FrameInv, FrameTypes
<1>3. got[q] = <<>>
  BY <1>1, <1>2, ConcatEqualIffEmpty DEF SentOK, Sent
<1>4. Sent(q)' = Line
  <2>1. down'[q] = Line
    BY <1>1 DEF FrameInv, FrameTypes
  <2>2. <<>> \o Line = Line
    BY Contents, ConcatEmptySeq
  <2> QED  BY <1>1, <1>3, <2>1, <2>2 DEF Sent
<1>5. FrameTypes'
  BY <1>1, Contents DEF FrameInv, FrameTypes
<1>6. replied'[q] = TRUE /\ \A p \in Programs \ {q} : down'[p] = down[p] /\ replied'[p] = replied[p]
  BY <1>1 DEF FrameInv, FrameTypes
<1>7. SentOK(q)' /\ ReplyOK(q)'
  BY <1>1, <1>2, <1>4, <1>6 DEF SentOK, ReplyOK
<1> QED  BY <1>1, <1>5, <1>6, <1>7, OneConnection

LEMMA FramedServerStep ==
  ASSUME FrameInv, NEW q \in Programs, FramedServer(q) PROVE FrameInv'
<1> USE DEF Set
<1>1. /\ listener = "framed" /\ link[q] = "backlog" /\ pc[q] = "read"
      /\ UNCHANGED <<listener, got, pc, result>>
  BY DEF FramedServer
<1>2. /\ got[q] \in Seq(Cell) /\ down[q] \in Seq(Cell) /\ SentOK(q) /\ ReplyOK(q)
      /\ replied[q] \in BOOLEAN
  BY DEF FrameInv, FrameTypes
<1>3. CASE ~replied[q] /\ down' = [down EXCEPT ![q] = <<"length">>]
           /\ replied' = [replied EXCEPT ![q] = TRUE] /\ UNCHANGED link
  <2>1. got[q] = <<>>
    BY <1>2, <1>3, ConcatEqualIffEmpty DEF SentOK, Sent
  <2>2. down'[q] = <<"length">> /\ replied'[q] = TRUE
    BY <1>3 DEF FrameInv, FrameTypes
  <2>3. Sent(q)' = <<"length">>
    <3>1. <<>> \o <<"length">> = <<"length">>
      BY Contents, ConcatEmptySeq
    <3> QED  BY <1>1, <2>1, <2>2, <3>1 DEF Sent
  <2>4. FrameTypes'
    BY <1>1, <1>3, Contents DEF FrameInv, FrameTypes
  <2>5. \A p \in Programs \ {q} : down'[p] = down[p] /\ replied'[p] = replied[p]
    BY <1>3 DEF FrameInv, FrameTypes
  <2>6. SentOK(q)' /\ ReplyOK(q)'
    BY <1>1, <1>2, <1>3, <2>2, <2>3 DEF SentOK, ReplyOK
  <2> QED  BY <1>1, <1>3, <2>4, <2>5, <2>6, OneConnection
<1>4. CASE replied[q] /\ down' = [down EXCEPT ![q] = down[q] \o Body]
           /\ link' = [link EXCEPT ![q] = "closed"] /\ UNCHANGED replied
  <2>1. down'[q] = down[q] \o Body /\ link'[q] = "closed"
    BY <1>4 DEF FrameInv, FrameTypes
  <2>2. Sent(q)' = Frame
    <3>1. Sent(q) = <<"length">>
      BY <1>1, <1>2, <1>4 DEF SentOK
    <3>2. Body \in Seq(Cell)
      BY Contents
    <3>3. \A x, y \in Seq(Cell) : (x \o y) \o Body = x \o (y \o Body)
      BY <3>2, ConcatAssociative
    <3>4. Sent(q)' = Sent(q) \o Body
      BY <1>1, <1>2, <2>1, <3>3 DEF Sent
    <3> QED  BY <3>1, <3>4, Contents
  <2>3. FrameTypes'
    <3>1. down[q] \o Body \in Seq(Cell)
      BY <1>2, Contents, ConcatProperties
    <3> QED  BY <1>1, <1>4, <3>1 DEF FrameInv, FrameTypes
  <2>4. \A p \in Programs \ {q} : down'[p] = down[p] /\ link'[p] = link[p]
    BY <1>4 DEF FrameInv, FrameTypes
  <2>5. SentOK(q)' /\ ReplyOK(q)'
    BY <1>1, <1>2, <1>4, <2>1, <2>2 DEF SentOK, ReplyOK
  <2> QED  BY <1>1, <1>4, <2>3, <2>4, <2>5, OneConnection
<1>5. CASE link' = [link EXCEPT ![q] = "closed"] /\ UNCHANGED <<down, replied>>
  <2>1. /\ result = [result EXCEPT ![q] = result[q]] /\ pc = [pc EXCEPT ![q] = pc[q]]
        /\ result[q] \in {"none", "reply", "error", "undefined"}
    BY DEF FrameInv, FrameTypes
  <2> QED  BY <1>1, <1>2, <1>5, <2>1, NothingSent DEF ReplyOK
<1> QED  BY <1>3, <1>4, <1>5 DEF FramedServer

LEMMA FrameInit == ShotInit => FrameInv
<1> SUFFICES ASSUME ShotInit PROVE FrameInv
  OBVIOUS
<1>1. FrameTypes
  BY Contents DEF ShotInit, FrameTypes
<1>2. ASSUME NEW p \in Programs PROVE SentOK(p) /\ ReplyOK(p)
  <2>1. /\ got[p] = <<>> /\ down[p] = <<>> /\ link[p] = "none" /\ ~replied[p]
        /\ result[p] = "none"
    BY DEF ShotInit
  <2>2. Sent(p) = <<>>
    BY <2>1, Contents, ConcatEmptySeq DEF Sent
  <2> QED  BY <2>1, <2>2 DEF SentOK, ReplyOK
<1> QED  BY <1>1, <1>2 DEF FrameInv

LEMMA FrameStep == FrameInv /\ [ShotNext]_(shotVars) => FrameInv'
<1> SUFFICES ASSUME FrameInv, [ShotNext]_(shotVars) PROVE FrameInv'
  OBVIOUS
<1>1. ASSUME NEW q \in Programs, Client(q) \/ Kill(q) PROVE FrameInv'
  BY <1>1, QuietClientStep, ReadStep DEF Client
<1>2. ASSUME NEW q \in Programs, BoostServer(q) PROVE FrameInv'
  BY <1>2, QuietServerStep, ServerGoneStep, AnswerStep DEF BoostServer
<1>3. ASSUME UNCHANGED shotVars PROVE FrameInv'
  <2>1. UNCHANGED <<listener, got, down, link, replied, pc, result>>
    BY <1>3 DEF shotVars
  <2> QED  BY <2>1 DEF FrameInv, FrameTypes, SentOK, ReplyOK, Sent
<1> QED  BY <1>1, <1>2, <1>3, FramedServerStep DEF ShotNext

\* What a framed client prints as the answer is one whole frame of the framed
\* server, however it was split and whoever listened: for any of the programs
\* at once.
THEOREM FramedReplyIsAlwaysWhole == ShotSpec => []FramedReplyIsWhole
<1>1. FrameInv => FramedReplyIsWhole
  <2> SUFFICES ASSUME FrameInv, NEW p \in Framed, result[p] = "reply"
               PROVE  listener = "framed" /\ got[p] = Frame
    BY DEF FramedReplyIsWhole
  <2>1. p \in Programs
    BY DEF Framed
  <2>2. Complete(got[p])
    BY <2>1 DEF FrameInv, ReplyOK
  <2> QED  BY <2>1, <2>2, CompleteIsFrame
<1> QED  BY <1>1, FrameInit, FrameStep, PTL DEF ShotSpec

-----------------------------------------------------------------------------
(* OneShot: nobody waits for ever.                                           *)

\* The steps p has left at most: its writes, and a read for each cell.
Steps(at, writes, cells) ==
  CASE at = "dial"  -> writes + 5
    [] at = "write" -> writes + 4
    [] at = "read"  -> 4 - cells
    [] OTHER        -> 0

StepsLeft(p) == Steps(pc[p], Len(todo[p]), Len(got[p]))

\* Each step of a program brings it nearer to its end, and nothing that another
\* does takes it back.
EachStepCounts ==
  \A p \in Programs : /\ StepsLeft(p)' <= StepsLeft(p)
                      /\ Client(p) \/ Kill(p) => StepsLeft(p)' < StepsLeft(p)

\* p has a step of its own; Boost_server has one for the client it serves.
GoesOn(p) == \/ pc[p] \in {"dial", "write"}
             \/ pc[p] = "read" /\ (down[p] # <<>> \/ link[p] \in {"none", "closed", "reset"})
Served(p) == /\ serving = p
             /\ link[p] = "gone" \/ (link[p] = "open" /\ (replied[p] \/ up[p] # <<>>))

\* A program that reads in vain has a server with a step for it, or stands in
\* the backlog of Boost_server, which is free or serves one that gets on.
NobodyWaitsInVain ==
  \A p \in Programs : pc[p] = "read" /\ ~GoesOn(p) =>
    \/ listener = "framed" /\ link[p] = "backlog"
    \/ Served(p)
    \/ /\ listener = "Boost_server" /\ link[p] = "backlog"
       /\ serving = "nobody" \/ \E q \in Programs : serving = q /\ (Served(q) \/ pc[q] = "write")

\* Whom Boost_server serves, and that a client that waits for it has written.
ServiceOK(p) ==
  /\ link[p] = "open" => serving = p
  /\ serving = p => listener = "Boost_server" /\ link[p] \in {"open", "gone"}
  /\ link[p] = "backlog" => listener \in {"Boost_server", "framed"}
  /\ link[p] = "gone" => pc[p] = "end"
  /\ listener = "Boost_server" /\ link[p] \in {"backlog", "open"} /\ ~replied[p] =>
       pc[p] = "write" \/ (pc[p] = "read" /\ up[p] # <<>>)
  /\ listener = "Boost_server" /\ link[p] = "backlog" => ~replied[p]

WritesOK(p) ==
  /\ pc[p] = "dial" => todo[p] = Writes(p)
  /\ pc[p] = "write" => todo[p] = Writes(p) \/ (p \in Framed /\ todo[p] = Tail(Writes(p)))
  /\ pc[p] \in {"dial", "write"} => got[p] = <<>>

\* What a program may write.
Word == {"handshake", "length", "data"}

\* Whom the server serves and what the clients have still to write: the
\* inductive invariant behind both halves.
ServiceInv ==
  /\ up \in [Programs -> Seq(Word)] /\ todo \in [Programs -> Seq(Seq(Word))]
  /\ serving \in Programs \union {"nobody"} /\ listener \in {"Boost_server", "framed", "nobody"}
  /\ \A p \in Programs : ServiceOK(p) /\ WritesOK(p)

\* Two writes of a framed client, one of another, and none is empty.
LEMMA WritesFacts ==
  ASSUME NEW p \in Programs
  PROVE  /\ Writes(p) \in Seq(Seq(Word)) /\ Len(Writes(p)) = IF p \in Framed THEN 2 ELSE 1
         /\ \A k \in 1 .. Len(Writes(p)) : Writes(p)[k] # <<>>
         /\ p \in Framed => Len(Tail(Writes(p))) = 1 /\ Tail(Writes(p))[1] # <<>>
<1> DEFINE h == <<"handshake">>
           f == <<"length", "data">>
           d == <<"data">>
<1>1. {h, f, d} \subseteq Seq(Word) \ {<<>>}
  BY DEF Word
<1> HIDE DEF h, f, d
<1>2. /\ <<h, f>> \in Seq(Seq(Word)) /\ Len(<<h, f>>) = 2 /\ <<h, f>>[1] # <<>> /\ <<h, f>>[2] # <<>>
      /\ Tail(<<h, f>>) = <<f>> /\ Len(<<f>>) = 1 /\ <<f>>[1] # <<>>
  BY <1>1
<1>3. <<d>> \in Seq(Seq(Word)) /\ Len(<<d>>) = 1 /\ <<d>>[1] # <<>>
  BY <1>1
<1>4. Writes(p) = IF p \in Framed THEN <<h, f>> ELSE <<d>>
  BY DEF Writes, h, f, d
<1> QED  BY <1>2, <1>3, <1>4

LEMMA LeftToWrite ==
  ASSUME ServiceInv, NEW p \in Programs, pc[p] \in {"dial", "write"}
  PROVE  /\ todo[p] \in Seq(Seq(Word)) /\ Len(todo[p]) \in 1 .. 2 /\ todo[p][1] # <<>>
         /\ Len(todo[p]) # 1 => p \in Framed /\ todo[p] = Writes(p)
         /\ got[p] = <<>>
<1>1. WritesOK(p) /\ todo[p] \in Seq(Seq(Word))
  BY DEF ServiceInv
<1>2. CASE todo[p] = Writes(p)
  BY <1>1, <1>2, WritesFacts DEF WritesOK
<1>3. CASE p \in Framed /\ todo[p] = Tail(Writes(p))
  <2>1. Len(todo[p]) = 1 /\ todo[p][1] # <<>>
    BY <1>3, WritesFacts
  <2> QED  BY <1>1, <2>1 DEF WritesOK
<1> QED  BY <1>1, <1>2, <1>3 DEF WritesOK

LEMMA NobodyIsNone == "nobody" \notin Programs
BY ProgramAssumption

\* Connecting, writing and failing.
LEMMA WriteService ==
  ASSUME FrameInv, ServiceInv, NEW q \in Programs, Write(q) PROVE ServiceInv'
<1>1. pc[q] = "write"
  BY DEF Write
<1>2. /\ todo[q] \in Seq(Seq(Word)) /\ Len(todo[q]) \in 1 .. 2 /\ todo[q][1] # <<>>
      /\ Len(todo[q]) # 1 => q \in Framed /\ todo[q] = Writes(q)
      /\ got[q] = <<>>
  BY <1>1, LeftToWrite
<1>3. todo[q] # <<>> /\ todo[q][1] \in Seq(Word)
  BY <1>2
<1>4. /\ todo' = [todo EXCEPT ![q] = Tail(todo[q])]
      /\ pc' = [pc EXCEPT ![q] = IF Len(todo[q]) = 1 THEN "read" ELSE "write"]
      /\ UNCHANGED <<listener, serving, replied, got>>
  BY DEF Write, Set
<1>5. Tail(todo[q]) \in Seq(Seq(Word))
  BY <1>2, <1>3
<1>6. up[q] \o todo[q][1] \in Seq(Word) /\ up[q] \o todo[q][1] # <<>>
  BY <1>2, <1>3, ConcatProperties, ConcatEqualIffEmpty DEF ServiceInv
<1>7. \/ link' = [link EXCEPT ![q] = "reset"] /\ UNCHANGED up /\ link[q] \in {"closed", "reset"}
      \/ up' = [up EXCEPT ![q] = up[q] \o todo[q][1]] /\ UNCHANGED link
         /\ link[q] \notin {"none", "closed", "reset"}
  BY DEF Write, Set
<1>8. WritesOK(q)'
  BY <1>2, <1>4 DEF ServiceInv, WritesOK, FrameInv, FrameTypes
<1>9. ServiceOK(q)'
  BY <1>1, <1>4, <1>6, <1>7 DEF ServiceInv, ServiceOK, FrameInv, FrameTypes
<1>10. ASSUME NEW p \in Programs \ {q} PROVE (ServiceOK(p) /\ WritesOK(p))'
  BY <1>4, <1>7 DEF ServiceInv, ServiceOK, WritesOK, FrameInv, FrameTypes
<1> QED  BY <1>4, <1>5, <1>6, <1>7, <1>8, <1>9, <1>10 DEF ServiceInv

LEMMA ClientService ==
  ASSUME FrameInv, ServiceInv, NEW q \in Programs, Client(q) \/ Kill(q), ~Write(q)
  PROVE  ServiceInv'
<1>1. UNCHANGED <<listener, todo, up, serving, replied>>
  BY DEF Client, Kill, Connect, ConnectFails, WriteFails, ReadFrame, ReadOnce, ReadEnd, ReadFails, Take, Set, End
<1>2. ASSUME NEW p \in Programs PROVE (ServiceOK(p) /\ WritesOK(p))'
  <2>1. CASE Connect(q)
    BY <1>1, <2>1 DEF Connect, ServerOf, Set, ServiceInv, ServiceOK, WritesOK, FrameInv, FrameTypes, SentOK, ShotInit
  <2>2. CASE ConnectFails(q) \/ WriteFails(q) \/ ReadEnd(q) \/ ReadFails(q) \/ Kill(q)
    <3>1. /\ UNCHANGED got
          /\ pc'[q] = "write" => pc[q] = "dial"
          /\ pc'[q] \in {"write", "read", "end"}
          /\ \A r \in Programs \ {q} : pc'[r] = pc[r] /\ link'[r] = link[r]
      BY <2>2 DEF ConnectFails, WriteFails, ReadEnd, ReadFails, Kill, End, Set, FrameInv, FrameTypes
    <3>2. \/ link'[q] \in {"none", "closed", "reset"}
          \/ link'[q] = "gone" /\ pc'[q] = "end" /\ link[q] \in {"backlog", "open"}
      BY <2>2 DEF ConnectFails, WriteFails, ReadEnd, ReadFails, Kill, End, Set, FrameInv, FrameTypes, SentOK
    <3>3. link'[q] \in {"none", "closed", "reset"} => link'[q] = link[q]
      BY <2>2, <3>2 DEF ConnectFails, WriteFails, ReadEnd, ReadFails, Kill, End, Set, FrameInv, FrameTypes
    <3>4. CASE p = q
      BY <1>1, <3>1, <3>2, <3>3, <3>4 DEF ServiceInv, ServiceOK, WritesOK
    <3>5. CASE p # q
      BY <1>1, <3>1, <3>5 DEF ServiceInv, ServiceOK, WritesOK
    <3> QED  BY <3>4, <3>5
  <2>3. CASE ReadFrame(q) \/ ReadOnce(q)
    <3>1. /\ UNCHANGED link /\ pc[q] = "read" /\ pc'[q] \in {"read", "end"}
          /\ \A r \in Programs \ {q} : pc'[r] = pc[r] /\ got'[r] = got[r]
      BY <2>3 DEF ReadFrame, ReadOnce, Take, End, Set, FrameInv, FrameTypes
    <3>2. CASE p = q
      <4>1. replied[q]
        <5>1. down[q] \in Seq(Cell) /\ got[q] \in Seq(Cell) /\ down[q] # <<>>
          BY <2>3 DEF ReadFrame, ReadOnce, FrameInv, FrameTypes
        <5>2. Sent(q) # <<>>
          BY <5>1, ConcatEqualIffEmpty DEF Sent
        <5> QED  BY <5>2 DEF FrameInv, SentOK
      <4> QED  BY <1>1, <3>1, <3>2, <4>1 DEF ServiceInv, ServiceOK, WritesOK
    <3>3. CASE p # q
      BY <1>1, <3>1, <3>3 DEF ServiceInv, ServiceOK, WritesOK
    <3> QED  BY <3>2, <3>3
  <2> QED  BY <2>1, <2>2, <2>3 DEF Client
<1> QED  BY <1>1, <1>2 DEF ServiceInv

LEMMA ServerService ==
  ASSUME FrameInv, ServiceInv, NEW q \in Programs, BoostServer(q) \/ FramedServer(q)
  PROVE  ServiceInv'
<1>1. UNCHANGED <<pc, todo, got>>
  BY DEF BoostServer, FramedServer, Accept, AcceptThrows, Answer, AnswerFails, NextClient
<1>2. /\ up' \in [Programs -> Seq(Word)] /\ serving' \in Programs \union {"nobody"}
      /\ listener' \in {"Boost_server", "framed", "nobody"}
  <2>1. CASE Answer(q)
    <3>1. PICK k \in 1 .. Len(up[q]) : up' = [up EXCEPT ![q] = SubSeq(up[q], k + 1, Len(up[q]))]
      BY <2>1 DEF Answer, Set
    <3>2. SubSeq(up[q], k + 1, Len(up[q])) \in Seq(Word)
      BY SubSeqProperties DEF ServiceInv
    <3> QED  BY <2>1, <3>1, <3>2 DEF Answer, ServiceInv
  <2>2. CASE FramedServer(q)
    BY <2>2 DEF FramedServer, Set, ServiceInv
  <2>3. CASE Accept(q) \/ AcceptThrows(q) \/ AnswerFails(q) \/ NextClient(q)
    BY <2>3 DEF Accept, AcceptThrows, AnswerFails, NextClient, ServiceInv
  <2> QED  BY <2>1, <2>2, <2>3 DEF BoostServer
<1>3. ASSUME NEW p \in Programs PROVE ServiceOK(p)'
  <2>1. CASE Accept(q)
    BY <1>1, <2>1, NobodyIsNone DEF Accept, Set, ServiceInv, ServiceOK, FrameInv, FrameTypes
  <2>2. CASE AcceptThrows(q)
    BY <1>1, <2>2, NobodyIsNone DEF AcceptThrows, ServiceInv, ServiceOK, FrameInv, FrameTypes
  <2>3. CASE AnswerFails(q) \/ NextClient(q)
    BY <1>1, <2>3, NobodyIsNone DEF AnswerFails, NextClient, Set, ServiceInv, ServiceOK, FrameInv, FrameTypes
  <2>4. CASE Answer(q)
    BY <1>1, <2>4 DEF Answer, Set, ServiceInv, ServiceOK, FrameInv, FrameTypes
  <2>5. CASE FramedServer(q)
    BY <1>1, <2>5 DEF FramedServer, Set, ServiceInv, ServiceOK, FrameInv, FrameTypes
  <2> QED  BY <2>1, <2>2, <2>3, <2>4, <2>5 DEF BoostServer
<1> QED  BY <1>1, <1>2, <1>3 DEF ServiceInv, WritesOK

LEMMA ServiceInit == ShotInit => ServiceInv
<1> SUFFICES ASSUME ShotInit PROVE ServiceInv
  OBVIOUS
<1>1. /\ up \in [Programs -> Seq(Word)] /\ todo \in [Programs -> Seq(Seq(Word))]
      /\ serving = "nobody"
  BY WritesFacts DEF ShotInit
<1> QED  BY <1>1, NobodyIsNone DEF ShotInit, ServiceInv, ServiceOK, WritesOK

LEMMA ServiceStep == FrameInv /\ ServiceInv /\ [ShotNext]_shotVars => ServiceInv'
<1> SUFFICES ASSUME FrameInv, ServiceInv, [ShotNext]_shotVars PROVE ServiceInv'
  OBVIOUS
<1>1. CASE UNCHANGED shotVars
  BY <1>1 DEF shotVars, ServiceInv, ServiceOK, WritesOK
<1> QED  BY <1>1, WriteService, ClientService, ServerService DEF ShotNext

\* Whoever listens, however many programs wait for one another behind a server
\* that serves one at a time: a safety half of EveryProgramEnds.
THEOREM NobodyWaits == ShotSpec => []NobodyWaitsInVain
<1>1. ServiceInv /\ FrameInv => NobodyWaitsInVain
  <2> SUFFICES ASSUME ServiceInv, FrameInv, NEW p \in Programs, pc[p] = "read", ~GoesOn(p)
               PROVE  \/ listener = "framed" /\ link[p] = "backlog"
                      \/ Served(p)
                      \/ /\ listener = "Boost_server" /\ link[p] = "backlog"
                         /\ \/ serving = "nobody"
                            \/ \E q \in Programs : serving = q /\ (Served(q) \/ pc[q] = "write")
    BY DEF NobodyWaitsInVain
  <2>1. link[p] \in {"backlog", "open"}
    BY DEF GoesOn, ServiceInv, ServiceOK, FrameInv, FrameTypes
  <2>2. ASSUME NEW q \in Programs, serving = q PROVE Served(q) \/ pc[q] = "write"
    <3>1. ServiceOK(q) /\ link[q] \in {"open", "gone"}
      BY <2>2 DEF ServiceInv, ServiceOK
    <3>3. CASE link[q] = "open" /\ ~replied[q]
      BY <2>2, <3>1, <3>3 DEF ServiceOK, Served
    <3>4. CASE link[q] = "gone"
      BY <2>2, <3>4 DEF Served
    <3>5. CASE link[q] = "open" /\ replied[q]
      BY <2>2, <3>5 DEF Served
    <3> QED  BY <3>1, <3>3, <3>4, <3>5
  <2>3. serving \in Programs \union {"nobody"} /\ ServiceOK(p)
    BY DEF ServiceInv
  <2> QED  BY <2>1, <2>2, <2>3 DEF ServiceOK
<1> QED  BY <1>1, FrameInit, FrameStep, ServiceInit, ServiceStep, PTL DEF ShotSpec

\* What a client has got is no longer than a frame.
LEMMA GotIsShort ==
  ASSUME FrameInv, NEW p \in Programs PROVE Len(got[p]) \in 0 .. 3
<1>1. Sent(p) \in Seq(Cell) /\ Len(Sent(p)) \in 0 .. 3
  <2>1. Sent(p) \in {<<>>, Line, <<"length">>, Frame}
    BY DEF FrameInv, SentOK
  <2>2. Len(<<>>) = 0 /\ Len(<<"length">>) = 1
    OBVIOUS
  <2>3. Len(<<>>) \in 0 .. 3 /\ Len(Line) \in 0 .. 3 /\ Len(<<"length">>) \in 0 .. 3 /\ Len(Frame) \in 0 .. 3
    BY <2>2, Contents
  <2> QED  BY <2>1, <2>3, Contents
<1>2. got[p] \in Seq(Cell) /\ down[p] \in Seq(Cell)
  BY DEF FrameInv, FrameTypes
<1>3. Len(Sent(p)) = Len(got[p]) + Len(down[p]) /\ Len(got[p]) \in Nat /\ Len(down[p]) \in Nat
  BY <1>2, ConcatProperties DEF Sent
<1>4. \A a, b \in Nat : a + b \in 0 .. 3 => a \in 0 .. 3
  OBVIOUS
<1> QED  BY <1>1, <1>3, <1>4

LEMMA StepsAt ==
  ASSUME NEW n, NEW c
  PROVE  /\ Steps("dial", n, c) = n + 5 /\ Steps("write", n, c) = n + 4
         /\ Steps("read", n, c) = 4 - c /\ Steps("end", n, c) = 0
BY DEF Steps

LEMMA EmptyIsShort == Len(<<>>) = 0
OBVIOUS

\* Few steps are left, and no program has got more than a frame.
FewSteps == \A p \in Programs : StepsLeft(p) \in 0 .. 7 /\ Len(got[p]) \in 0 .. 3

\* The other safety half: no program takes more than seven steps.
THEOREM ProgramsTakeFewSteps ==
  ShotSpec => /\ [](\A p \in Programs : StepsLeft(p) \in 0 .. 7)
              /\ [][EachStepCounts]_shotVars
<1>1. ServiceInv /\ FrameInv => FewSteps
  <2> SUFFICES ASSUME ServiceInv, FrameInv, NEW p \in Programs
               PROVE  StepsLeft(p) \in 0 .. 7 /\ Len(got[p]) \in 0 .. 3
    BY DEF FewSteps
  <2>1. pc[p] \in {"dial", "write"} => Len(todo[p]) \in 1 .. 2
    BY LeftToWrite
  <2>2. pc[p] \in {"dial", "write", "read", "end"}
    BY DEF FrameInv, FrameTypes
  <2>3. Len(got[p]) \in 0 .. 3
    BY GotIsShort
  <2>4. /\ \A n \in 1 .. 2 : n + 5 \in 0 .. 7 /\ n + 4 \in 0 .. 7
        /\ \A c \in 0 .. 3 : 4 - c \in 0 .. 7
    OBVIOUS
  <2>5. CASE pc[p] \in {"dial", "write"}
    BY <2>1, <2>3, <2>4, <2>5, StepsAt DEF StepsLeft
  <2>6. CASE pc[p] = "read"
    BY <2>3, <2>4, <2>6, StepsAt DEF StepsLeft
  <2>7. CASE pc[p] = "end"
    BY <2>3, <2>7, StepsAt DEF StepsLeft
  <2> QED  BY <2>2, <2>3, <2>5, <2>6, <2>7
<1>2. ServiceInv /\ FrameInv /\ FewSteps /\ FewSteps' /\ [ShotNext]_shotVars => [EachStepCounts]_shotVars
  <2> SUFFICES ASSUME ServiceInv, FrameInv, FewSteps, FewSteps', ShotNext, NEW p \in Programs
               PROVE  /\ StepsLeft(p)' <= StepsLeft(p)
                      /\ Client(p) \/ Kill(p) => StepsLeft(p)' < StepsLeft(p)
    BY DEF EachStepCounts
  <2>0. /\ Len(got[p]) \in 0 .. 3 /\ Len(got[p])' \in 0 .. 3
        /\ pc[p] \in {"dial", "write"} => Len(todo[p]) \in 1 .. 2 /\ got[p] = <<>>
        /\ pc[p] \in {"dial", "write", "read", "end"}
    BY LeftToWrite DEF FrameInv, FrameTypes, FewSteps
  <2>1. ASSUME Client(p) \/ Kill(p) PROVE StepsLeft(p)' < StepsLeft(p)
    <3>1. CASE Connect(p) \/ ConnectFails(p) \/ WriteFails(p) \/ ReadEnd(p) \/ ReadFails(p) \/ Kill(p)
      <4>1. /\ \/ pc[p] = "dial" /\ pc'[p] \in {"write", "end"}
               \/ pc[p] = "write" /\ pc'[p] \in {"read", "end"}
               \/ pc[p] = "read" /\ pc'[p] = "end"
            /\ UNCHANGED <<todo[p], got[p]>>
        BY <2>0, <3>1 DEF Connect, ConnectFails, WriteFails, ReadEnd, ReadFails, Kill, End, Set,
                                  FrameInv, FrameTypes
      <4>2. CASE pc[p] = "dial"
        BY <2>0, <4>1, <4>2, StepsAt DEF StepsLeft
      <4>3. CASE pc[p] = "write"
        <5>1. StepsLeft(p) = Len(todo[p]) + 4 /\ StepsLeft(p)' \in {4, 0}
          <6>1. Len(got'[p]) = 0 /\ 4 - 0 = 4
            BY <2>0, <4>1, <4>3, EmptyIsShort
          <6> QED  BY <4>1, <4>3, <6>1, StepsAt DEF StepsLeft
        <5> QED  BY <2>0, <4>3, <5>1
      <4>4. CASE pc[p] = "read"
        <5>1. StepsLeft(p) = 4 - Len(got[p]) /\ StepsLeft(p)' = 0
          BY <4>1, <4>4, StepsAt DEF StepsLeft
        <5>2. \A c \in 0 .. 3 : 0 < 4 - c
          OBVIOUS
        <5> QED  BY <2>0, <5>1, <5>2
      <4> QED  BY <4>1, <4>2, <4>3, <4>4
    <3>2. CASE Write(p)
      <4>1. /\ todo'[p] = Tail(todo[p]) /\ UNCHANGED got /\ pc[p] = "write"
            /\ pc'[p] = IF Len(todo[p]) = 1 THEN "read" ELSE "write"
        BY <3>2 DEF Write, Set, FrameInv, FrameTypes, ServiceInv
      <4>2. Len(Tail(todo[p])) = Len(todo[p]) - 1
        BY <4>1, LeftToWrite
      <4> QED  BY <2>0, <4>1, <4>2, StepsAt, EmptyIsShort DEF StepsLeft
    <3>3. CASE ReadFrame(p) \/ ReadOnce(p)
      <4>1. PICK k \in 1 .. Len(down[p]) : Take(p, k)
        BY <3>3 DEF ReadFrame, ReadOnce
      <4>2. pc[p] = "read" /\ pc'[p] \in {"read", "end"}
        BY <3>3 DEF ReadFrame, ReadOnce, End, Set, FrameInv, FrameTypes
      <4>3. got[p] \in Seq(Cell) /\ down[p] \in Seq(Cell) /\ got'[p] = got[p] \o SubSeq(down[p], 1, k)
        BY <4>1 DEF Take, Set, FrameInv, FrameTypes
      <4>4. Len(got'[p]) > Len(got[p])
        <5>1. SubSeq(down[p], 1, k) \in Seq(Cell) /\ Len(SubSeq(down[p], 1, k)) = k
          BY <4>1, <4>3, SubSeqProperties
        <5> QED  BY <4>1, <4>3, <5>1, ConcatProperties
      <4>5. StepsLeft(p) = 4 - Len(got[p]) /\ StepsLeft(p)' \in {4 - Len(got'[p]), 0}
        BY <4>2, StepsAt DEF StepsLeft
      <4>6. \A c, d \in 0 .. 3 : 0 < 4 - c /\ (d > c => 4 - d < 4 - c)
        OBVIOUS
      <4>7. Len(got[p]) \in 0 .. 3 /\ Len(got'[p]) \in 0 .. 3
        BY <2>0
      <4> QED  BY <4>4, <4>5, <4>6, <4>7
    <3> QED  BY <2>1, <3>1, <3>2, <3>3 DEF Client
  <2>2. ASSUME NEW q \in Programs \ {p}, Client(q) \/ Kill(q) PROVE UNCHANGED <<pc[p], todo[p], got[p]>>
    BY <2>2 DEF Client, Kill, Connect, ConnectFails, Write, WriteFails, ReadFrame, ReadOnce, ReadEnd,
                ReadFails, Take, End, Set, FrameInv, FrameTypes, ServiceInv
  <2>3. ASSUME NEW q \in Programs, BoostServer(q) \/ FramedServer(q) PROVE UNCHANGED <<pc, todo, got>>
    BY <2>3 DEF BoostServer, FramedServer, Accept, AcceptThrows, Answer, AnswerFails, NextClient
  <2>4. ASSUME UNCHANGED <<pc[p], todo[p], got[p]>> PROVE StepsLeft(p)' = StepsLeft(p)
    BY <2>4 DEF StepsLeft
  <2>5. \A n, m \in Int : /\ n < m => n <= m
                          /\ n = m => n <= m
    OBVIOUS
  <2>6. StepsLeft(p) \in Int /\ StepsLeft(p)' \in Int
    BY DEF FewSteps
  <2>7. CASE Client(p) \/ Kill(p)
    BY <2>1, <2>5, <2>6, <2>7
  <2>8. CASE ~(Client(p) \/ Kill(p))
    <3>1. StepsLeft(p)' = StepsLeft(p)
      BY <2>2, <2>3, <2>4, <2>8 DEF ShotNext
    <3> QED  BY <2>5, <2>6, <2>8, <3>1
  <2> QED  BY <2>7, <2>8
<1>3. FewSteps => \A p \in Programs : StepsLeft(p) \in 0 .. 7
  BY DEF FewSteps
<1> QED  BY <1>1, <1>2, <1>3, FrameInit, FrameStep, ServiceInit, ServiceStep, PTL DEF ShotSpec
=============================================================================
