----------------------------- MODULE AsioNode_proofs -----------------------------
(* The write queue, the lines and the clients of the peer node, for any     *)
(* clients, lines and posts.                                                 *)
EXTENDS AsioNode, SequenceTheorems, WellFoundedInduction, TLAPS

\* One chain leads to the writing thread: start(), the connect, or the timer
\* that repeats it.  Once the thread runs nobody opens socket_ again.
Chain ==
  /\ main \in {"nvml", "wrapper", "construct", "accept", "connect"} =>
       connect = "none" /\ ~timer /\ ~poster
  /\ connect # "none" => ~timer /\ ~poster
  /\ timer => ~poster
  /\ poster => ~open

\* What the thread has posted is in the queue, all of it.
Queue ==
  /\ posted \in Nat /\ writeMsgs = posted /\ writing \in BOOLEAN
  /\ ~poster => posted = 0 /\ ~writing /\ ~failed
  /\ writing \/ failed => posted > 0
  /\ failed => ~writing

IInv == Chain /\ Queue

THEOREM QueueInit == Init => IInv
<1>1. Init => Chain
  BY DEF Init, Chain
<1>2. Init => posted = 0 /\ writeMsgs = 0 /\ ~writing /\ writing \in BOOLEAN /\ ~failed
  BY DEF Init
<1>3. Init => Queue
  BY <1>2 DEF Queue
<1>. QED
  BY <1>1, <1>3 DEF IInv

\* The clients and the first steps of main touch neither the connection that
\* goes out nor the queue.
LEMMA ChainKept ==
  ASSUME IInv, UNCHANGED <<outgoing, writes>>,
         main' = main \/ main' \notin {"nvml", "wrapper", "construct", "accept", "connect"}
                      \/ main \in {"nvml", "wrapper", "construct", "accept", "connect"}
  PROVE  IInv'
  BY DEF IInv, Chain, Queue, outgoing, writes

LEMMA ClientStep == ASSUME IInv, NEW c \in Clients, Client(c) \/ Accept(c) PROVE IInv'
<1>1. CASE Client(c)
  BY <1>1, ChainKept DEF Client, Dial, SendPiece, HangUp, outgoing, reading, writes, network
<1>2. CASE HandleAccept(c)
  BY <1>2, ChainKept DEF HandleAccept, outgoing, writes
<1>3. CASE AcceptThrows(c)
  BY <1>3, ChainKept DEF AcceptThrows, outgoing, writes
<1>. QED
  BY <1>1, <1>2, <1>3 DEF Accept

LEMMA StartStep == ASSUME IInv, Start PROVE IInv'
<1>1. CASE ReadTemperature \/ ConstructWrapper \/ Construct \/ StartAccept \/ StartThrows
  BY <1>1, ChainKept
     DEF ReadTemperature, ConstructWrapper, Construct, StartAccept, StartThrows, Goto
<1>2. CASE StartConnect
  BY <1>2 DEF StartConnect, DoConnect, Goto, IInv, Chain, Queue, writes
<1>. QED
  BY <1>1, <1>2 DEF Start

\* A read moves socket_ away, and may fail a connect that is under way.
LEMMA ReadStep == ASSUME IInv, HandleLine \/ HandleReadError \/ HandleSecondRead PROVE IInv'
<1>1. CASE HandleLine
  BY <1>1 DEF HandleLine, ReadOn, IInv, Chain, Queue, writes
<1>2. CASE HandleReadError
  BY <1>2, ChainKept DEF HandleReadError, Running, outgoing, writes
<1>3. CASE HandleSecondRead
  BY <1>3 DEF HandleSecondRead, Running, ReadOn, IInv, Chain, Queue, writes
<1>. QED
  BY <1>1, <1>2, <1>3

LEMMA ConnectStep ==
  ASSUME IInv, ConnectSettles \/ HandleConnected \/ HandleRefused \/ RetryConnect
  PROVE  IInv'
  BY DEF ConnectSettles, HandleConnected, HandleRefused, RetryConnect, DoConnect, Running,
         IInv, Chain, Queue, writes

LEMMA WriteStep == ASSUME IInv, PostMessage \/ HandleWrite PROVE IInv'
<1>1. CASE PostMessage
  BY <1>1 DEF PostMessage, Running, IInv, Chain, Queue, outgoing
<1>2. CASE HandleWrite
  <2>1. poster /\ ~open
    BY <1>2 DEF HandleWrite, IInv, Chain, Queue
  <2>. QED
    BY <1>2, <2>1 DEF HandleWrite, Running, IInv, Chain, Queue
<1>. QED
  BY <1>1, <1>2

THEOREM QueueStep == IInv /\ [Next]_vars => IInv'
<1> SUFFICES ASSUME IInv, [Next]_vars PROVE IInv'
  OBVIOUS
<1>1. CASE Start
  BY <1>1, StartStep
<1>2. CASE Handler
  BY <1>2, ReadStep, ConnectStep, WriteStep DEF Handler
<1>3. CASE \E c \in Clients : Client(c) \/ Accept(c)
  BY <1>3, ClientStep
<1>4. CASE UNCHANGED vars
  BY <1>4, ChainKept DEF vars
<1>. QED
  BY <1>1, <1>2, <1>3, <1>4 DEF Next

\* After a failed write nothing is under way and everything posted is still in
\* the queue, in socket0 and in every program that starts the node.
THEOREM FailureIsFinal == Spec => []FailedWriteIsFinal
<1>1. IInv => FailedWriteIsFinal
  BY DEF IInv, Queue, FailedWriteIsFinal
<1>. QED
  BY <1>1, QueueInit, QueueStep, PTL DEF Spec
-----------------------------------------------------------------------------
(* The lines.                                                                *)

Piece == [of : Clients \union {"peer"}, n : Nat]
Read  == [ok : BOOLEAN, second : BOOLEAN, got : Seq(Piece)]

\* Consecutive pieces of one connection, from the beginning of a line on.
InOrder(s) ==
  /\ \A k \in DOMAIN s : s[k].of = s[1].of /\ s[k].n = s[1].n + k - 1
  /\ s # <<>> => s[1].n - 1 \in LineEnds \union {0}

\* Before anything was spoiled, read_msg_ with what the oldest read received
\* is in order.  Only while a read is outstanding may it hold a part of a line:
\* a read of a connection starts where nothing is left, and one that is not
\* the oldest spoils the buffer when its turn comes.
Lines ==
  /\ InOrder(readMsg)
  /\ reads = <<>> => readMsg = <<>> \/ HasLine(readMsg)
  /\ reads # <<>> /\ ~First.second => InOrder(Buffer)
  /\ shown # <<>> => IsLine(shown)

\* Only the oldest read was started with no other one outstanding.
OthersSecond(r) == \A k \in DOMAIN r : k # 1 => r[k].second

LinesInv ==
  /\ readMsg \in Seq(Piece) /\ reads \in Seq(Read) /\ sent \in [Clients -> Nat]
  /\ torn \in BOOLEAN /\ open \in BOOLEAN
  /\ OthersSecond(reads)
  /\ ~torn => Lines

\* A buffer that holds a line has a first end of one.
LEMMA FirstEndIsThere ==
  ASSUME NEW s \in Seq(Piece), HasLine(s)
  PROVE  /\ FirstEnd(s) \in 1 .. Len(s)
         /\ IsEnd(s[FirstEnd(s)])
         /\ \A j \in 1 .. FirstEnd(s) - 1 : ~IsEnd(s[j])
<1> DEFINE ends == {k \in DOMAIN s : IsEnd(s[k])}
<1>1. DOMAIN s = 1 .. Len(s) /\ Len(s) \in Nat
  BY LenProperties
<1>2. ends \subseteq Nat /\ ends # {}
  BY <1>1 DEF HasLine
<1>3. PICK k \in ends : \A j \in ends : <<j, k>> \notin OpToRel(<, Nat)
  <2> HIDE DEF ends
  <2> QED  BY <1>2, WFMin, NatLessThanWellFounded
<1>4. \A j \in ends : ~(j < k)
  BY <1>2, <1>3 DEF OpToRel
<1>5. \A j \in 1 .. k - 1 : ~IsEnd(s[j])
  BY <1>1, <1>4
<1> QED  BY <1>1, <1>5 DEF FirstEnd

\* Cut behind the first end: in front is one line, whole, and what is behind
\* begins a line.
LEMMA CutAtFirstEnd ==
  ASSUME NEW s \in Seq(Piece), HasLine(s), InOrder(s), NEW e, e = FirstEnd(s)
  PROVE  /\ IsLine(SubSeq(s, 1, e))
         /\ SubSeq(s, e + 1, Len(s)) \in Seq(Piece)
         /\ InOrder(SubSeq(s, e + 1, Len(s)))
<1>1. /\ DOMAIN s = 1 .. Len(s) /\ Len(s) \in Nat
      /\ \A k \in 1 .. Len(s) : s[k] \in Piece /\ s[k].n \in Nat
  <2>1. \A p \in Piece : p.n \in Nat
    BY DEF Piece
  <2> QED  BY <2>1, LenProperties, ElementOfSeq
<1>2. e \in 1 .. Len(s) /\ IsEnd(s[e]) /\ \A j \in 1 .. e - 1 : ~IsEnd(s[j])
  BY FirstEndIsThere
<1>3. /\ \A k \in 1 .. Len(s) : s[k].of = s[1].of /\ s[k].n = s[1].n + k - 1
      /\ s[1].n - 1 \in LineEnds \union {0}
  BY <1>1, <1>2, EmptySeq DEF InOrder
<1>4. IsLine(SubSeq(s, 1, e))
  <2> DEFINE t == SubSeq(s, 1, e)
  <2>1. t \in Seq(Piece) /\ Len(t) = e /\ \A k \in 1 .. e : t[k] = s[k]
    BY <1>1, <1>2, SubSeqProperties
  <2>2. DOMAIN t = 1 .. e
    BY <2>1, LenProperties
  <2> HIDE DEF t
  <2>3. \A k \in 1 .. e : t[k].of = t[1].of /\ t[k].n = t[1].n + k - 1
    BY <1>2, <1>3, <2>1
  <2>4. \A k \in 1 .. e : IsEnd(t[k]) <=> k = e
    BY <1>2, <2>1
  <2>5. t[1].n - 1 \in LineEnds \union {0}
    BY <1>2, <1>3, <2>1
  <2>6. IsLine(t)
    BY <2>1, <2>2, <2>3, <2>4, <2>5 DEF IsLine
  <2> QED  BY <2>6 DEF t
<1>5. /\ SubSeq(s, e + 1, Len(s)) \in Seq(Piece)
      /\ InOrder(SubSeq(s, e + 1, Len(s)))
  <2> DEFINE t == SubSeq(s, e + 1, Len(s))
  <2>1. /\ t \in Seq(Piece)
        /\ Len(t) = Len(s) - e
        /\ \A k \in 1 .. Len(s) - e : t[k] = s[k + e]
    BY <1>1, <1>2, SubSeqProperties
  <2>2. DOMAIN t = 1 .. Len(s) - e /\ (t # <<>> => Len(t) > 0)
    BY <2>1, LenProperties, EmptySeq
  <2> HIDE DEF t
  <2>3. \A k \in 1 .. Len(s) - e : t[k].of = t[1].of /\ t[k].n = t[1].n + k - 1
    <3> TAKE k \in 1 .. Len(s) - e
    <3>1. t[k] = s[k + e] /\ t[1] = s[1 + e]
      BY <1>1, <1>2, <2>1
    <3>2. /\ k + e \in 1 .. Len(s) /\ 1 + e \in 1 .. Len(s)
          /\ k \in Nat /\ e \in Nat /\ s[1].n \in Nat
      BY <1>1, <1>2
    <3>3. s[k + e].n = s[1].n + (k + e) - 1 /\ s[1 + e].n = s[1].n + (1 + e) - 1
      BY <1>3, <3>2
    <3>4. s[k + e].of = s[1].of /\ s[1 + e].of = s[1].of
      BY <1>3, <3>2
    <3>5. \A b, x, y \in Nat : b + (x + y) - 1 = (b + (1 + y) - 1) + x - 1
      OBVIOUS
    <3>6. s[k + e].n = s[1 + e].n + k - 1
      <4>1. s[1].n + (k + e) - 1 = (s[1].n + (1 + e) - 1) + k - 1
        BY <3>2, <3>5
      <4> QED  BY <3>3, <4>1, Zenon
    <3> QED  BY <3>1, <3>4, <3>6
  <2>4. t # <<>> => t[1].n - 1 \in LineEnds
    <3> SUFFICES ASSUME t # <<>> PROVE t[1].n - 1 \in LineEnds
      OBVIOUS
    <3>1. t[1] = s[1 + e] /\ 1 + e \in 1 .. Len(s)
      BY <1>1, <1>2, <2>1, <2>2
    <3>2. s[1 + e].n - 1 = s[e].n
      BY <1>1, <1>2, <1>3, <3>1
    <3> QED  BY <1>2, <3>1, <3>2 DEF IsEnd
  <2>5. t \in Seq(Piece) /\ InOrder(t)
    BY <2>1, <2>2, <2>3, <2>4 DEF InOrder
  <2> QED  BY <2>5 DEF t
<1> QED  BY <1>4, <1>5

\* One read more: the oldest stays the oldest.
LEMMA ReadAppended ==
  ASSUME NEW r \in Seq(Read), OthersSecond(r), NEW x \in Read, x.second = (r # <<>>)
  PROVE  /\ Append(r, x) \in Seq(Read) /\ Append(r, x) # <<>> /\ OthersSecond(Append(r, x))
         /\ Head(Append(r, x)) = IF r = <<>> THEN x ELSE Head(r)
<1> DEFINE s == Append(r, x)
<1>1. /\ Len(r) \in Nat /\ DOMAIN r = 1 .. Len(r) /\ (r = <<>> <=> Len(r) = 0)
  BY LenProperties, EmptySeq
<1>2. /\ s \in Seq(Read) /\ Len(s) = Len(r) + 1 /\ s[Len(r) + 1] = x
      /\ \A k \in 1 .. Len(r) : s[k] = r[k]
  BY <1>1
<1>3. DOMAIN s = 1 .. Len(r) + 1 /\ s # <<>>
  BY <1>1, <1>2, LenProperties, EmptySeq
<1>4. Head(s) = s[1] /\ (r # <<>> => Head(r) = r[1])
  BY <1>1, <1>2, <1>3 
<1> HIDE DEF s
<1>5. \A k \in DOMAIN s : k # 1 => s[k].second
  <2> SUFFICES ASSUME NEW k \in DOMAIN s, k # 1 PROVE s[k].second
    OBVIOUS
  <2>1. CASE k \in 1 .. Len(r)
    BY <1>1, <1>2, <2>1 DEF OthersSecond
  <2>2. CASE k = Len(r) + 1
    <3>1. r # <<>>
      BY <1>1, <2>2
    <3> QED  BY <1>2, <2>2, <3>1
  <2> QED  BY <1>1, <1>3, <2>1, <2>2
<1>6. Head(s) = IF r = <<>> THEN x ELSE Head(r)
  BY <1>1, <1>2, <1>4
<1> QED  BY <1>2, <1>3, <1>5, <1>6 DEF OthersSecond, s

\* Once the oldest is done with, each of the others was started beside it.
LEMMA OldestDone ==
  ASSUME NEW r \in Seq(Read), OthersSecond(r), r # <<>>
  PROVE  /\ Tail(r) \in Seq(Read) /\ OthersSecond(Tail(r))
         /\ Tail(r) # <<>> => Head(Tail(r)).second
<1> DEFINE t == Tail(r)
<1>1. /\ t \in Seq(Read) /\ Len(t) = Len(r) - 1
      /\ \A k \in 1 .. Len(t) : t[k] = r[k + 1]
  BY HeadTailProperties
<1>2. /\ Len(r) \in Nat /\ DOMAIN r = 1 .. Len(r) /\ DOMAIN t = 1 .. Len(t)
      /\ Len(t) \in Nat /\ (t # <<>> => Len(t) # 0)
  BY <1>1, LenProperties, EmptySeq
<1>3. t # <<>> => Head(t) = t[1]
  OBVIOUS
<1> HIDE DEF t
<1>4. \A k \in DOMAIN t : t[k].second
  <2> TAKE k \in DOMAIN t
  <2>1. k \in 1 .. Len(t) /\ k + 1 \in DOMAIN r /\ k + 1 # 1
    BY <1>1, <1>2
  <2> QED  BY <1>1, <2>1 DEF OthersSecond
<1>5. t # <<>> => Head(t).second
  BY <1>2, <1>3, <1>4
<1> QED  BY <1>1, <1>4, <1>5 DEF OthersSecond, t

\* What a read that is added may not disturb.
LEMMA LinesOnceMore ==
  ASSUME LinesInv, NEW x \in Read, x.second = (reads # <<>>), reads' = Append(reads, x),
         UNCHANGED <<readMsg, shown, torn, sent>>, open' \in BOOLEAN,
         reads = <<>> /\ ~torn => InOrder(readMsg \o x.got)
  PROVE  LinesInv'
<1>1. /\ reads' \in Seq(Read) /\ reads' # <<>> /\ OthersSecond(reads')
      /\ Head(reads') = IF reads = <<>> THEN x ELSE Head(reads)
  BY ReadAppended DEF LinesInv
<1>2. ASSUME ~torn PROVE Lines'
  <2>1. Lines
    BY <1>2 DEF LinesInv
  <2>2. ~(First.second)' => InOrder(Buffer)'
    BY <1>1, <1>2, <2>1 DEF Lines, First, Buffer
  <2> QED  BY <1>1, <2>1, <2>2 DEF Lines
<1> QED  BY <1>1, <1>2 DEF LinesInv

LEMMA NoPieces == <<>> \in Seq(Piece) /\ \A s \in Seq(Piece) : s \o <<>> = s
  BY EmptySeq, ConcatEmptySeq

\* What a read gets of a connection are its first pieces, in order.
LEMMA ReceivedInOrder ==
  ASSUME NEW from \in Clients \union {"peer"}, NEW k \in Nat
  PROVE  Received(from, k) \in Seq(Piece) /\ InOrder(Received(from, k))
<1> DEFINE got == Received(from, k)
<1>1. got \in Seq(Piece) /\ Len(got) = k
  <2>1. got \in [1 .. k -> Piece]
    BY DEF Piece, Received
  <2> QED  BY <2>1, SeqDef
<1>2. \A j \in 1 .. k : got[j].of = from /\ got[j].n = j
  BY DEF Received
<1> HIDE DEF got
<1>3. DOMAIN got = 1 .. k /\ (got # <<>> => k # 0)
  BY <1>1, LenProperties, EmptySeq
<1>4. InOrder(got)
  BY <1>2, <1>3 DEF InOrder
<1> QED  BY <1>1, <1>4 DEF got

LEMMA OfPeerFacts ==
  ASSUME open \in BOOLEAN, NEW bytes \in OfPeer
  PROVE  bytes \in Seq(Piece) /\ InOrder(bytes) /\ (~open => bytes = <<>>)
<1>1. PICK k \in IF connect = "ok" /\ open THEN 0 .. MaxPiece ELSE {0} : bytes = Received("peer", k)
  BY DEF OfPeer
<1>2. k \in Nat
  BY <1>1, NodeAssumption
<1>3. bytes \in Seq(Piece) /\ InOrder(bytes)
  BY <1>1, <1>2, ReceivedInOrder
<1>4. ASSUME ~open PROVE bytes = <<>>
  <2>1. k = 0
    BY <1>1, <1>4
  <2>2. DOMAIN bytes = {}
    BY <1>1, <2>1 DEF Received
  <2> QED  BY <1>3, <2>2, LenProperties, EmptySeq
<1> QED  BY <1>3, <1>4

LEMMA OfClientFacts ==
  ASSUME LinesInv, NEW c \in Clients, NEW bytes \in OfClient(c)
  PROVE  bytes \in Seq(Piece) /\ InOrder(bytes)
<1>1. PICK k \in (1 .. sent[c]) \union {0} : bytes = Received(c, k)
  BY DEF OfClient
<1>2. k \in Nat
  BY <1>1 DEF LinesInv
<1> QED  BY <1>1, <1>2, ReceivedInOrder

\* start_read as the handlers of do_accept and do_connect call it: where nothing
\* is outstanding and no line is left, nothing is left.
LEMMA LinesStart ==
  ASSUME LinesInv, NEW isOpen \in BOOLEAN, NEW bytes \in Seq(Piece), InOrder(bytes),
         ~isOpen => bytes = <<>>, StartRead(isOpen, reads, readMsg, bytes),
         UNCHANGED <<readMsg, shown, torn, sent>>, open' \in BOOLEAN
  PROVE  LinesInv'
<1> DEFINE left == isOpen /\ HasLine(readMsg)
           got  == IF left THEN <<>> ELSE bytes
           x == [ok |-> left \/ got # <<>>, got |-> got, second |-> reads # <<>>]
<1>1. got \in Seq(Piece)
  BY NoPieces
<1>2. reads' = Append(reads, x) /\ x.got = got /\ x.second = (reads # <<>>)
  BY DEF StartRead
<1>3. x \in Read
  BY <1>1 DEF Read
<1>4. reads = <<>> /\ ~torn => InOrder(readMsg \o got)
  <2> SUFFICES ASSUME reads = <<>>, ~torn PROVE InOrder(readMsg \o got)
    OBVIOUS
  <2>1. readMsg \in Seq(Piece) /\ InOrder(readMsg) /\ (readMsg = <<>> \/ HasLine(readMsg))
    BY DEF LinesInv, Lines
  <2>2. CASE got = <<>>
    BY <2>1, <2>2, NoPieces
  <2>3. CASE got # <<>>
    <3>1. readMsg = <<>> /\ got = bytes
      BY <2>1, <2>3
    <3>2. readMsg \o got = bytes
      BY <3>1, ConcatEmptySeq
    <3> QED  BY <3>2
  <2> QED  BY <2>2, <2>3
<1> HIDE DEF x, got
<1> QED  BY <1>2, <1>3, <1>4, LinesOnceMore

\* The clients and main, which have no part in what is read.
LEMMA LinesKept ==
  ASSUME LinesInv, UNCHANGED reading, open' \in BOOLEAN, sent' \in [Clients -> Nat]
  PROVE  LinesInv'
  BY DEF LinesInv, Lines, reading, First, Buffer

LEMMA LinesNodeStep ==
  ASSUME LinesInv,
         \/ Start \/ ConnectSettles \/ HandleConnected \/ HandleRefused \/ RetryConnect
         \/ PostMessage \/ HandleWrite
  PROVE  LinesInv'
<1>1. CASE HandleConnected
  <2>1. PICK bytes \in OfPeer : StartRead(open, reads, readMsg, bytes)
    BY <1>1 DEF HandleConnected
  <2>2. UNCHANGED <<readMsg, shown, torn, sent>> /\ open' \in BOOLEAN /\ open \in BOOLEAN
    BY <1>1 DEF HandleConnected, LinesInv, network
  <2> QED  BY <2>1, <2>2, OfPeerFacts, LinesStart
<1>2. CASE Start
  BY <1>2, LinesKept
     DEF Start, ReadTemperature, ConstructWrapper, Construct, StartAccept, StartThrows,
         StartConnect, DoConnect, network, outgoing, LinesInv
<1>3. CASE ConnectSettles \/ HandleRefused \/ RetryConnect
  BY <1>3, LinesKept
     DEF ConnectSettles, HandleRefused, RetryConnect, DoConnect, network, LinesInv
<1>4. CASE PostMessage \/ HandleWrite
  BY <1>4, LinesKept DEF PostMessage, HandleWrite, network, outgoing, LinesInv
<1> QED  BY <1>1, <1>2, <1>3, <1>4

LEMMA LinesClientStep ==
  ASSUME LinesInv, NEW c \in Clients, Client(c) \/ Accept(c) PROVE LinesInv'
<1>1. CASE Client(c)
  <2>1. sent' \in [Clients -> Nat]
    BY <1>1 DEF Client, Dial, SendPiece, HangUp, LinesInv
  <2> QED
    BY <1>1, <2>1, LinesKept DEF Client, Dial, SendPiece, HangUp, outgoing, LinesInv
<1>2. CASE HandleAccept(c)
  <2>1. PICK bytes \in OfClient(c) : StartRead(TRUE, reads, readMsg, bytes)
    BY <1>2 DEF HandleAccept, StartReadOf
  <2>2. UNCHANGED <<readMsg, shown, torn, sent>> /\ open' \in BOOLEAN
    BY <1>2 DEF HandleAccept, outgoing, LinesInv
  <2> QED  BY <2>1, <2>2, OfClientFacts, LinesStart
<1>3. CASE AcceptThrows(c)
  BY <1>3, LinesKept DEF AcceptThrows, network, outgoing, LinesInv
<1> QED  BY <1>1, <1>2, <1>3 DEF Accept

\* The oldest read with what it received.
LEMMA BufferType == ASSUME LinesInv, reads # <<>> PROVE Buffer \in Seq(Piece) /\ First \in Read
<1>1. First \in Read
  BY HeadTailProperties DEF LinesInv, First
<1>2. First.got \in Seq(Piece)
  BY <1>1 DEF Read
<1> QED  BY <1>1, <1>2, ConcatProperties DEF LinesInv, Buffer

\* A line is shown, and the read of socket_ that follows finds in read_msg_
\* what came behind that line: nothing, a line, or a part of one that bytes of
\* the peer would spoil.
LEMMA LineStep == ASSUME LinesInv, HandleLine PROVE LinesInv'
<1> DEFINE e == FirstEnd(Buffer)
           rest == SubSeq(Buffer, e + 1, Len(Buffer))
<1>0. PICK bytes \in OfPeer :
        /\ ReadOn(Tail(reads), rest, bytes)
        /\ torn' = (torn \/ (bytes # <<>> /\ rest # <<>> /\ ~HasLine(rest)))
  BY DEF HandleLine
<1> DEFINE left == open /\ HasLine(rest)
           got == IF left THEN <<>> ELSE bytes
           x == [ok |-> left \/ got # <<>>, got |-> got, second |-> Tail(reads) # <<>>]
<1>1. /\ reads # <<>> /\ HasLine(Buffer) /\ ~First.second
      /\ shown' = SubSeq(Buffer, 1, e) /\ readMsg' = rest
      /\ reads' = Append(Tail(reads), x)
      /\ open' = FALSE /\ UNCHANGED sent
  BY <1>0 DEF HandleLine, ReadOn, StartRead, network
<1>a. bytes \in Seq(Piece) /\ InOrder(bytes) /\ (~open => bytes = <<>>)
  BY OfPeerFacts DEF LinesInv
<1>b. got \in Seq(Piece)
  BY <1>a, NoPieces
<1>2. Buffer \in Seq(Piece) /\ reads \in Seq(Read)
  BY <1>1, BufferType DEF LinesInv
<1>3. e \in 1 .. Len(Buffer) /\ Len(Buffer) \in Nat
  BY <1>1, <1>2, FirstEndIsThere, LenProperties
<1>4. rest \in Seq(Piece)
  <2>1. \A i \in e + 1 .. Len(Buffer) : Buffer[i] \in Piece
    BY <1>2, <1>3, ElementOfSeq
  <2> QED  BY <1>3, <2>1, SubSeqProperties
<1>5. /\ Tail(reads) \in Seq(Read) /\ OthersSecond(Tail(reads))
      /\ Tail(reads) # <<>> => Head(Tail(reads)).second
  BY <1>1, OldestDone DEF LinesInv
<1>6. x \in Read /\ x.second = (Tail(reads) # <<>>) /\ x.got = got
  BY <1>b DEF Read
<1>c. ~torn' => got = <<>> \/ (rest = <<>> /\ got = bytes)
  BY <1>0, <1>a
<1> HIDE DEF x, got, left, rest, e
<1>7. /\ reads' \in Seq(Read) /\ reads' # <<>> /\ OthersSecond(reads')
      /\ Head(reads') = IF Tail(reads) = <<>> THEN x ELSE Head(Tail(reads))
  BY <1>1, <1>5, <1>6, ReadAppended
<1>8. ASSUME ~torn' PROVE Lines'
  <2>1. InOrder(Buffer)
    BY <1>0, <1>1, <1>8 DEF LinesInv, Lines
  <2>2. IsLine(shown') /\ InOrder(rest)
    BY <1>1, <1>2, <2>1, CutAtFirstEnd DEF e, rest
  <2>3. ~(First.second)' => InOrder(Buffer)'
    <3>1. InOrder(rest \o got)
      <4>1. CASE got = <<>>
        BY <1>4, <2>2, <4>1, NoPieces
      <4>2. CASE rest = <<>> /\ got = bytes
        <5>1. rest \o got = bytes
          BY <1>a, <4>2, ConcatEmptySeq
        <5> QED  BY <1>a, <5>1
      <4> QED  BY <1>8, <1>c, <4>1, <4>2
    <3>2. ~(First.second)' => Head(reads') = x
      BY <1>5, <1>7 DEF First
    <3> QED  BY <1>1, <1>6, <3>1, <3>2 DEF First, Buffer
  <2> QED  BY <1>1, <1>7, <2>2, <2>3 DEF Lines
<1>9. torn' \in BOOLEAN
  BY <1>0 DEF LinesInv
<1> QED  BY <1>1, <1>4, <1>7, <1>8, <1>9 DEF LinesInv

\* A read that ends without a line leaves what it received in read_msg_.
LEMMA ReadErrorStep == ASSUME LinesInv, HandleReadError PROVE LinesInv'
<1>1. /\ reads # <<>> /\ ~First.second /\ readMsg' = Buffer /\ reads' = Tail(reads)
      /\ torn' = (torn \/ (Buffer # <<>> /\ ~HasLine(Buffer)))
      /\ UNCHANGED <<sent, shown, open>>
  BY DEF HandleReadError, network, outgoing
<1>2. /\ Tail(reads) \in Seq(Read) /\ OthersSecond(Tail(reads))
      /\ Tail(reads) # <<>> => Head(Tail(reads)).second
  BY <1>1, OldestDone DEF LinesInv
<1>3. Buffer \in Seq(Piece)
  BY <1>1, BufferType
<1>4. ASSUME ~torn' PROVE Lines'
  BY <1>1, <1>2, <1>4 DEF LinesInv, Lines, First
<1> QED  BY <1>1, <1>2, <1>3, <1>4 DEF LinesInv

LEMMA SecondReadStep == ASSUME LinesInv, HandleSecondRead PROVE LinesInv'
<1>1. /\ reads # <<>> /\ torn' = TRUE /\ readMsg' \in {readMsg, <<>>}
      /\ UNCHANGED sent /\ open' \in {open, FALSE}
  BY DEF HandleSecondRead, ReadOn, network
<1>2. readMsg' \in Seq(Piece) /\ open' \in BOOLEAN
  BY <1>1, NoPieces DEF LinesInv
<1>3. Tail(reads) \in Seq(Read) /\ OthersSecond(Tail(reads))
  BY <1>1, OldestDone DEF LinesInv
<1>4. reads' \in Seq(Read) /\ OthersSecond(reads')
  <2>1. CASE reads' = Tail(reads)
    BY <1>3, <2>1
  <2>2. ASSUME NEW bytes \in OfPeer, StartRead(open, Tail(reads), readMsg', bytes)
        PROVE  reads' \in Seq(Read) /\ OthersSecond(reads')
    <3> DEFINE left == open /\ HasLine(readMsg')
               got == IF left THEN <<>> ELSE bytes
               x == [ok |-> left \/ got # <<>>, got |-> got, second |-> Tail(reads) # <<>>]
    <3>a. got \in Seq(Piece)
      BY OfPeerFacts, NoPieces DEF LinesInv
    <3>1. reads' = Append(Tail(reads), x) /\ x \in Read /\ x.second = (Tail(reads) # <<>>)
      BY <2>2, <3>a DEF StartRead, Read
    <3> HIDE DEF x
    <3> QED  BY <1>3, <3>1, ReadAppended
  <2> QED  BY <2>1, <2>2 DEF HandleSecondRead, ReadOn
<1> QED  BY <1>1, <1>2, <1>4 DEF LinesInv

THEOREM LinesInit == Init => LinesInv
<1>1. <<>> \in Seq(Piece) /\ <<>> \in Seq(Read) /\ DOMAIN <<>> = {}
  BY EmptySeq
<1>2. InOrder(<<>>) /\ OthersSecond(<<>>)
  BY <1>1 DEF InOrder, OthersSecond
<1>3. SUFFICES ASSUME Init PROVE LinesInv
  OBVIOUS
<1>4. /\ reads = <<>> /\ readMsg = <<>> /\ shown = <<>> /\ torn = FALSE /\ open = FALSE
      /\ sent \in [Clients -> Nat]
  BY <1>3 DEF Init
<1>5. Lines
  BY <1>2, <1>4 DEF Lines
<1> QED
  BY <1>1, <1>2, <1>4, <1>5 DEF LinesInv

THEOREM LinesStep == LinesInv /\ [Next]_vars => LinesInv'
<1> SUFFICES ASSUME LinesInv, [Next]_vars PROVE LinesInv'
  OBVIOUS
<1>1. CASE Start
  BY <1>1, LinesNodeStep
<1>2. CASE Handler
  BY <1>2, LinesNodeStep, LineStep, ReadErrorStep, SecondReadStep DEF Handler
<1>3. CASE \E c \in Clients : Client(c) \/ Accept(c)
  BY <1>3, LinesClientStep
<1>4. CASE UNCHANGED vars
  BY <1>4, LinesKept DEF vars, network, outgoing, LinesInv
<1> QED  BY <1>1, <1>2, <1>3, <1>4 DEF Next

\* Until a read was torn, ended on a part of a line, or got bytes of the peer
\* behind a client's part of one, what the node prints is one line of one client
\* or of the peer, whole: for any clients, and lines of any length.
THEOREM WholeLines == Spec => []LinesComeWhole
<1>1. LinesInv => LinesComeWhole
  BY DEF LinesInv, Lines, LinesComeWhole
<1> QED  BY <1>1, LinesInit, LinesStep, PTL DEF Spec

-----------------------------------------------------------------------------
(* The clients.                                                              *)

\* DuplexNode does not get past the first do_accept.
NeverAccepts ==
  program = "DuplexNode" =>
    /\ main \in {"nvml", "wrapper", "construct", "accept", "over", "dead"}
    /\ \A c \in Clients : link[c] # "dropped"

\* The DuplexNode that TestClFFT01 starts takes up no client, ever: what the
\* violated DuplexNodeListens shows on an instance, for any.
THEOREM DuplexNodeTakesNone ==
  Spec => [](program = "DuplexNode" => \A c \in Clients : link[c] # "dropped")
<1>1. Init => NeverAccepts /\ link \in [Clients -> {"none", "backlog", "gone", "dropped"}]
  BY DEF Init, NeverAccepts
<1> DEFINE J == NeverAccepts /\ link \in [Clients -> {"none", "backlog", "gone", "dropped"}]
<1>2. J /\ [Next]_vars => J'
  <2> SUFFICES ASSUME J, [Next]_vars PROVE J'
    OBVIOUS
  <2>1. CASE Start
    BY <2>1 DEF NeverAccepts, Start, ReadTemperature, ConstructWrapper, Construct, StartAccept,
                StartThrows, StartConnect, Goto, network
  <2>2. CASE Handler
    BY <2>2 DEF NeverAccepts, Handler, ConnectSettles, HandleConnected, HandleRefused,
                RetryConnect, HandleLine, HandleReadError, HandleSecondRead, PostMessage,
                HandleWrite, Running, network
  <2>3. ASSUME NEW c \in Clients, Client(c) PROVE J'
    BY <2>3 DEF NeverAccepts, Client, Dial, SendPiece, HangUp
  <2>4. ASSUME NEW c \in Clients, Accept(c) PROVE J'
    BY <2>4 DEF NeverAccepts, Accept, HandleAccept, AcceptThrows, Running, network
  <2>5. CASE UNCHANGED vars
    BY <2>5 DEF NeverAccepts, vars, network
  <2> QED  BY <2>1, <2>2, <2>3, <2>4, <2>5 DEF Next
<1>3. J => (program = "DuplexNode" => \A c \in Clients : link[c] # "dropped")
  BY DEF NeverAccepts
<1> QED  BY <1>1, <1>2, <1>3, PTL DEF Spec

\* Whoever dialled met a node that listens, and one that runs has an accept
\* outstanding.
AcceptInv ==
  /\ link \in [Clients -> {"none", "backlog", "gone", "dropped"}]
  /\ main \in {"nvml", "wrapper", "construct", "accept", "connect", "run", "over", "dead"}
  /\ main \in {"nvml", "wrapper", "construct"} => \A c \in Clients : link[c] = "none"
  /\ main \in {"connect", "run"} => accepting

\* A connection in the backlog has the handler that takes it up before it, or
\* main on its way there, whatever the accepts, errors and reads before were:
\* the safety half of ClientsTakenUp for Node.
THEOREM BacklogIsLookedAfter ==
  Spec => [](\A c \in Clients : link[c] = "backlog" /\ main \notin {"over", "dead"} =>
               main \in {"accept", "connect"} \/ (Running /\ accepting))
<1>1. Init => AcceptInv
  BY DEF Init, AcceptInv
<1>2. AcceptInv /\ [Next]_vars => AcceptInv'
  <2> SUFFICES ASSUME AcceptInv, [Next]_vars PROVE AcceptInv'
    OBVIOUS
  <2>1. CASE Start
    BY <2>1 DEF AcceptInv, Start, ReadTemperature, ConstructWrapper, Construct, StartAccept,
                StartThrows, StartConnect, Goto, network
  <2>2. CASE Handler
    BY <2>2 DEF AcceptInv, Handler, ConnectSettles, HandleConnected, HandleRefused,
                RetryConnect, HandleLine, HandleReadError, HandleSecondRead, PostMessage,
                HandleWrite, Running, network
  <2>3. ASSUME NEW c \in Clients, Client(c) PROVE AcceptInv'
    BY <2>3 DEF AcceptInv, Client, Dial, SendPiece, HangUp, Listening
  <2>4. ASSUME NEW c \in Clients, Accept(c) PROVE AcceptInv'
    BY <2>4 DEF AcceptInv, Accept, HandleAccept, AcceptThrows, Running, network
  <2>5. CASE UNCHANGED vars
    BY <2>5 DEF AcceptInv, vars, network
  <2> QED  BY <2>1, <2>2, <2>3, <2>4, <2>5 DEF Next
<1>3. AcceptInv => \A c \in Clients : link[c] = "backlog" /\ main \notin {"over", "dead"} =>
                     main \in {"accept", "connect"} \/ (Running /\ accepting)
  BY DEF AcceptInv, Running
<1> QED  BY <1>1, <1>2, <1>3, PTL DEF Spec
=============================================================================
