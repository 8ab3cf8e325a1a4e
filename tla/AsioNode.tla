-------------------------------- MODULE AsioNode --------------------------------
(***************************************************************************)
(* A peer that listens on one port and connects to another: class Node of  *)
(* socket0.cpp (socket_test.cpp keeps a copy), and class DuplexNode, which *)
(* TestClFFT01 starts.  Both run the handlers of one io_context.           *)
(*                                                                         *)
(* Node::start_read takes its socket by value, so that the socket closes   *)
(* when start_read returns: a read gets what is there at that moment, or   *)
(* it is aborted, and its handler refers to a socket that is gone.  That   *)
(* is undefined; the model goes on as after an error, or the process dies. *)
(***************************************************************************)
EXTENDS Naturals, Sequences

CONSTANTS
  Clients,    \* the programs that connect to the listening port
  LineEnds,   \* who sends sends pieces 1, 2, ...; these have a '\n' at the end
  MaxPiece,   \* pieces that come on one connection (bounds the run)
  MaxPost     \* messages the writing thread posts (bounds the run)

ASSUME NodeAssumption ==
  MaxPiece \in Nat /\ MaxPost \in Nat /\ LineEnds \subseteq 1 .. MaxPiece /\ "peer" \notin Clients

VARIABLES
  program,    \* the class that is started
  main,       \* main: where it is, "over" once run() was left, "dead"
  link,       \* link[c]: "none", "backlog", "gone" (c hung up), "dropped"
  sent,       \* sent[c]: pieces c sent before it was accepted
  accepting,  \* an async_accept is outstanding
  connect,    \* async_connect: "none", "pending", or its result
  open,       \* socket_ is open
  timer,      \* retry_timer_ runs
  reads,      \* outstanding async_read_until, oldest first
  readMsg,    \* read_msg_
  poster,     \* the thread of start_write runs
  posted,     \* messages it posted
  writeMsgs,  \* the length of write_msgs_
  writing,    \* an async_write is outstanding
  shown,      \* history: the last line printed as received
  torn,       \* history: a read lost its socket or buffer, ended on a part of a
              \* line, or got bytes of the peer behind a client's part of one
  failed      \* history: an async_write failed

network == <<link, sent>>
reading == <<reads, readMsg, shown, torn>>
outgoing == <<connect, open, timer>>
writes  == <<poster, posted, writeMsgs, writing, failed>>
vars    == <<program, main, network, accepting, outgoing, reading, writes>>

IsEnd(p) == p.n \in LineEnds
HasLine(s) == \E k \in DOMAIN s : IsEnd(s[k])
FirstEnd(s) == CHOOSE k \in DOMAIN s : IsEnd(s[k]) /\ \A j \in 1 .. k - 1 : ~IsEnd(s[j])

-----------------------------------------------------------------------------
(* The clients.                                                              *)

Listening == main \in {"accept", "connect", "run"}

Dial(c) == /\ Listening /\ link[c] = "none"
           /\ link' = [link EXCEPT ![c] = "backlog"]
           /\ UNCHANGED <<program, main, sent, accepting, outgoing, reading, writes>>

SendPiece(c) == /\ Listening /\ link[c] = "backlog" /\ sent[c] < MaxPiece
                /\ sent' = [sent EXCEPT ![c] = @ + 1]
                /\ UNCHANGED <<program, main, link, accepting, outgoing, reading, writes>>

HangUp(c) == /\ Listening /\ link[c] = "backlog"
             /\ link' = [link EXCEPT ![c] = "gone"]
             /\ UNCHANGED <<program, main, sent, accepting, outgoing, reading, writes>>

-----------------------------------------------------------------------------
(* main, up to io_context::run.                                              *)

Goto(from, to) == main = from /\ main' \in to

\* TestClFFT01 asks NVML for the temperature of the GPU first, and returns
\* when NVML or the device is not there.
ReadTemperature ==
  /\ Goto("nvml", {"wrapper", "over"})
  /\ UNCHANGED <<program, network, accepting, outgoing, reading, writes>>

\* streams_sockets makes a cl_fft_base, which throws past main without a GPU.
ConstructWrapper ==
  /\ Goto("wrapper", {"construct", "dead"})
  /\ UNCHANGED <<program, network, accepting, outgoing, reading, writes>>

\* The constructor opens the acceptor, or throws because the port is taken: main
\* of socket0 catches that, the one of TestClFFT01 does not.
Construct ==
  /\ Goto("construct", {"accept", IF program = "Node" THEN "over" ELSE "dead"})
  /\ UNCHANGED <<program, network, accepting, outgoing, reading, writes>>

\* start(): do_accept.
StartAccept ==
  /\ program = "Node" /\ Goto("accept", {"connect"})
  /\ accepting' = TRUE
  /\ UNCHANGED <<program, network, outgoing, reading, writes>>

\* start() of DuplexNode: enable_shared_from_this is a private base, nobody
\* told it of its owner, and shared_from_this throws in do_accept.  run() of
\* socket_test catches that and returns; then socket_test is destroyed, and
\* its io_context before the node that holds sockets of it.
StartThrows ==
  /\ program = "DuplexNode" /\ Goto("accept", {"over", "dead"})
  /\ UNCHANGED <<program, network, accepting, outgoing, reading, writes>>

\* do_connect: async_connect opens socket_.
DoConnect == connect' = "pending" /\ open' = TRUE

StartConnect ==
  /\ Goto("connect", {"run"}) /\ DoConnect
  /\ UNCHANGED <<program, network, accepting, timer, reading, writes>>

-----------------------------------------------------------------------------
(* The handlers.                                                             *)

Running == main = "run"

\* start_read of a socket that is closed on return: a line left over in
\* read_msg_ is a result without reading, if the socket is open at all; or the
\* read gets what has come on the connection.
StartRead(isOpen, pending, buffer, bytes) ==
  LET left == isOpen /\ HasLine(buffer)
      got  == IF left THEN <<>> ELSE bytes
  IN reads' = Append(pending, [ok |-> left \/ got # <<>>, got |-> got, second |-> pending # <<>>])

Received(from, k) == [j \in 1 .. k |-> [of |-> from, n |-> j]]

\* Any of what client c has sent, if it is still there to be read.
OfClient(c) ==
  {Received(c, k) : k \in (1 .. sent[c]) \union {m \in {0} : sent[c] = 0 \/ link[c] = "gone"}}

\* Whatever the peer has sent on a socket_ that is connected.
OfPeer == {Received("peer", k) : k \in IF connect = "ok" /\ open THEN 0 .. MaxPiece ELSE {0}}

StartReadOf(c) == \E bytes \in OfClient(c) : StartRead(TRUE, reads, readMsg, bytes)

\* Mutant: the handler of do_accept does not accept again.
HandleAcceptOnce(c) ==
  /\ Running /\ accepting /\ link[c] \in {"backlog", "gone"}
  /\ StartReadOf(c)
  /\ link' = [link EXCEPT ![c] = "dropped"]
  /\ accepting' = FALSE
  /\ UNCHANGED <<program, main, sent, outgoing, readMsg, shown, torn, writes>>

\* do_accept's handler; an error of accept itself only accepts again.
HandleAccept(c) ==
  /\ Running /\ accepting /\ link[c] \in {"backlog", "gone"}
  /\ StartReadOf(c)
  /\ link' = [link EXCEPT ![c] = "dropped"]
  /\ UNCHANGED <<program, main, sent, accepting, outgoing, readMsg, shown, torn, writes>>

\* remote_endpoint() of a client that hung up throws out of io_context::run.
AcceptThrows(c) ==
  /\ Running /\ accepting /\ link[c] = "gone"
  /\ main' = "over"
  /\ UNCHANGED <<program, network, accepting, outgoing, reading, writes>>

ConnectSettles ==
  /\ Running /\ connect = "pending"
  /\ connect' \in {"ok", "fail"}
  /\ UNCHANGED <<program, main, network, accepting, open, timer, reading, writes>>

\* do_connect's handler: start_read(std::move(socket_)), then start_write.
HandleConnected ==
  /\ Running /\ connect = "ok"
  /\ connect' = "none"
  /\ \E bytes \in OfPeer : StartRead(open, reads, readMsg, bytes)
  /\ open' = FALSE
  /\ poster' = TRUE
  /\ UNCHANGED <<program, main, network, accepting, timer, readMsg, shown, torn,
                 posted, writeMsgs, writing, failed>>

HandleRefused ==
  /\ Running /\ connect = "fail"
  /\ connect' = "none" /\ timer' = TRUE
  /\ UNCHANGED <<program, main, network, accepting, open, reading, writes>>

RetryConnect ==
  /\ Running /\ timer
  /\ timer' = FALSE /\ DoConnect
  /\ UNCHANGED <<program, main, network, accepting, reading, writes>>

First == Head(reads)
Buffer == readMsg \o First.got

\* The read after a line is one of socket_, moved with a connect that may be
\* under way or has just been made, and not of the connection the line came
\* from.  That connect ends with operation_aborted.
ReadOn(rest, buffer, bytes) ==
  /\ StartRead(open, rest, buffer, bytes)
  /\ open' = FALSE
  /\ connect' = IF connect = "none" THEN "none" ELSE "fail"

\* Mutant: read_msg_ is not erased up to the line that was read.
HandleLineUnerased ==
  /\ Running /\ reads # <<>> /\ First.ok /\ ~First.second /\ HasLine(Buffer)
  /\ shown' = Buffer
  /\ readMsg' = Buffer
  /\ reads' = Tail(reads)
  /\ UNCHANGED <<program, main, network, accepting, outgoing, torn, writes>>

HandleLine ==
  /\ Running /\ reads # <<>> /\ First.ok /\ ~First.second /\ HasLine(Buffer)
  /\ LET e == FirstEnd(Buffer)
     IN /\ shown' = SubSeq(Buffer, 1, e)
        /\ readMsg' = SubSeq(Buffer, e + 1, Len(Buffer))
  /\ \E bytes \in OfPeer :
       /\ ReadOn(Tail(reads), readMsg', bytes)
       /\ torn' = (torn \/ (bytes # <<>> /\ readMsg' # <<>> /\ ~HasLine(readMsg')))
  /\ UNCHANGED <<program, main, network, accepting, timer, writes>>

\* The read ends without a line: its error handler closes a socket that is
\* gone.  A part of a line stays in read_msg_, where the next connection's
\* first line goes on behind it; if this read got the part, the operation has
\* first read on from that socket.
HandleReadError ==
  /\ Running /\ reads # <<>> /\ ~First.second /\ ~(First.ok /\ HasLine(Buffer))
  /\ readMsg' = Buffer
  /\ torn' = (torn \/ (Buffer # <<>> /\ ~HasLine(Buffer)))
  /\ reads' = Tail(reads)
  /\ main' \in {"run", "dead"}
  /\ UNCHANGED <<program, network, accepting, outgoing, shown, writes>>

\* A read that was started while another one was outstanding: both resize
\* read_msg_, what the second received is lost, and it may take the line of
\* the first for its own.
HandleSecondRead ==
  /\ Running /\ reads # <<>> /\ First.second
  /\ torn' = TRUE
  /\ readMsg' \in {readMsg, <<>>}
  /\ \/ reads' = Tail(reads) /\ main' \in {"run", "dead"} /\ UNCHANGED <<connect, open>>
     \/ /\ \E bytes \in OfPeer : ReadOn(Tail(reads), readMsg', bytes)
        /\ UNCHANGED main
  /\ UNCHANGED <<program, network, accepting, timer, shown, writes>>

\* The thread posts a message every two seconds; the posted function queues
\* it, and writes if the queue was empty.
PostMessage ==
  /\ Running /\ poster /\ posted < MaxPost
  /\ posted' = posted + 1
  /\ writeMsgs' = writeMsgs + 1
  /\ writing' = (writing \/ writeMsgs = 0)
  /\ UNCHANGED <<program, main, network, accepting, outgoing, reading, poster, failed>>

\* Mutant: the handler does not ask whether the deque is empty.
HandleWriteUnguarded ==
  /\ Running /\ writing
  /\ writeMsgs' = writeMsgs - 1
  /\ UNCHANGED <<program, main, network, accepting, outgoing, reading, poster, posted,
                 writing, failed>>

\* Mutant: the front is popped whether it was written or not.
HandleWriteAlwaysPops ==
  /\ Running /\ writing
  /\ failed' = (failed \/ ~open)
  /\ writeMsgs' = writeMsgs - 1
  /\ writing' = (writeMsgs > 1)
  /\ UNCHANGED <<program, main, network, accepting, outgoing, reading, poster, posted>>

\* do_write's handler: the next message, or, after an error, nothing more.
HandleWrite ==
  /\ Running /\ writing
  /\ IF open THEN /\ writeMsgs' = writeMsgs - 1 /\ writing' = (writeMsgs > 1)
                  /\ UNCHANGED <<open, failed>>
             ELSE /\ writing' = FALSE /\ open' = FALSE /\ failed' = TRUE
                  /\ UNCHANGED writeMsgs
  /\ UNCHANGED <<program, main, network, accepting, connect, timer, reading, poster, posted>>

-----------------------------------------------------------------------------
Init ==
  /\ \/ program = "Node" /\ main = "construct"
     \/ program = "DuplexNode" /\ main = "nvml"
  /\ link = [c \in Clients |-> "none"] /\ sent = [c \in Clients |-> 0]
  /\ accepting = FALSE /\ connect = "none" /\ open = FALSE /\ timer = FALSE
  /\ reads = <<>> /\ readMsg = <<>> /\ shown = <<>> /\ torn = FALSE
  /\ poster = FALSE /\ posted = 0 /\ writeMsgs = 0 /\ writing = FALSE /\ failed = FALSE

Client(c) == Dial(c) \/ SendPiece(c) \/ HangUp(c)

Start == ReadTemperature \/ ConstructWrapper \/ Construct \/ StartAccept \/ StartThrows \/ StartConnect

Handler == \/ ConnectSettles \/ HandleConnected \/ HandleRefused \/ RetryConnect
           \/ HandleLine \/ HandleReadError \/ HandleSecondRead
           \/ PostMessage \/ HandleWrite

Accept(c) == HandleAccept(c) \/ AcceptThrows(c)

Next == Start \/ Handler \/ \E c \in Clients : Client(c) \/ Accept(c)

Spec == Init /\ [][Next]_vars

\* main goes on, and the acceptor takes up every connection of its backlog.
LiveSpec == Spec /\ WF_vars(Start) /\ \A c \in Clients : WF_vars(Accept(c))

-----------------------------------------------------------------------------
\* The write queue after an error: nothing is under way, the front stays where
\* it was, so each post finds the queue not empty and leaves it at that.  Not
\* one message has been sent, since start_read took socket_ away before.
FailedWriteIsFinal == failed => ~writing /\ writeMsgs = posted

IsLine(s) == /\ \A k \in DOMAIN s : s[k].of = s[1].of /\ s[k].n = s[1].n + k - 1
             /\ \A k \in DOMAIN s : IsEnd(s[k]) <=> k = Len(s)
             /\ s[1].n - 1 \in LineEnds \union {0}

\* What is printed as received is one line of one client or of the peer, whole,
\* although read_msg_ outlives the connections and keeps what came behind a
\* line, until a read has ended on a part of a line, bytes of the peer have come
\* behind a client's part of one, or a second read has spoiled the buffer.
LinesComeWhole == shown # <<>> /\ ~torn => IsLine(shown)

\* The node takes up every connection that is not given up, as long as it runs,
\* whatever became of the ones before.
ClientsTakenUp ==
  \A c \in Clients :
    link[c] = "backlog" ~> (link[c] # "backlog" \/ main \in {"over", "dead"})

\* "Продолжаем слушать", we go on listening, and "слушает 10000", listens on
\* 10000: a DuplexNode that has been made accepts.
DuplexNodeListens == program = "DuplexNode" /\ main = "accept" ~> accepting
=============================================================================
