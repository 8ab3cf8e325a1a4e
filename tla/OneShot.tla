--------------------------------- MODULE OneShot ---------------------------------
(***************************************************************************)
(* The programs that send one message over TCP, print one answer and end:  *)
(* Send01 (Winsock), Send02, TcpClient of SendToServerCharp, Boost_send.   *)
(* Send02 and TcpClient send a handshake and a frame, and expect a frame;  *)
(* the others take what one receive gives.  On port 20000 listens either   *)
(* Boost_server of this repository, which knows no frames, or the framed   *)
(* server the clients are written for, which is not here.                  *)
(*                                                                         *)
(* A direction of a connection is the sequence of cells that were sent and *)
(* not received; a receive takes any part of it that is there.             *)
(***************************************************************************)
EXTENDS Naturals, Sequences

CONSTANT Programs

ASSUME ProgramAssumption ==
  Programs \subseteq {"Send01", "Send02", "TcpClient", "Boost_send"}

Framed == Programs \cap {"Send02", "TcpClient"}

VARIABLES
  listener, \* who listens on port 20000: "Boost_server", "framed", "nobody"
  large,    \* the framed server's answers fill the buffer of 1024 bytes
  pc,       \* pc[p]: "dial", "write", "read", "end"
  todo,     \* todo[p]: what p has still to write, one sequence for each write
  up,       \* up[p]: cells sent by p that the server has not received
  down,     \* down[p]: cells sent to p that it has not received
  link,     \* link[p]: "none", "backlog", "open", "gone" with p, "closed" by
            \* the server, "reset" because it was closed with cells unread
  serving,  \* Boost_server: the client it has accepted, or "nobody"
  replied,  \* replied[p]: the server has sent its answer
  got,      \* got[p]: cells of the answer p has read
  result    \* result[p]: "none", "reply", "error", "undefined"

shotVars == <<listener, large, pc, todo, up, down, link, serving, replied, got, result>>

Writes(p) ==
  IF p \in Framed THEN << <<"handshake">>, <<"length", "data">> >> ELSE << <<"data">> >>

\* The answers: a frame, or a line of text of which the first four bytes are
\* a length of more than a gigabyte to a client that expects a frame.
Body  == <<"data", "data">>
Frame == <<"length">> \o Body
Line  == <<"text", "text">>
Complete(cells) == cells # <<>> /\ cells[1] = "length" /\ Len(cells) = Len(Frame)

Set(f, p, v) == f' = [f EXCEPT ![p] = v]

\* Boost_send dials port 20001, where nothing of this repository answers in
\* one line: its server is the framed one or nobody.
ServerOf(p) == IF p = "Boost_send" /\ listener = "Boost_server" THEN "nobody" ELSE listener

-----------------------------------------------------------------------------
(* The clients.                                                              *)

End(p, r) == Set(pc, p, "end") /\ Set(result, p, r)

Connect(p) ==
  /\ pc[p] = "dial" /\ ServerOf(p) # "nobody"
  /\ Set(pc, p, "write") /\ Set(link, p, "backlog")
  /\ UNCHANGED <<listener, large, todo, up, down, serving, replied, got, result>>

\* asio::connect throws, which ends the program; Send01 does not look at the
\* result of connect and goes on.
ConnectFails(p) ==
  /\ pc[p] = "dial" /\ ServerOf(p) = "nobody"
  /\ IF p = "Send01" THEN Set(pc, p, "write") /\ UNCHANGED result ELSE End(p, "error")
  /\ UNCHANGED <<listener, large, todo, up, down, link, serving, replied, got>>

\* One write.  What is sent to a closed connection resets it.
Write(p) ==
  /\ pc[p] = "write" /\ link[p] # "none"
  /\ Set(todo, p, Tail(todo[p]))
  /\ Set(pc, p, IF Len(todo[p]) = 1 THEN "read" ELSE "write")
  /\ IF link[p] \in {"closed", "reset"}
     THEN Set(link, p, "reset") /\ UNCHANGED up
     ELSE Set(up, p, up[p] \o todo[p][1]) /\ UNCHANGED link
  /\ UNCHANGED <<listener, large, down, serving, replied, got, result>>

\* A write to a connection that is not there: only Send01 does not notice.
WriteFails(p) ==
  /\ pc[p] = "write" /\ link[p] \in {"none", "reset"}
  /\ IF p = "Send01" THEN Set(pc, p, "read") /\ UNCHANGED result ELSE End(p, "error")
  /\ UNCHANGED <<listener, large, todo, up, down, link, serving, replied, got>>

Take(p, k) == /\ Set(got, p, got[p] \o SubSeq(down[p], 1, k))
              /\ Set(down, p, SubSeq(down[p], k + 1, Len(down[p])))

\* Mutant: one read_some takes the place of asio::read.
ReadFrameOnce(p) ==
  /\ p \in Framed /\ pc[p] = "read"
  /\ \E k \in 1 .. Len(down[p]) : Take(p, k)
  /\ IF got'[p][1] = "length" THEN End(p, "reply") ELSE UNCHANGED <<pc, result>>
  /\ UNCHANGED <<listener, large, todo, up, link, serving, replied>>

\* asio::read of the length, then of as many bytes as it says; a vector of as
\* many as a line of text says may not be had, which ends the program.
ReadFrame(p) ==
  /\ p \in Framed /\ pc[p] = "read"
  /\ \E k \in 1 .. Len(down[p]) : Take(p, k)
  /\ \/ Complete(got'[p]) /\ End(p, "reply")
     \/ ~Complete(got'[p]) /\ UNCHANGED <<pc, result>>
     \/ got'[p][1] = "text" /\ End(p, "error")
  /\ UNCHANGED <<listener, large, todo, up, link, serving, replied>>

\* One recv or read_some.  Send01 ends its text at buffer[len], which is past
\* the buffer when the answer fills it.
ReadOnce(p) ==
  /\ p \notin Framed /\ pc[p] = "read"
  /\ \E k \in 1 .. Len(down[p]) :
       /\ Take(p, k)
       /\ End(p, IF p = "Send01" /\ large /\ k = Len(Frame) THEN "undefined" ELSE "reply")
  /\ UNCHANGED <<listener, large, todo, up, link, serving, replied>>

\* The end of the stream.  recv of Send01 gives 0, an empty text.
ReadEnd(p) ==
  /\ pc[p] = "read" /\ link[p] = "closed" /\ down[p] = <<>>
  /\ End(p, IF p = "Send01" THEN "reply" ELSE "error")
  /\ UNCHANGED <<listener, large, todo, up, down, link, serving, replied, got>>

\* A reset, which may overtake what was sent before it.  recv of Send01 gives
\* -1, and buffer[-1] is written.
ReadFails(p) ==
  /\ pc[p] = "read" /\ link[p] \in {"none", "reset"}
  /\ End(p, IF p = "Send01" THEN "undefined" ELSE "error")
  /\ UNCHANGED <<listener, large, todo, up, down, link, serving, replied, got>>

\* The user ends the program.
Kill(p) ==
  /\ link[p] \in {"backlog", "open"} /\ pc[p] # "end"
  /\ End(p, "error") /\ Set(link, p, "gone")
  /\ UNCHANGED <<listener, large, todo, up, down, serving, replied, got>>

Client(p) == \/ Connect(p) \/ ConnectFails(p) \/ Write(p) \/ WriteFails(p)
             \/ ReadFrame(p) \/ ReadOnce(p) \/ ReadEnd(p) \/ ReadFails(p)

-----------------------------------------------------------------------------
(* Boost_server: one client after the other.                                 *)

Accept(p) ==
  /\ listener = "Boost_server" /\ serving = "nobody" /\ link[p] \in {"backlog", "gone"}
  /\ serving' = p /\ Set(link, p, IF link[p] = "gone" THEN "gone" ELSE "open")
  /\ UNCHANGED <<listener, large, pc, todo, up, down, replied, got, result>>

\* remote_endpoint() of a client that is gone throws out of the loop, and the
\* server ends with the clients that wait for it.
AcceptThrows(p) ==
  /\ listener = "Boost_server" /\ serving = "nobody" /\ link[p] = "gone"
  /\ listener' = "nobody"
  /\ link' = [q \in Programs |-> IF link[q] = "backlog" THEN "reset" ELSE link[q]]
  /\ UNCHANGED <<large, pc, todo, up, down, serving, replied, got, result>>

\* read_some or the write of the answer fails.
AnswerFails(p) ==
  /\ serving = p /\ link[p] = "gone"
  /\ serving' = "nobody" /\ Set(link, p, "closed")
  /\ UNCHANGED <<listener, large, pc, todo, up, down, replied, got, result>>

\* One read_some is taken for the message and answered.
Answer(p) ==
  /\ serving = p /\ ~replied[p] /\ link[p] = "open"
  /\ \E k \in 1 .. Len(up[p]) : Set(up, p, SubSeq(up[p], k + 1, Len(up[p])))
  /\ Set(down, p, Line) /\ Set(replied, p, TRUE)
  /\ UNCHANGED <<listener, large, pc, todo, link, serving, got, result>>

\* Mutant: the next client is accepted with the socket of this one still open.
NextClientOpen(p) ==
  /\ serving = p /\ replied[p] /\ link[p] = "open"
  /\ serving' = "nobody"
  /\ UNCHANGED <<listener, large, pc, todo, up, down, link, replied, got, result>>

\* The end of the loop's body closes the socket.
NextClient(p) ==
  /\ serving = p /\ replied[p] /\ link[p] = "open"
  /\ serving' = "nobody" /\ Set(link, p, IF up[p] = <<>> THEN "closed" ELSE "reset")
  /\ UNCHANGED <<listener, large, pc, todo, up, down, replied, got, result>>

BoostServer(p) == \/ Accept(p) \/ AcceptThrows(p)
                  \/ Answer(p) \/ AnswerFails(p) \/ NextClient(p)

\* The framed server reads everything and answers in a frame, of which a part
\* may arrive first, or closes.
FramedServer(p) ==
  /\ listener = "framed" /\ link[p] = "backlog" /\ pc[p] = "read"
  /\ Set(up, p, <<>>)
  /\ \/ ~replied[p] /\ Set(down, p, <<"length">>) /\ Set(replied, p, TRUE) /\ UNCHANGED link
     \/ replied[p] /\ Set(down, p, down[p] \o Body) /\ Set(link, p, "closed") /\ UNCHANGED replied
     \/ Set(link, p, "closed") /\ UNCHANGED <<down, replied>>
  /\ UNCHANGED <<listener, large, pc, todo, serving, got, result>>

-----------------------------------------------------------------------------
ShotInit ==
  /\ listener \in {"Boost_server", "framed", "nobody"}
  /\ large \in {FALSE, listener = "framed"}
  /\ pc = [p \in Programs |-> "dial"] /\ todo = [p \in Programs |-> Writes(p)]
  /\ up = [p \in Programs |-> <<>>] /\ down = [p \in Programs |-> <<>>]
  /\ link = [p \in Programs |-> "none"] /\ serving = "nobody"
  /\ replied = [p \in Programs |-> FALSE] /\ got = [p \in Programs |-> <<>>]
  /\ result = [p \in Programs |-> "none"]

ShotNext == \E p \in Programs : Client(p) \/ Kill(p) \/ BoostServer(p) \/ FramedServer(p)

ShotSpec == ShotInit /\ [][ShotNext]_shotVars

\* Programs go on, unkilled ones too; a server takes up, answers and closes
\* what it can.
ShotLiveSpec == ShotSpec /\ \A p \in Programs : /\ WF_shotVars(Client(p))
                                                /\ WF_shotVars(BoostServer(p))
                                                /\ WF_shotVars(FramedServer(p))

-----------------------------------------------------------------------------
\* What a framed client prints as the answer is the whole content of a frame:
\* a split answer is waited for, and the line of Boost_server never passes
\* for one, although a length is read from it.
FramedReplyIsWhole ==
  \A p \in Framed : result[p] = "reply" => listener = "framed" /\ got[p] = Frame

\* Every program comes to its end, a framed one against Boost_server too: when
\* it can allocate the gigabyte it waits for it, and only the server's closing
\* after one answer, with the next client behind it, gets it out of the read.
EveryProgramEnds == \A p \in Programs : <>(pc[p] = "end")
=============================================================================
