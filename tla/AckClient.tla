-------------------------------- MODULE AckClient --------------------------------
(***************************************************************************)
(* TcMemory02: a client that sends two packets through shared memory, the  *)
(* second only after the server has read the first one and cleared its     *)
(* control block, and gives up after MaxPoll looks at that block.          *)
(*                                                                         *)
(* MemoryProcessor and the server belong to a library outside the          *)
(* repository.  Of it the client relies on this: the server reads the      *)
(* control block, then clears it, then acknowledges, at any pace, and may  *)
(* be ended and started between any two of these steps.                    *)
(***************************************************************************)
EXTENDS Naturals

CONSTANT MaxPoll   \* the 50 looks of main, 100 ms apart

ASSUME PollAssumption == MaxPoll \in Nat

Packet == {"earlier", "first", "second"}

VARIABLES
  main,       \* main: "construct", "send", "poll", "test", "send2", "enter"
  polls,      \* i of the waiting loop
  block,      \* the control block of the write channel: its packet or "empty"
  inherited,  \* an earlier client had left a packet in it
  server,     \* "down", "idle", "read", "cleared"
  taken,      \* history: packets the server has read
  ackSent,    \* an acknowledgement is on its way
  ackReceived \* _ackReceived

remote == <<server, taken>>
acks   == <<ackSent, ackReceived>>
vars   == <<main, polls, block, inherited, remote, acks>>

-----------------------------------------------------------------------------
(* The client.                                                               *)

Alive == main \notin {"construct", "enter"}   \* the CudaMemory object exists

\* The constructor makes the processor, or throws what main reports.
Construct == /\ main = "construct" /\ main' \in {"send", "enter"}
             /\ UNCHANGED <<polls, block, inherited, remote, acks>>

\* A packet goes over what the block holds, or SendData throws and main reports.
Send(from, packet, to) ==
  /\ main = from
  /\ \/ main' = to /\ block' = packet
     \/ main' = "enter" /\ UNCHANGED block
  /\ UNCHANGED <<polls, inherited, remote, acks>>

SendCudaVectors == Send("send", "first", "poll")

IsWriteChannelReady == block = "empty"

\* Mutant: the loop does not count.
PollForEver ==
  /\ main = "poll"
  /\ main' = IF IsWriteChannelReady THEN "test" ELSE "poll"
  /\ UNCHANGED <<polls, block, inherited, remote, acks>>

Poll == /\ main = "poll"
        /\ IF polls = MaxPoll \/ IsWriteChannelReady
           THEN main' = "test" /\ UNCHANGED polls
           ELSE polls' = polls + 1 /\ UNCHANGED main
        /\ UNCHANGED <<block, inherited, remote, acks>>

\* Mutant: main trusts the loop and does not look again.
TestNothing == /\ main = "test" /\ main' = "send2"
               /\ UNCHANGED <<polls, block, inherited, remote, acks>>

\* The block is looked at once more after the loop, and decides.
Test == /\ main = "test" /\ main' = IF IsWriteChannelReady THEN "send2" ELSE "enter"
        /\ UNCHANGED <<polls, block, inherited, remote, acks>>

\* SendCudaValues; then the object is destroyed and main waits for a key.
SendCudaValues == Send("send2", "second", "enter")

\* Called by the processor's thread; nobody clears the flag again.
OnAckReceived == /\ Alive /\ ackSent
                 /\ ackSent' = FALSE /\ ackReceived' = TRUE
                 /\ UNCHANGED <<main, polls, block, inherited, remote>>

Main == Construct \/ SendCudaVectors \/ Poll \/ Test \/ SendCudaValues

-----------------------------------------------------------------------------
(* The server.                                                               *)

ServerReads == /\ server = "idle" /\ block # "empty"
               /\ server' = "read" /\ taken' = taken \union {block}
               /\ UNCHANGED <<main, polls, block, inherited, acks>>

ServerClears == /\ server = "read" /\ server' = "cleared"
                /\ block' = "empty" /\ UNCHANGED <<main, polls, inherited, taken, acks>>

ServerAcknowledges == /\ server = "cleared" /\ server' = "idle"
                      /\ ackSent' = TRUE
                      /\ UNCHANGED <<main, polls, block, inherited, taken, ackReceived>>

ServerEnds == /\ server # "down" /\ server' = "down"
              /\ UNCHANGED <<main, polls, block, inherited, taken, acks>>

ServerStarts == /\ server = "down" /\ server' = "idle"
                /\ UNCHANGED <<main, polls, block, inherited, taken, acks>>

-----------------------------------------------------------------------------
Init == /\ main = "construct" /\ polls = 0
        /\ inherited \in BOOLEAN /\ block = IF inherited THEN "earlier" ELSE "empty"
        /\ server \in {"down", "idle"} /\ taken = {}
        /\ ackSent = FALSE /\ ackReceived = FALSE

Next == \/ Main \/ OnAckReceived
        \/ ServerReads \/ ServerClears \/ ServerAcknowledges
        \/ ServerEnds \/ ServerStarts

Spec == Init /\ [][Next]_vars

\* main goes on; the server owes nothing.
LiveSpec == Spec /\ WF_vars(Main)

-----------------------------------------------------------------------------
\* The second packet never replaces a first one nobody has read, whenever the
\* server looks, is late, dies or comes back; and _ackReceived is of a packet
\* the server took.  It holds in a channel that was empty at the start: the
\* server may clear, with a packet of an earlier client, the first one unread.
SecondAfterFirst ==
  /\ ~inherited /\ (block = "second" \/ "second" \in taken) => "first" \in taken
  /\ ackReceived => taken # {}

\* main comes to its end though the server never answers.
ClientEnds == <>(main = "enter")
=============================================================================
