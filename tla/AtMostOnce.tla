------------------------------- MODULE AtMostOnce -------------------------------
(***************************************************************************)
(* What a sender that gives up what it could not send promises at most:    *)
(* messages are taken one by one in the order in which they were queued,   *)
(* and one that was taken is handled once or never, even after later ones. *)
(***************************************************************************)
EXTENDS Naturals, Sequences

CONSTANT MaxSend

VARIABLES queued,  \* number of messages queued
          taken,   \* number of messages taken
          handled  \* the messages handled

Init == queued = 0 /\ taken = 0 /\ handled = <<>>

Enqueue == /\ queued < MaxSend
           /\ queued' = queued + 1
           /\ UNCHANGED <<taken, handled>>

Take == /\ taken < queued
        /\ taken' = taken + 1
        /\ UNCHANGED <<queued, handled>>

Handle == /\ \E m \in 1 .. taken : /\ \A k \in DOMAIN handled : handled[k] # m
                                   /\ handled' = Append(handled, m)
          /\ UNCHANGED <<queued, taken>>

Next == Enqueue \/ Take \/ Handle

Spec == Init /\ [][Next]_<<queued, taken, handled>>
=============================================================================
