----------------------------- MODULE RequestReply ------------------------------
(***************************************************************************)
(* What a client and a server that answers whatever it is shown promise    *)
(* one another at most.  The server sees requests that were made, the      *)
(* client answers to what the server has seen; a showing may skip, repeat  *)
(* or mix requests, and neither its oldest nor its newest one is older     *)
(* than that of the showing before.                                        *)
(***************************************************************************)
EXTENDS Naturals

CONSTANT MaxRequest

VARIABLES made,     \* number of requests made
          seen,     \* oldest and newest request the server was last shown
          answered  \* oldest and newest request the client was last shown

Span(k) == [oldest |-> k, newest |-> k]

\* No older than p and no newer than q.
Between(p, q) ==
  {s \in [oldest : p.oldest .. q.oldest, newest : p.newest .. q.newest] : s.oldest <= s.newest}

Init == made = 0 /\ seen = Span(0) /\ answered = Span(0)

Make == /\ made < MaxRequest
        /\ made' = made + 1
        /\ UNCHANGED <<seen, answered>>

See == /\ seen' \in Between(seen, Span(made))
       /\ UNCHANGED <<made, answered>>

BeAnswered == /\ answered' \in Between(answered, seen)
              /\ UNCHANGED <<made, seen>>

Next == Make \/ See \/ BeAnswered

Spec == Init /\ [][Next]_<<made, seen, answered>>
=============================================================================
