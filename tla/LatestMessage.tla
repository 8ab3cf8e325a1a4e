----------------------------- MODULE LatestMessage -----------------------------
(***************************************************************************)
(* What one direction of the transport promises at most: messages are      *)
(* posted in order, and each non-empty showing tells of messages no newer  *)
(* than the last one posted and no older than the newest one told before.  *)
(* A message may be skipped, shown again, or mixed with the next ones;     *)
(* what was replaced never comes back.                                     *)
(***************************************************************************)
EXTENDS Naturals

CONSTANT MaxMsg

VARIABLES posted,  \* number of messages posted
          shown    \* oldest and newest message of the last showing

Init == posted = 0 /\ shown = [oldest |-> 0, newest |-> 0]

Post == /\ posted < MaxMsg
        /\ posted' = posted + 1
        /\ UNCHANGED shown

Show == /\ \E old \in shown.newest .. posted : \E new \in old .. posted :
              shown' = [oldest |-> old, newest |-> new]
        /\ UNCHANGED posted

Next == Post \/ Show

Spec == Init /\ [][Next]_<<posted, shown>>
=============================================================================
