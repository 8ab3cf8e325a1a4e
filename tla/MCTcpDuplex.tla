------------------------------ MODULE MCTcpDuplex ------------------------------
(* Values for the constants of TcpDuplex: the second message is a long one.  *)
EXTENDS TcpDuplex

MCBig == {2}
=============================================================================
