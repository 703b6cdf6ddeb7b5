------------------------------- MODULE MCTcp --------------------------------
(* Tcp with one connection: a client socket and one of accept.              *)
EXTENDS Tcp

CONSTANTS c, a

\* Numbers that tell the two directions apart.
MCIss == [x \in {c, a} |-> IF x = c THEN 0 ELSE 40]
=============================================================================
