-------------------------- MODULE MCMessagePorts --------------------------
(* Two channels; one of the four ports starts in another thread. *)
EXTENDS MessagePorts

CONSTANTS a1, a2, b1, b2, t1, t2

MCPeer == [p \in {a1, a2, b1, b2} |->
             CASE p = a1 -> a2 [] p = a2 -> a1 [] p = b1 -> b2 [] OTHER -> b1]
MCHome == [p \in {a1, a2, b1, b2} |-> IF p = a2 THEN t2 ELSE t1]
=============================================================================
