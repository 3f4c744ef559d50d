---------------------------- MODULE MCMeshRouter ----------------------------
(* Packets a and b go to node n1, c goes to n2.  b outranks a when it is      *)
(* first sent, and loses that rank when it is sent again.                     *)
EXTENDS MeshRouter

CONSTANTS a, b, c, n1, n2

Two == {a, b}
Three == {a, b, c}
One == {n1}
Both == {n1, n2}

MCDest == [id \in Packet |-> IF id = c THEN n2 ELSE n1]
MCOptionPriority == [id \in Packet |-> IF id = b THEN 2 ELSE 1]
MCPacketPriority == [id \in Packet |-> IF id = c THEN 2 ELSE 1]

\* What the queues depend on when nothing is answered (MaxReplies = 0): neither the
\* statistics nor the ghosts of the radio are read by any guard then.
QueueView == <<pending, inflight, stored, status, clocks, flush, sent>>

=============================================================================
