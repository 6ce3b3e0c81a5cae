------------------------- MODULE MCBuffereventSock -------------------------
(* Two configurations for the buckets: one byte per tick and at most two,   *)
(* and two bytes per tick and at most three.                                *)
EXTENDS BuffereventSock

MCRate == [c \in {1, 2} |-> c]
MCBurst == [c \in {1, 2} |-> c + 1]

=============================================================================
