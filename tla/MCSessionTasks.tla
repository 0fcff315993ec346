--------------------------- MODULE MCSessionTasks ---------------------------
(* Sessions as model values. *)
EXTENDS SessionTasks

CONSTANTS s1, s2, s3, s4

=============================================================================
