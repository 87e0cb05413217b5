--------------------------- MODULE MCInstanceUse ---------------------------
(* Batches b1 and b2 on instance i1 and, in the larger run, b3 on i2; a      *)
(* standalone run s1 on i1.                                                  *)
EXTENDS InstanceUse, TLC

CONSTANTS p1, p2, p3, b1, b2, b3, i1, i2, s1

OwnBatches == [p \in Procs |-> IF p = p1 THEN b1 ELSE IF p = p2 THEN b2 ELSE b3]
OneBatch == p1 :> b1 @@ p2 :> b1
Shared == [b \in Batches |-> IF b = b3 THEN i2 ELSE i1]
OnFirst == [s \in Singles |-> i1]

=============================================================================
