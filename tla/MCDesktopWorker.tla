-------------------------- MODULE MCDesktopWorker --------------------------
(* Two cases, of which the first has two leases and two poll threads.        *)
EXTENDS DesktopWorker, TLC

CONSTANTS c1, c2, l1, l2, l3, p1, p2, p3

LeaseCases == l1 :> c1 @@ l2 :> c1 @@ l3 :> c2
SecondFails == [l \in Leases |-> IF l = l2 THEN "error" ELSE "clean"]
PolledCases == [p \in Pollers |-> IF p = p3 THEN c2 ELSE c1]

=============================================================================
