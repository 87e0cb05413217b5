--------------------------- MODULE MCBatchInputs ---------------------------
(* Two files and two samples; --all, and one index.                          *)
EXTENDS BatchInputs

Selected == {[wants |-> {}, max |-> 2], [wants |-> {2}, max |-> 1]}

\* Two distinct samples, and one sample twice.
Scanned == {<<2, 1>>, <<1, 1>>}

Brought == {<<1, 2>>}
Edited == {<<1, 2>>, <<2, 1>>, <<2>>}
=============================================================================
