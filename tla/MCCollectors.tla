---------------------------- MODULE MCCollectors ----------------------------
(* Instances of Collectors: one of each kind of row that the collectors tell *)
(* apart.                                                                    *)
EXTENDS Collectors

Of(fits, did) == [fits |-> fits, did |-> did, timed |-> TRUE, legible |-> TRUE]

HuorongRows == {Of({"hash"}, "removed"),
                [Of({"process"}, "detected") EXCEPT !.timed = FALSE]}
DefenderRows == {Of({"path"}, "removed"), Of({"process"}, "allowed"),
                 Of({"threat"}, "detected"), Of({"path"}, "none"),
                 [Of({"path"}, "removed") EXCEPT !.legible = FALSE]}
QihooRows == {Of({"path"}, "removed"), Of({"hash"}, "detected"),
              Of({"threat"}, "detected")}

Rows == [p \in LogProducts |->
            CASE p = "huorong" -> HuorongRows
              [] p = "windows-defender" -> DefenderRows
              [] p = "qihoo-360" -> QihooRows]

=============================================================================
