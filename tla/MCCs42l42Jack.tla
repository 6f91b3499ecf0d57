------------------------------ MODULE MCCs42l42Jack ------------------------------
(* The plugs and the bounds of Cs42l42Jack for TLC; Dolphin has two chips. *)
EXTENDS Cs42l42Jack
PlugsOf == [b \in Boards |-> IF b = "dell" THEN {"CTIA", "HEADPHONE"} ELSE {"OMTP"}]
Three == [b \in Boards |-> IF b = "dell" THEN 3 ELSE 1]
One == [b \in Boards |-> 1]
=============================================================================
