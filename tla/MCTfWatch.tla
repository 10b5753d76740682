----------------------------- MODULE MCTfWatch -----------------------------
(* A frame with two possible parents, and one that is never broadcast.     *)
EXTENDS TfWatch

MCEdges == {[parent |-> "a", child |-> "b"], [parent |-> "c", child |-> "b"]}
MCExpected == {{}, {"c", "d"}}
Place == [a |-> 1, b |-> 2, c |-> 3, d |-> 4]
MCLess(f, g) == Place[f] < Place[g]
=============================================================================
