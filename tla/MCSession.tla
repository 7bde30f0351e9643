------------------------------ MODULE MCSession ------------------------------
(* Session for TLC: the administrator and two customers, two good PINs. *)
EXTENDS Session, TLC

CONSTANTS Admin, Asha, Ravi, Pin1, Pin2

MCFew  == {Admin, Asha}
MCIds  == {Admin, Asha, Ravi}
MCPins == {Pin1, Pin2}

Symmetry == Permutations({Asha, Ravi}) \cup Permutations(MCPins)
=============================================================================
