------------------------------- MODULE MCBank -------------------------------
(* Bank for TLC: two customers, who move one rupee or two. *)
EXTENDS Bank

CONSTANTS Asha, Ravi

MCIds == {Asha, Ravi}
=============================================================================
