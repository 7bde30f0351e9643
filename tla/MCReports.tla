------------------------------ MODULE MCReports ------------------------------
(* Reports for TLC: the administrator and three accounts, two names, tails of one to three lines. *)
EXTENDS Reports, TLC

CONSTANTS Asha, Ravi, Admin, Id2, Id3, Id4

MCNames  == {Asha, Ravi}
MCIds    == {Admin, Id2, Id3, Id4}
=============================================================================
