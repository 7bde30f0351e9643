------------------------------ MODULE MCLedger ------------------------------
(* Ledger for TLC: ids that wrap after two seconds and two registrations. *)
EXTENDS Ledger
=============================================================================
