----------------------------- MODULE MCTerminal -----------------------------
(* Terminal for TLC: PINs of three characters, lines of two, answers of five keys. *)
EXTENDS Terminal
=============================================================================
