----------------------------- MODULE MCAccounts -----------------------------
(* Accounts for TLC: the administrator and two customers. *)
EXTENDS Accounts, TLC

CONSTANTS Admin, Asha, Ravi

MCIds == {Admin, Asha, Ravi}

Symmetry == Permutations({Asha, Ravi})

\* In half-paise: INR 250.125, which round2 has to round and no account may be
\* opened with; and INR 50,000, the savings limit, half of SALARY's and a quarter of
\* CURRENT's.
MCAmounts == {50025, 10000000}

\* INR 50,000.01: a paisa more than SAVINGS accepts in a day.
OverLimitAmounts == {10000002}
=============================================================================
