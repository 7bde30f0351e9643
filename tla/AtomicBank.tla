----------------------------- MODULE AtomicBank -----------------------------
(***************************************************************************)
(* What the bank promises about money: a deposit, a withdrawal, a transfer   *)
(* or a month's interest happens as a whole; a save keeps everything done so  *)
(* far; a stop takes the bank back to its last save.                         *)
(***************************************************************************)
EXTENDS Integers

CONSTANTS Ids, Amounts

VARIABLES current, saved, ops   \* ops: how many operations there have been
vars == <<current, saved, ops>>

Init ==
  /\ current = [i \in Ids |-> 0]
  /\ saved = current
  /\ ops = 0

Deposit(i, x) == current' = [current EXCEPT ![i] = @ + x]

Withdraw(i, x) == x <= current[i] /\ current' = [current EXCEPT ![i] = @ - x]

Transfer(i, j, x) ==
  x <= current[i] /\ current' = [current EXCEPT ![i] = @ - x, ![j] = @ + x]

Interest(S) == current' = [i \in Ids |-> IF i \in S THEN current[i] + 1 ELSE current[i]]

Operation ==
  /\ \/ \E i \in Ids, x \in Amounts : Deposit(i, x) \/ Withdraw(i, x)
     \/ \E i \in Ids, x \in Amounts : \E j \in Ids \ {i} : Transfer(i, j, x)
     \/ \E S \in SUBSET {i \in Ids : current[i] > 0} : Interest(S)
  /\ ops' = ops + 1
  /\ UNCHANGED saved

Save == saved' = current /\ UNCHANGED <<current, ops>>

Stop == current' = saved /\ UNCHANGED <<saved, ops>>

Next == Operation \/ Save \/ Stop

Spec == Init /\ [][Next]_vars
=============================================================================
