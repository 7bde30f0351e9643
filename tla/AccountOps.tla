----------------------------- MODULE AccountOps -----------------------------
(***************************************************************************)
(* The arithmetic of account.c on one account record, as pure operators.    *)
(*                                                                          *)
(* Money is counted in half-paise.  The C code holds INR amounts in doubles *)
(* and rounds every stored amount to the paisa with round2, so a stored     *)
(* amount is an even number here, and an odd number is an amount typed with *)
(* a third decimal, the smallest input on which round2 acts.  The error of  *)
(* binary fractions below that is left out.                                 *)
(***************************************************************************)
EXTENDS Integers

CONSTANTS SavingsLimit, CurrentLimit, SalaryLimit,  \* account.h: DAILY_LIMIT_*
          MinDeposit, MaxSingleTxn,                 \* account.h: MIN_DEPOSIT, MAX_SINGLE_TXN
          SavingsRate, SalaryRate                   \* account.h: INTEREST_*, in half percents

Whole(x) == x % 2 = 0

ASSUME LimitsAssumption ==
  \A l \in {SavingsLimit, CurrentLimit, SalaryLimit} : l \in Nat /\ Whole(l)

ASSUME AmountsAssumption ==
  /\ MinDeposit \in Nat \ {0}
  /\ MaxSingleTxn \in Nat
  /\ SavingsRate \in Nat
  /\ SalaryRate \in Nat

-----------------------------------------------------------------------------
\* "UNSET" is the type 0 that menu_register stores when read_int rejects the
\* answer; "" is the date of a record no limited operation has touched yet.

AccountType   == {"UNSET", "SAVINGS", "CURRENT", "SALARY"}
AccountStatus == {"ACTIVE", "FROZEN", "CLOSED", "LOCKED"}

Account == [type      : AccountType,
            status    : AccountStatus,
            balance   : Nat,
            daily     : Nat,      \* daily_txn_total
            date      : Nat,      \* daily_txn_date; 0 is the empty string
            deposited : Nat,      \* total_deposited
            withdrawn : Nat]      \* total_withdrawn

NewAccount(type) ==
  [type |-> type, status |-> "ACTIVE", balance |-> 0, daily |-> 0, date |-> 0,
   deposited |-> 0, withdrawn |-> 0]

-----------------------------------------------------------------------------
\* Mutant: adds a paisa instead of half of one before the floor.
Round2_AddsOne(x) == 2 * ((x + 2) \div 2)

Round2(x) == 2 * ((x + 1) \div 2)

ValidAmount(x) == MinDeposit <= x /\ x <= MaxSingleTxn

DailyLimit(type) ==
  CASE type = "CURRENT" -> CurrentLimit
    [] type = "SALARY"  -> SalaryLimit
    [] OTHER            -> SavingsLimit

\* Mutant: the date is not compared.
ResetDaily_Always(a, day) == [a EXCEPT !.daily = 0, !.date = day]

ResetDaily(a, day) ==
  IF a.date = day THEN a ELSE [a EXCEPT !.daily = 0, !.date = day]

WithinLimit(a, x) == a.daily + x <= DailyLimit(a.type)

Credit(a, x) == [a EXCEPT !.balance   = Round2(@ + x),
                          !.deposited = Round2(@ + x)]

\* What withdraw and transfer test on the paying account.
\* Mutant: the balance is not tested.
Affordable_NoBalance(a, x) == WithinLimit(a, x)

Affordable(a, x) == WithinLimit(a, x) /\ x <= a.balance

\* Mutant: total_withdrawn is forgotten.
Debit_NoTotal(a, x) == [a EXCEPT !.balance = Round2(@ - x)]

Debit(a, x) == [a EXCEPT !.balance   = Round2(@ - x),
                         !.withdrawn = Round2(@ + x)]

Count(a, x) == [a EXCEPT !.daily = Round2(@ + x)]

\* One month's interest, rounded to the paisa: rate/2 percent of the balance
\* over twelve months.  Every type but SAVINGS and CURRENT earns SalaryRate.
MonthlyInterest(a) ==
  LET rate == IF a.type = "SAVINGS" THEN SavingsRate ELSE SalaryRate
  IN  2 * ((a.balance * rate + 2400) \div 4800)

EarnsInterest(a) ==
  /\ a.status = "ACTIVE"
  /\ a.type # "CURRENT"
  /\ MonthlyInterest(a) > 0

\* The status tests shared by deposit, withdraw and both ends of a transfer.
\* Mutant: only CLOSED is tested.
MayMove_Frozen(a) == a.status # "CLOSED"

MayMove(a) == a.status \notin {"FROZEN", "CLOSED"}
=============================================================================
