------------------------------ MODULE Accounts ------------------------------
(***************************************************************************)
(* The account engine: account.c and the ledger of transaction.c, one       *)
(* action per operation main.c, auth.c and admin.c call.  An operation runs *)
(* to its end before the next starts (the program has one thread); signals  *)
(* and crashes inside one are the subject of another module.                *)
(*                                                                          *)
(*   accounts  g_accounts, as a function from the ids in use                *)
(*   ledger    the calls of txn_record for each id (every reader of         *)
(*             data/transactions.log filters it by account id); the file     *)
(*             holds the records of those that are written                  *)
(*   today     the local date                                               *)
(*   opened    history: the calls for the id before it was created          *)
(*                                                                          *)
(* A call the code refuses before it changes anything is a stuttering step. *)
(***************************************************************************)
EXTENDS AccountOps, Sequences, FiniteSets, FiniteSetsExt, Functions

CONSTANTS Ids,          \* the account ids
          AdminId,      \* ADMIN_ID
          MaxAccounts,  \* MAX_ACCOUNTS
          MinInitial,   \* the initial deposit menu_register asks for
          Amounts,      \* the amounts users type
          MaxEntries,   \* bound: calls of txn_record
          MaxLost,      \* bound: calls whose record does not get into the file
          MaxDay        \* bound: days

ASSUME IdsAssumption == AdminId \in Ids /\ IsFiniteSet(Ids)
ASSUME InputsAssumption == Amounts \subseteq Nat /\ MinInitial \in Nat /\ MinDeposit <= MinInitial

VARIABLES accounts, ledger, today, opened
vars == <<accounts, ledger, today, opened>>

Customers == Ids \ {AdminId}

Entry == [type   : {"DEPOSIT", "WITHDRAW", "TRANSFER", "INTEREST"},
          inward : BOOLEAN,     \* what the note says: money in or money out
          amount : Nat,
          after  : Nat,         \* balance_after
          day    : Nat,         \* the date of the timestamp
          written : BOOLEAN]    \* whether the file got the record

TypeOK ==
  /\ DOMAIN accounts \subseteq Ids
  /\ accounts \in [DOMAIN accounts -> Account]
  /\ ledger \in [Ids -> Seq(Entry)]
  /\ today \in Nat \ {0}
  /\ opened \in [Ids -> Nat]

-----------------------------------------------------------------------------
With(f, i, a) == [j \in DOMAIN f \cup {i} |-> IF j = i THEN a ELSE f[j]]
Without(f, i) == [j \in DOMAIN f \ {i} |-> f[j]]

\* What an operation that moved x and left a logs.
\* Mutant: the amount is rounded to the paisa.
Record_Rounded(type, inward, x, a, w) ==
  [type |-> type, inward |-> inward, amount |-> Round2(x), after |-> a.balance, day |-> today,
   written |-> w]

Record(type, inward, x, a, w) ==
  [type |-> type, inward |-> inward, amount |-> x, after |-> a.balance, day |-> today,
   written |-> w]

Room(n) == MapThenSumSet(LAMBDA i : Len(ledger[i]), Ids) + n <= MaxEntries

LostOf(i) == Cardinality({k \in DOMAIN ledger[i] : ~ledger[i][k].written})

\* txn_record's append fails when the file cannot be opened or written; nobody
\* looks at its result, and the operation goes on as if it had not.
Outcomes == {w \in BOOLEAN : w \/ MapThenSumSet(LostOf, Ids) < MaxLost}

\* A record of i is stored in place and, if the operation succeeded, logged.
Store(i, a) == accounts' = [accounts EXCEPT ![i] = a]

Log(i, e) == ledger' = [ledger EXCEPT ![i] = Append(@, e)]

-----------------------------------------------------------------------------
Init ==
  /\ accounts = [i \in {AdminId} |-> NewAccount("CURRENT")]
  /\ ledger = [i \in Ids |-> <<>>]
  /\ today = 1
  /\ opened = [i \in Ids |-> 0]

\* acct_deposit.  The day's counter is reset before the limit is tested, so a
\* refused deposit may still leave a changed record.
Deposit(i, x) ==
  /\ i \in DOMAIN accounts \ {AdminId}
  /\ MayMove(accounts[i])
  /\ ValidAmount(x)
  /\ Room(1)
  /\ LET a == ResetDaily(accounts[i], today)
         b == Count(Credit(a, x), x)
     IN  \/ /\ WithinLimit(a, x)
            /\ Store(i, b)
            /\ \E w \in Outcomes : Log(i, Record("DEPOSIT", TRUE, x, b, w))
         \/ /\ ~WithinLimit(a, x)
            /\ Store(i, a)
            /\ UNCHANGED ledger
  /\ UNCHANGED <<today, opened>>

Withdraw(i, x) ==
  /\ i \in DOMAIN accounts \ {AdminId}
  /\ MayMove(accounts[i])
  /\ ValidAmount(x)
  /\ Room(1)
  /\ LET a == ResetDaily(accounts[i], today)
         b == Count(Debit(a, x), x)
     IN  \/ /\ Affordable(a, x)
            /\ Store(i, b)
            /\ \E w \in Outcomes : Log(i, Record("WITHDRAW", FALSE, x, b, w))
         \/ /\ ~Affordable(a, x)
            /\ Store(i, a)
            /\ UNCHANGED ledger
  /\ UNCHANGED <<today, opened>>

\* acct_transfer.  Only the sender's limit is tested and only the sender's
\* counter grows; a LOCKED recipient is paid.
Transfer(i, j, x) ==
  /\ i \in DOMAIN accounts \ {AdminId}
  /\ j \in DOMAIN accounts \ {i}
  /\ MayMove(accounts[i])
  /\ MayMove(accounts[j])
  /\ ValidAmount(x)
  /\ Room(2)
  /\ LET a == ResetDaily(accounts[i], today)
         b == Count(Debit(a, x), x)
         c == Credit(accounts[j], x)
     IN  \/ /\ Affordable(a, x)
            /\ accounts' = [accounts EXCEPT ![i] = b, ![j] = c]
            /\ \E v, w \in Outcomes :
                 ledger' = [ledger EXCEPT
                              ![i] = Append(@, Record("TRANSFER", FALSE, x, b, v)),
                              ![j] = Append(@, Record("TRANSFER", TRUE, x, c, w))]
         \/ /\ ~Affordable(a, x)
            /\ Store(i, a)
            /\ UNCHANGED ledger
  /\ UNCHANGED <<today, opened>>

\* acct_apply_interest_all: every account that earns some is credited, and its
\* append succeeds or fails by itself.
Earning == {i \in DOMAIN accounts : EarnsInterest(accounts[i])}

WithInterest(a) == Credit(a, MonthlyInterest(a))

ApplyInterestAll ==
  /\ Room(Cardinality(Earning))
  /\ accounts' = [i \in DOMAIN accounts |->
                    IF i \in Earning THEN WithInterest(accounts[i]) ELSE accounts[i]]
  /\ \E W \in [Earning -> Outcomes] :
       ledger' = [i \in Ids |->
                    IF i \in Earning
                    THEN Append(ledger[i], Record("INTEREST", TRUE, MonthlyInterest(accounts[i]),
                                                  WithInterest(accounts[i]), W[i]))
                    ELSE ledger[i]]
  /\ UNCHANGED <<today, opened>>

\* The end of menu_register: acct_create, then acct_deposit with its return
\* code dropped, so an initial deposit over the daily limit leaves an account
\* with no money in it.
Register(i, type, x) ==
  /\ i \in Customers \ DOMAIN accounts
  /\ Cardinality(DOMAIN accounts) < MaxAccounts
  /\ MinInitial <= x /\ x <= MaxSingleTxn
  /\ Room(1)
  /\ LET a == ResetDaily(NewAccount(type), today)
         b == Count(Credit(a, x), x)
     IN  \/ /\ WithinLimit(a, x)
            /\ accounts' = With(accounts, i, b)
            /\ \E w \in Outcomes : Log(i, Record("DEPOSIT", TRUE, x, b, w))
         \/ /\ ~WithinLimit(a, x)
            /\ accounts' = With(accounts, i, a)
            /\ UNCHANGED ledger
  /\ opened' = [opened EXCEPT ![i] = Len(ledger[i])]
  /\ UNCHANGED today

\* admin_delete_account: any balance, any status, never the administrator.
\* The records of the id stay in the log.
Delete(i) ==
  /\ i \in DOMAIN accounts \ {AdminId}
  /\ accounts' = Without(accounts, i)
  /\ UNCHANGED <<ledger, today, opened>>

SetStatus(i, from, to) ==
  /\ accounts[i].status \in from
  /\ Store(i, [accounts[i] EXCEPT !.status = to])
  /\ UNCHANGED <<ledger, today, opened>>

Freeze(i)   == i # AdminId /\ SetStatus(i, {"ACTIVE", "LOCKED"}, "FROZEN")
Unfreeze(i) == SetStatus(i, {"FROZEN"}, "ACTIVE")
Lock(i)     == SetStatus(i, {"ACTIVE"}, "LOCKED")

NextDay ==
  /\ today < MaxDay
  /\ today' = today + 1
  /\ UNCHANGED <<accounts, ledger, opened>>

Next ==
  \/ \E i \in Customers, type \in AccountType, x \in Amounts : Register(i, type, x)
  \/ \E i \in DOMAIN accounts, x \in Amounts : Deposit(i, x)
  \/ \E i \in DOMAIN accounts, x \in Amounts : Withdraw(i, x)
  \/ \E i, j \in DOMAIN accounts, x \in Amounts : Transfer(i, j, x)
  \/ ApplyInterestAll
  \/ \E i \in DOMAIN accounts : Delete(i)
  \/ \E i \in DOMAIN accounts : Freeze(i)
  \/ \E i \in DOMAIN accounts : Unfreeze(i)
  \/ \E i \in DOMAIN accounts : Lock(i)
  \/ NextDay

Spec == Init /\ [][Next]_vars

-----------------------------------------------------------------------------
(* What the screens show. *)

\* user_view_balance: what is left of the day's limit, by the counter as it is
\* stored and the screen's own choice of the limit.
\* Mutant: the screen gives CURRENT accounts' limit to all but SAVINGS.
ShownLimit_Current(type) == IF type = "SAVINGS" THEN SavingsLimit ELSE CurrentLimit

ShownLimit(type) ==
  CASE type = "SAVINGS" -> SavingsLimit
    [] type = "CURRENT" -> CurrentLimit
    [] OTHER            -> SalaryLimit

ShownRemaining(a) == ShownLimit(a.type) - a.daily

\* admin_system_analytics: the loop passes over the administrator, the totals of
\* account.c do not.
\* Mutant: the loop counts the administrator.
Counted_All == DOMAIN accounts

Counted == DOMAIN accounts \ {AdminId}

CountOf(status) == Cardinality({i \in Counted : accounts[i].status = status})

TotalAccounts  == Cardinality(DOMAIN accounts) - 1
TotalFunds     == SumFunctionOnSet([i \in DOMAIN accounts |-> accounts[i].balance], Counted)
TotalDeposited == SumFunction([i \in DOMAIN accounts |-> accounts[i].deposited])
TotalWithdrawn == SumFunction([i \in DOMAIN accounts |-> accounts[i].withdrawn])

-----------------------------------------------------------------------------
(* Properties *)

\* The balance before record k of an id's log: the one the record before left,
\* or 0 if k is the first record since the account was opened, after record o.
Before(log, o, k) == IF k = o + 1 THEN 0 ELSE log[k - 1].after

Moved(e, before) == IF e.inward THEN Round2(before + e.amount) ELSE Round2(before - e.amount)

\* A statement adds up where no append failed: from the opening of an account
\* on, a record of the file whose predecessor is in the file too carries the
\* balance that one left, moved by the record's own amount; and unless the last
\* append failed, the last record carries the balance g_accounts holds.
\* (acct_deposit, acct_withdraw, acct_transfer and acct_apply_interest update
\* the account and call txn_record separately, and drop its result.)
InFile(log, o, k) == k = o \/ log[k].written

AddsUp(log, o, balance) ==
  /\ \A k \in o + 1 .. Len(log) :
       InFile(log, o, k - 1) /\ log[k].written => log[k].after = Moved(log[k], Before(log, o, k))
  /\ InFile(log, o, Len(log)) => balance = Before(log, o, Len(log) + 1)

StatementAddsUp ==
  \A i \in DOMAIN accounts : AddsUp(ledger[i], opened[i], accounts[i].balance)

\* No type's daily limit is ever exceeded by the running total of the day,
\* roundings included (acct_check_daily_limit tests the unrounded sum).
DailyTotalWithinLimit ==
  \A i \in DOMAIN accounts : accounts[i].daily <= DailyLimit(accounts[i].type)

\* What the counter is for: the amounts an account deposited, withdrew or sent
\* on one day, whether their records got into the file or not, never sum to more
\* than its limit.
Limited(e) == e.type \in {"DEPOSIT", "WITHDRAW"} \/ (e.type = "TRANSFER" /\ ~e.inward)

LimitedOn(log, o, d) == {k \in o + 1 .. Len(log) : log[k].day = d /\ Limited(log[k])}

Spent(log, o, d) ==
  SumFunctionOnSet([k \in DOMAIN log |-> log[k].amount], LimitedOn(log, o, d))

DailyLimitHonoured ==
  \A i \in DOMAIN accounts, d \in 1 .. today :
    Spent(ledger[i], opened[i], d) <= DailyLimit(accounts[i].type)

\* README:136, "Dual tracking of total_deposited vs total_withdrawn": the
\* balance is the difference of the two totals as long as every amount was a
\* whole number of paise.  (Half a paisa is rounded up both in the balance that
\* a withdrawal leaves and in the total: the two then drift apart.)
Balanced(a) == a.balance = a.deposited - a.withdrawn

WholeSince(log, o) == \A k \in o + 1 .. Len(log) : Whole(log[k].amount)

Reconciled ==
  \A i \in DOMAIN accounts : WholeSince(ledger[i], opened[i]) => Balanced(accounts[i])

\* The analytics agree with each other and with the accounts: the statuses add up
\* to the total; and while amounts are whole paise, deposits less withdrawals are the
\* funds and what was transferred to the administrator, whom only the totals count
\* (admin.c:404), whatever was deleted, frozen or reopened.
DashboardReconciles ==
  /\ SumFunction([s \in AccountStatus |-> CountOf(s)]) = TotalAccounts
  /\ (\A i \in DOMAIN accounts : WholeSince(ledger[i], opened[i])) =>
       TotalDeposited - TotalWithdrawn = TotalFunds + accounts[AdminId].balance

\* What the balance screen shows as remaining is never more than the engine accepts
\* (main.c:417): a counter left over from an earlier day shows too little.  An
\* account whose type was never chosen is left to the next property.
Usable(a) ==
  /\ ShownRemaining(a) >= 0
  /\ WithinLimit(ResetDaily(a, today), ShownRemaining(a))

RemainingIsUsable ==
  \A i \in DOMAIN accounts : accounts[i].type # "UNSET" => Usable(accounts[i])

\* README:77, "remaining daily limit display": what is shown is what is left, for
\* every account.  One whose type was never chosen is shown SALARY's limit and held
\* to SAVINGS' (violated).
EveryRemainingIsUsable == \A i \in DOMAIN accounts : Usable(accounts[i])

\* A frozen account is inert until it is unfrozen: no deposit, withdrawal,
\* transfer from either side or interest batch moves its money or its counter
\* or calls txn_record for it.
Money(a) == <<a.balance, a.deposited, a.withdrawn, a.daily>>

FrozenIsInert ==
  [][\A i \in DOMAIN accounts \cap DOMAIN accounts' :
       accounts[i].status = "FROZEN" =>
         Money(accounts'[i]) = Money(accounts[i]) /\ ledger'[i] = ledger[i]]_vars

\* When one account loses money in the step in which another gains some, and
\* the amount is a whole number of paise, the pair keeps its sum: acct_transfer's
\* two halves agree.
TransferConserves ==
  [][\A i, j \in DOMAIN accounts \cap DOMAIN accounts' :
       /\ accounts'[i].balance < accounts[i].balance
       /\ accounts'[j].balance > accounts[j].balance
       /\ Whole(ledger'[i][Len(ledger'[i])].amount)
       => accounts'[i].balance + accounts'[j].balance =
            accounts[i].balance + accounts[j].balance]_vars

\* main.c:305 asks for an initial deposit of at least MinInitial, and
\* main.c:383 reports success: every account opened holds that much.
OpenedWithInitialDeposit ==
  [][\A i \in DOMAIN accounts' \ DOMAIN accounts : accounts'[i].balance >= MinInitial]_vars
=============================================================================
