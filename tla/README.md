# SecurBank in TLA+

TLA+ models of SecurBank, a console banking program in C: accounts held in one
array, a session for one user at a time, a binary account file that is rewritten
after every operation, an append-only ledger, and screens that read PINs and answers
from a terminal. The models are translated from
the C sources; the program's README is quoted only where a property states what it
promises.

## 1. The system

The program is one process with one thread. Its only concurrency is the world
around it: a signal may run `handle_signal` between any two instructions, the
process may be killed, time passes at every prompt, keys arrive while the program is
between two prompts, and files may fail or decay.

| Part | Source | State | Operations | Correct means |
|---|---|---|---|---|
| Account engine | `account.c` | `g_accounts[]`, `g_account_count` | create, delete, deposit, withdraw, transfer, interest, freeze, unfreeze, lock, unlock, failed-PIN counter, daily counter | balances, totals, daily totals and ledger agree; frozen accounts are inert; transfers keep the money |
| Ledger | `transaction.c` | `data/transactions.log`, the counters of the ids | append, read back, mini statement | records whose appends did not fail explain each balance; a statement shows what was written, and for its own account only |
| Sessions | `auth.c` | `g_session` | login, logout, expiry, refresh, re-authentication, PIN change, bootstrap of the administrator | no role without login; lockout; nothing done after expiry |
| Admin panel | `admin.c` | none of its own | freeze, unfreeze, delete, PIN reset, interest, read-only screens | guarded by a live administrator's session |
| Menus | `main.c` | the prompt the user is at | main and user menu, registration, start, shutdown, signal handler | the same guards, around every handler |
| Account file | `database.c` | `data/accounts.dat`, `.tmp` | load, save | a save is whole or nothing; a load brings back what was saved; what an unnoticed failure of the disk costs is bounded |
| Reports | `account.c`, `admin.c` | none | sorted listing, search, analytics, balance screen | they show every account once, in order, and sums that agree |
| Logger | `logger.c` | `audit.log`, `system.log` | open, append, tail, search | opened before anything else; the tail is the newest lines in order |
| Terminal input | `utils.c` | the terminal's echo | read a line, a hidden PIN, a key | a prompt takes its own answer only; no PIN is shown; the echo comes back |
| Helpers | `security.c`, `utils.c` | none | hash, checksums, input tests, `round2` | a checksum or test accepts what it should |

How they interact: `main.c` and `admin.c` prompt, check the session with `auth.c`,
call `account.c`, which changes the array, calls `transaction.c` to append the
ledger record and returns; the caller then calls `db_save_accounts` and refreshes
the session. No caller looks at the results of `txn_record` or `db_save_accounts`.

What is hard in this code, and tested nowhere in the repository (there are no
tests): the signal handler saving half-done work, the order of memory, ledger and
file under crashes, checks of a session that are stale after prompts, statuses
that lose their history (locked, then frozen, then unfrozen), lazily reset daily
counters, rounding, ledger appends that fail unseen, ids that come back, buffers of
four sizes for the answers, and the end of the input. `PROJECT.json` lists each hazard
at its line.

## 2. Modules

| Module | Models |
|---|---|
| `AccountOps` | the arithmetic and the tests of `account.c` on one record |
| `Accounts` | `account.c` and the ledger, one action per operation; the figures of the balance screen and the analytics |
| `Session` | `auth.c`, `admin.c` and the menus, prompt by prompt |
| `AtomicBank` | abstract: every money operation is whole, a save keeps all, a stop goes back to the last save |
| `Bank` | the money operations step by step (memory, ledger, save), with crashes, signals and failing saves; implements `AtomicBank` |
| `DurableStore` | abstract: a store of accounts that is saved at once or not at all |
| `Persistence` | `database.c` call by call, start, shutdown, signals, crashes, damage; implements `DurableStore` |
| `Ledger` | `transaction.c`: appends that are lost or torn, the readers, and the ids of records and accounts |
| `Terminal` | the prompts of `main.c` and `admin.c`, and how `utils.c` reads their answers key by key |
| `Reports` | the sort, the search by name and the audit tail, loop by loop |
| `...Proofs` | the theorems about the module of that name, and the lemmas they rest on |
| `SumTheorems` | theorems about sums over finite sets, for the proofs about money |
| `MC...` | instances for TLC: the model values, the amounts, the places of signals |

### AccountOps, Accounts

`accounts` is `g_accounts` as a function from the ids in use; `ledger[i]` are the
calls of `txn_record` for id `i` (every reader of `transactions.log` filters it by id),
each with whether its record got into the file; `today` is the date
`acct_reset_daily_if_needed` compares; `opened[i]` is a history variable, the number of
calls for the id before it was created. Every handler is one action, its calls of
`txn_record` included. Each of those may fail by itself (`Outcomes`): `txn_record` does
not check `fwrite` and `fclose`, returns when `fopen` fails, and no handler looks at its
result, so the operation goes on. A refused deposit
or withdrawal may still have reset the daily counter, as in the code.

Money is counted in half-paise: stored amounts are rounded to the paisa by
`round2` and so are even, and an odd amount is one typed with a third decimal.
The error of binary fractions below that is left out. `account.c:163-164` rounds
half a paisa up both in the balance and in `total_withdrawn`, so the totals drift a
paisa from the balance when such an amount is withdrawn; `Reconciled` therefore
speaks of accounts with whole amounts only, the ledger properties of all. `round2` is
`2 * ((x + 1) \div 2)`; interest is rounded the same way from the yearly rate.
The engine itself would take a deposit on a LOCKED account: the action allows it,
as the recipient of a transfer may be locked; the menus never ask for the deposit.
An answer that is not a number gives the account type 0 ("UNSET"), which the code
treats as SAVINGS for limits and as SALARY for interest. A typed amount "nan"
passes `menu_register`'s test and is refused by the deposit, like one over the
limit; it is not an amount of the model.

`ShownRemaining` is what the balance screen prints, `TotalFunds`, `CountOf` and the
other totals what the analytics print. An account of type 0 is shown SALARY's limit
and held to SAVINGS', so `RemainingIsUsable` speaks of the other types
(section 3, README:77). The sums the
administrator sees agree only up to the balance of the administrator's own account,
which a transfer may fill and which `TotalFunds` passes over (`admin.c:404`);
`DashboardReconciles` says exactly that.

### Session

`accts` holds status, failed attempts and PIN of each account, `session` is
`g_session`, `idle` the time since its last activity, `ui` the prompt the program
waits at. A request is several steps: `Choose` (the handler's own check of the
session), the prompts, during which `Tick` may let any time pass, perhaps
`Authorise`, and the work. `Abort` is each handler's early return. PINs are values
compared for equality, which stands for equality of salted hashes. The session's
copy of the account is for display and is left out. `Restart` is a stop at a
prompt and a new start; it keeps the accounts.

### Bank

An operation is a sequence of steps, `todo`: moves of one balance in memory,
appends to the ledger, and the save that the caller makes at the end. `DoMove`,
`DoRecord` and `DoSave` execute its head. `DoRecord` is a call of `txn_record`, whose
append may fail unnoticed (`written`). `Crash` may come between any two steps.
`Signal` replaces what is left by one save and an exit. A save may fail, which
nobody notices either. Each call has a history field `fate`: `pending` until a
save has kept its operation, then `kept`, or `lost` when the process ended first.
How much interest an account earns and when an operation is refused for its status
or limit is `Accounts`' matter: here interest is one unit, for any set of accounts
that have a balance.

The abstraction to `AtomicBank` takes an operation as done when it begins: the
abstract balance is the one in memory plus the moves still in `todo`.

### Persistence

`mem` is the array, `db` and `tmp` the two files, `pc` the place in the program
between two calls that may fail or be interrupted. A record is an id, a revision
standing for all other fields, and whether its checksum matches. A save is
`fopen`, the `fwrite`s, `fclose`, `rename`; each may fail and is followed by what
the code does then. What else the disk fails at is the constant `Faults`: opening the log
files, so that the program refuses to start; opening the account file, which the code
takes for a first run whatever the reason; reading it, which ends the load as the end of
the file does; flushing what `fclose` writes, which the code does not notice and follows
with the rename. The variable `fault` is history: which such failure the next save may make
lasting. `DurableStore` has the same as `trouble`, and says what it may cost. `acct_delete`'s loop is a step per record moved. `Halt` is
every end of the process. What is left in `.tmp` after a save was given up is
truncated by the next one and never read, so it is not kept. Every change of the
array is followed by a save, except the one of a refused operation. That no record
with a bad checksum is ever in the array is a part of `TypeOK`.

### Ledger

A record in the file is a sequence of `Cells` cells, the account id in the first, and the
other account of a transfer in those of `NamesOther`: `counterpart_id`, and the end of the
note "Transfer to ..." that `acct_transfer` gives it, which is the same id. The
file is the cells of all appends one after the other, whatever record they belong to.
An append writes any number of its cells: all of them (`fwrite` and `fclose` went
well), none (`fopen` failed, or nothing fitted on the disk), or some. The readers take
the file `Cells` cells at a time, as `fread` does with `sizeof(Transaction)`, so behind
a torn append they see records made of two, and compare whatever bytes stand where the
account id would (`OwnRecord`): a later record's counterpart may be one. The notes that
customers type are taken not to end in an account id. `calls` is history: the calls of
`txn_record` in order, with how much each wrote; a cell names the call it is of.
`Those` is the loop that collects an account's records, `MiniStatement` the loop of
`txn_get_mini_statement`'s window over them; both are functions of the number of turns. `AccountId` keeps of the clock and of the counter what the formats of
`acct_generate_id` keep of them, `TransactionId` the date and the counter; both
counters are static and start again with the process. Refusals belong to `Accounts`
and failing saves to `Bank`: here amounts are within the limits and saves succeed.

### Terminal

`Script` gives the prompts of each request in order. A prompt has a way it is read
(`safe_read_line`, `read_pin_hidden`, or a pause's single `getchar`), a buffer, and what
the handler does with an empty answer: refuse it at once, refuse it after the later
prompts (the PIN change asks for all three first), or take it. What else an answer may
lead to is left open. The person types an answer to the prompt on the screen
(`Answer`, `Type`) while the program reads (`ReadKey`), and may be the slower or the
faster of the two; what a prompt leaves unread is read by the next. `HangUp` ends the
input, `Interrupt` is the interrupt key with its `exit`, `Start` a new run in a
terminal that the shell may or may not have set right. The terminal itself edits
lines and turns carriage returns into newlines, so an answer to a line prompt holds no
erasures. Nobody types ahead of a prompt. All line buffers have one length;
a line and a PIN have room for more than one character, as in `utils.h`.
`legal` remembers that every answer fitted its prompt; a person who types past the
end of a PIN sees the excess go to the next prompt, which the code does not prevent.

### Reports

`Compare`, `Exchange`, `Examine` and `ReadLine` are one turn each of the loops of
`acct_sort_by_balance`, `acct_find_by_name` and `log_print_audit_tail`, with the
code's own indexes counted from 1. Between reports `Open`, `Delete` and `Pay` bring the
array into any order other requests can leave it in; each request adds a line to the
log. A line is its number, so that "newest, in order" is a statement about numbers.
The range that `read_int` accepts, and what an answer outside of it becomes, is in
`LinesFor`.

## 3. Runs

Passing runs:

| Run | Shows | Bounds |
|---|---|---|
| `Accounts` | `StatementAddsUp`, `DailyLimitHonoured`, `Reconciled`, `DashboardReconciles`, `RemainingIsUsable`, `FrozenIsInert`, `TransferConserves` | administrator and two customers, four calls of `txn_record` of which one may fail, two days, the program's own limits, two amounts: one with a third decimal, and one that uses up the limit of SAVINGS at once, of SALARY in two steps and of CURRENT in four |
| `Session` | `SessionSound`, `AdminLockIsForever`, `PinChangesAuthorised`, `SuspensionIsFresh`, `GuessesAreCounted` | administrator and two customers, two PINs and the default one, a timeout of two ticks, four attempts counted |
| `Bank` | `LedgerExplainsBalances`, `TransfersKeptWhole`, `Atomic` (implements `AtomicBank`) | two customers, amounts 1 and 2, three operations, any number of stops and of failed appends and saves |
| `Persistence` | `UniqueIds`, `SaveIsWhole`, `Durable` (implements `DurableStore`), `PromptOrStop` | four ids for an array of three, the disk failing at all four `Faults`, one revised record in memory and one damaged in the file at a time |
| `Ledger` | `StatementIsNewest`, `WrittenIsRead`, `MisreadOnlyBehindTorn`, `LastLineIsBalance`, `TxnIdsRepeatAcrossRunsOnly`, `StrangersLinesAreRare` | four appends of which two may fail, records of two cells, the other account in the second, a window of three and statements of two lines, ids that wrap after two seconds and two registrations, two runs |
| `Terminal` | `OnlyEnterIsLeftOver`, `PinMasked`, `EchoComesBack`, `EofEndsInMenu`, `EofConfirmsNothing` | every request of the program, PINs of three characters, lines of two, answers of up to five keys |
| `Reports` | `ListingIsSorted`, `PrintedIsExact` | four accounts, three balances, two names, room for one result, tails of one to three lines, a log of six |

Each run also checks its module's `TypeOK`.

Why the bounds are enough: every operation reads and writes at most two accounts,
and interest each one alone; four calls let an id be opened, used, deleted and
opened again, use up a limit on one day and again on the next, have a failed append between
two that do not fail, or let two customers open accounts and one pay the other, frozen
before or not. One tick more
than the timeout is all the code distinguishes, one attempt more than the limit
likewise. An array with one id more than it has room for meets the full array, and
three records give the deletion loop a first, a middle and a last one. In `Bank`,
a failed save, the operation after it, a crash and a further operation fit in three, and
each of them may lose any of its records.
In `Ledger`, four records overflow the window of three and the statement of two; two
torn appends bring the readers out of step and back into it; three drawn ids wrap
both counters. In `Terminal`, five keys are an answer that is longer than every buffer by
at least one, with room for erasures before it. In `Reports`, four accounts give the sort
ties, a sorted, a reversed and a mixed order, and the log outgrows a ring of three and
takes one of two round twice.

`CHECK_DEADLOCK FALSE` is set for `Ledger` and `Reports` only: their bounds on the calls
and on the log end every behaviour. The other models never stop for good.

Runs whose property fails, each a promise of the documentation or of a message
that the code does not keep:

| Run | Property | What happens |
|---|---|---|
| `InitialDeposit` (`Accounts`) | main.c:305 and 383, an account opens with its initial deposit | `acct_deposit`'s refusal is dropped (`main.c:378`) |
| `SessionExpiry` (`Session`) | README:115, an expired session does nothing | handlers check before their prompts, not after (`main.c:457`) |
| `PinReset` (`Session`) | admin.c:362, "Account unlocked" | `acct_update` writes back the status read before `acct_unlock` (`admin.c:359`) |
| `MidOperation` (`Bank`) | README:313, no partial states | a signal saves the middle of an operation (`main.c:49`); the shortest run is a deposit without its record, and a transfer debited and not credited is another |
| `EarlySignal` (`Persistence`) | main.c:47, a signal saves the data | handlers are installed before the accounts are loaded (`main.c:60`) |

Nine more such promises have a configuration each that is run by hand, for instance with
`tlc -config CutShort.cfg MCPersistence`, and is refuted in seconds:

| Configuration, module | Property | What happens |
|---|---|---|
| `UnsetLimit.cfg`, `MCAccounts` | `EveryRemainingIsUsable`: README:77, "remaining daily limit display" | an account of type 0 is shown SALARY's limit (`main.c:419`) and held to SAVINGS' (`account.c:335`) |
| `DefaultPin.cfg`, `MCSession` | `DefaultPinGoes`: auth.c:187 and README:713, the default PIN must be changed on first login | the administrator's menu offers no change of PIN, and the menu that does is never the administrator's |
| `LostRecord.cfg`, `MCBank` | `DualLedgerEntries`: README:80, "dual ledger entries" | a transfer is done and saved although one of its appends, or both, failed (`transaction.c:64-69`, `account.c:207`) |
| `MidDelete.cfg`, `MCPersistence` | `NoAccountTwice`: README:313, no partial states | a signal within the loop of `acct_delete` saves one account twice (`account.c:114`) |
| `CutShort.cfg`, `MCPersistence` | `NoHalfWritten`: README:119, "no half-written states ever possible" | `fclose`'s result is ignored (`database.c:183`), so a temporary file cut short by a full disk is renamed over the accounts |
| `FailedOpen.cfg`, `MCPersistence` | `StartsFromFile`: database.c:62, "First run" | any failure to open the account file is taken for a first run (`database.c:61`), and the next save replaces the accounts |
| `FirstRun.cfg`, `MCPersistence` | `RefusesOnlyDamage`: README:228, `data/` is created on the first run | `logger_init` needs it before `db_init` creates it (`main.c:64`), so the program refuses to start |
| `Misread.cfg`, `MCLedger` | `OnlyGenuineShown`: README:133, each record has an integrity signature | no reader looks at it (`transaction.c:111`): behind a torn append a statement shows lines nobody wrote |
| `ShortTail.cfg`, `MCReports` | `ShowsAsOffered`: admin.c:444, "[10-200]" lines | any other answer becomes 9, and the default of `admin.c:446` is never taken |

In the passing runs signals are kept from the places of `MidOperation`, `EarlySignal` and
`MidDelete.cfg` by constants (`SignalMidway`, `SignalAt`), so that everything else can be seen
to hold. Nothing else is switched off: appends fail, flushes are cut short, files cannot be
opened or read, and the properties there say what remains true. `StatementAddsUp` speaks of
records with no failed append between them; `LedgerExplainsBalances` and
`TransfersKeptWhole` say that balances and ledger file differ by exactly what the failed
appends left out; `SaveIsWhole` allows another file than a whole one only to the very save
whose flush failed; `MisreadOnlyBehindTorn` bounds the lines that are made up.

One more disagreement with the documentation has no configuration of its own. README:309 promises a
hard lock after three failures. Unfreezing an account that was locked and then frozen makes
it active (`account.c:278`). `GuessesAreCounted` states what remains of the promise: its
failures stay counted, so the next wrong PIN locks it.

Fairness is assumed in two models, each time for what the one thread does by itself
without waiting for anybody: `Persistence` has weak fairness of `Step`, what the program
does between two prompts, for `PromptOrStop`; `Terminal` has weak fairness of `ReadKey`
and `ReadEof` together, a read that has something to return, for `EofEndsInMenu`. The
processor goes on running the program, so the code justifies both; users, signals,
crashes and decay get none. `WillingSpec` of `Session` adds strong fairness of an
administrator who asks for the change of PIN whenever the menu offers it, and gives a new
one. It is a wish and not a fact of the code: only `DefaultPin.cfg` uses it, to show that even
such an administrator keeps the default PIN.

## 4. Proofs

Every invariant and every action property that a passing run checks on a small instance,
and both refinements, are theorems for all values of the constants that satisfy the
assumptions named in the modules. These say no more than what the program's own numbers
and data satisfy: sets of ids are finite where sums are taken over them, amounts are
positive, limits are whole, sizes are not zero, a statement is not longer than its
buffer, and a PIN or a line has room for more than one character. The ledger's theorems
hold for any number of cells and any set of those that name the other account. `Bank` and
`Persistence` need two more hypotheses, both about signals, stated in the theorems themselves:

| Hypothesis | Theorems | Without it |
|---|---|---|
| `SignalMidway = FALSE`: a signal finds the program between two operations | `LedgerExplains`, `TransfersWholeKept`, `OperationsAreAtomic` | the run `MidOperation` |
| `SignalsWait`, or for `IdsAreUnique` only `"shift" \notin SignalAt`: no signal while the accounts are loaded, none within the loop of a deletion | `FileIsDurable`, `IdsAreUnique` | the run `EarlySignal`, and `MidDelete.cfg` |

`TypesKept`, `OnlyChecksummed` and `SavesAreWhole` hold with signals anywhere: even where a
signal spoils the bookkeeping no balance is negative, no record with a bad checksum is in
memory, and the file is replaced by a whole one or by one that a flush cut short. No theorem
assumes that an append, a read, an `fopen` or a flush succeeds.

How the proofs go, module by module. Each has an inductive invariant, one lemma for each
action that keeps it, and short theorems at the end.

* `Accounts`. `StatementAddsUp` is not inductive alone: that the next record
  continues the last one needs every stored amount to be whole paise and the
  record's balance and totals to be of their types. `IInv` says that each account
  is `Sound` with its ledger: a good record (types, whole amounts, daily total
  within its limit), explained by the calls of `txn_record` since it was opened, and with totals
  that reconcile if those were of whole paise. Lemmas show that `Credit`, `Debit`,
  `ResetDaily` and `Count` keep a record good, that a call of `txn_record`
  keeps the explanation whether its append fails or not, and then one lemma per action. From `IInv` follow the invariants and
  the action properties `FrozenIsInert` and `TransferConserves`.
  `RemainingIsUsable` follows from the same invariant (`ShownIsUsable`): a good record's
  daily total is within the limit its type is shown, and the reset only lowers it.
  `DailyLimitKept` says that the running total never passes the limit, roundings
  included. `DailyLimitHonoured` is about the ledger, of any day: it needs `Metered`, that
  the counter is at least what the ledger says of the counter's day and that no record is
  of a later day, since the counter is reset only by the first limited operation of a day
  and forgets the days before. `DashboardReconciles` needs that the administrator's
  account stays, and that sums over types, over statuses and over all accounts agree.
* `Session`. `IInv` is `TypeOK`, `SessionSound`, `LockedAfterThree` and
  `AdminPresent` together: that nobody freezes or deletes the administrator needs
  the session's role to be its account's, and that the locked administrator stays
  so needs that an open session's account is active. The last two are stated by
  theorems of their own, `LockedNeedsThree` and `AdminStays`. `OneChange` says in which
  ways one step may change `accts`; the four action properties follow from it, and so does
  `AdminPinNeverChanges`, which says why `DefaultPin.cfg` fails.
* `Bank`. `CInv` is about control: what is left in `todo` ends in a save, a debit in it is
  covered by the balance, nothing is left when the program is down. It holds wherever
  signals come. `IInv` adds the money: memory and the moves left to do equal the calls not
  lost and those left to make; the saved balances equal the kept calls; of each transfer the
  kept halves cancel out, and so do the pending halves with those left to come. It counts all
  calls, so that it does not matter which appends fail; `LedgerExplains` and
  `TransfersWholeKept` then split the sums into what is in the file and what is not. For
  `OperationsAreAtomic` each step is shown to be one whole operation, save or stop of
  `AtomicBank`, or to leave its state alone.
* `Persistence`. `IInv` bounds the counters of the loops and says that no file claims more
  records than memory has room for. `IdsInv` says that no id is there twice, except, within the
  loop of a deletion, for the one record just copied. `StoreInv` says that the file's header
  agrees with its records and that a load has read a prefix of them. `FileIsDurable` is the
  step simulation of `DurableStore`: a load is its start, the rename its save; where the disk fails
  unnoticed, `fault` is the abstract `trouble`.
* `Ledger`. `LogOK` is about the cells of the file, whatever was lost or torn: each stands
  in its call's block, the blocks in the order of the calls, and a block that no torn one is
  before begins at a whole number of records. An append of any length keeps it
  (`AppendLog`). From it alone follows `WrittenIsRead`. A line that starts with a first cell
  is that block or the block was torn; one that starts with a cell of `NamesOther` starts out
  of step, and so behind a torn block (`OutOfStep`). For `MisreadOnlyBehindTorn` the lines of
  an account must moreover come from different calls, in order: lines start `Cells` cells
  apart, and no call wrote more.
  `StatementIsNewest` needs only what the window's loop keeps true, that it
  holds the end of what it was given. `LastLineIsBalance` adds that an account's latest call
  is of its balance, and that nothing behind it names the account, for which `PairsOK` says
  that the two calls of a transfer are next to each other; `TxnIdsRepeatAcrossRunsOnly` that the ids of a run are below its
  counter; `StrangersLinesAreRare` that drawings are ordered by time, run and counter, that
  an account's id was drawn for the former owners of its records before it was drawn for
  the account, and that numbers with the same remainder are the divisor apart.
* `Terminal`. `BaseInv` is about the buffers and the echo, however long the answers are. As
  long as the answers fit, `LegalInv` says what is still unread (an answer to this prompt, or
  the administrator's last ENTER at a pause). The buffer's content is the running
  balance of characters and erasures less its minimum so far; `Track` carries that minimum.
  `EofOffersMenusOnly` proves the half of `EofEndsInMenu` that speaks of single steps.
* `Reports`. The invariants of the three loops: `SortInv` (the places before `i` are final,
  `max_idx` the richest seen), `FindInv` (the k-th match gone through is the k-th result) and
  `TailInv` (which line is at which place of the ring, full or not).

Induction. The prover has no induction over data, so sums and loops are reasoned about by
the least counterexample: a set of numbers, or of subsets of a finite set, that is not
empty has a least member (`WellFoundedInduction`, `FiniteSetTheorems`). `SumTheorems`
proves in this way that a sum does not depend on the order the summands are chosen in,
and that it splits; `LedgerProofs` what its two loops compute.

Only model-checked: `PromptOrStop`, and of `EofEndsInMenu` that a menu is reached at last,
since liveness under fairness is beyond the prover; and the findings, which are
counterexamples.

## 5. Not modelled

* The text and layout of the screens, colours, and what prints one record.
* The bit mixing of `sec_hash_pin` and `djb2`, salts and tokens; collisions. The format
  tests of PINs, phones, names and mail addresses: pure character tests without state.
* The system log, which nothing reads, and the keyword search of the audit log, which
  filters one line at a time and keeps nothing.
* `txn_sum_by_type`, `db_write_account`, `db_read_account`, `db_delete_account`: nothing
  calls them.
* Calls in the signal handler that are not safe there (`printf`, `malloc`), a second
  signal inside it, and power failure of the machine (nothing is synced to disk).
  At `exit` the stream of an interrupted save is flushed too; it writes again the
  bytes the handler's save has just written.
* A note typed by a customer that ends in an account id, met by a reader that is out of
  step; what `acct_transfer` writes in a note is modelled.
* A clock that goes back. A person who types ahead of a prompt, and input from a pipe
  with carriage returns in it.
* A full array or a full ledger buffer of the program's real sizes; the models meet
  their limits with small ones.
* `securbank.exe`. On Windows `rename` does not replace an existing file: there every
  save after the first fails, which the models allow but do not single out.

## 6. Plan

1. Core (done): `Accounts`, `Session`, `Bank`, `Persistence`.
2. What reads and writes at the edges (done): `Ledger`, `Terminal`, `Reports`, the
   figures of the screens, the counting of wrong PINs.
3. The theorems of every module (done).
4. Failures of the disk in every model, and a configuration for each promise they break (done).
   Left: how far memory, ledger and file may differ after a signal in the middle of an
   operation, as a theorem without `SignalMidway = FALSE`.
5. `auth_reauth` counts no wrong PINs (`auth.c:159`), so an open session may try them
   without end; a property that says what this costs has yet to be found.
