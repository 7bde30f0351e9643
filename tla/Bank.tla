-------------------------------- MODULE Bank --------------------------------
(***************************************************************************)
(* The operations that move money, step by step, together with what is on   *)
(* the disk: account.c changes memory, transaction.c appends to the ledger, *)
(* and then main.c or admin.c saves the accounts.  The process may be killed *)
(* between any two steps, and a signal may make it save and exit.           *)
(*                                                                          *)
(*   balance   the balances in g_accounts                                   *)
(*   saved     the balances in data/accounts.dat                            *)
(*   ledger    the calls of txn_record, in order: data/transactions.log     *)
(*             holds the records of those that are written                  *)
(*   todo      the steps left of the operation under way                    *)
(*   exiting   whether the process ends when they are done                  *)
(*   ops       the number of operations begun                               *)
(*                                                                          *)
(* Accounts models what an operation computes and when it is refused,        *)
(* Persistence what a save does; here an operation is the order of its       *)
(* steps, and a save one step that may fail.  History: a call's fate says    *)
(* whether the balance it reports is saved, or can no longer be.            *)
(***************************************************************************)
EXTENDS Integers, Sequences, SequencesExt, FiniteSets, Functions

CONSTANTS Ids,           \* the customers' accounts
          Amounts,       \* what they move
          MaxOps,        \* bound: operations
          SignalMidway   \* whether signals also arrive inside an operation

ASSUME IdsAssumption == IsFiniteSet(Ids) /\ Ids # {}
ASSUME AmountsAssumption == Amounts \subseteq Nat \ {0}
ASSUME BoundsAssumption == MaxOps \in Nat /\ SignalMidway \in BOOLEAN

VARIABLES up, balance, saved, ledger, todo, exiting, ops
vars == <<up, balance, saved, ledger, todo, exiting, ops>>

Kind == {"cash", "transfer", "interest"}

Step  == [do : {"move", "record", "save"}, id : Ids, by : Int, kind : Kind]
Entry == [id : Ids, by : Int, kind : Kind, op : Nat, fate : {"pending", "kept", "lost"},
          written : BOOLEAN]

TypeOK ==
  /\ up \in BOOLEAN
  /\ balance \in [Ids -> Nat]
  /\ saved \in [Ids -> Nat]
  /\ ledger \in Seq(Entry)
  /\ todo \in Seq(Step)
  /\ exiting \in BOOLEAN
  /\ ops \in 0 .. MaxOps

-----------------------------------------------------------------------------
\* The steps the operations are made of.
Move(i, x, k)   == [do |-> "move", id |-> i, by |-> x, kind |-> k]
Record(i, x, k) == [do |-> "record", id |-> i, by |-> x, kind |-> k]
Save            == [do |-> "save", id |-> CHOOSE i \in Ids : TRUE, by |-> 0, kind |-> "cash"]

\* acct_deposit and acct_withdraw, and their callers' save.
\* Mutant: withdrawals and deposits are not logged.
CashSteps_NoRecord(i, x) == <<Move(i, x, "cash"), Save>>

CashSteps(i, x) == <<Move(i, x, "cash"), Record(i, x, "cash"), Save>>

\* acct_transfer and user_transfer's save.
\* Mutant: both halves are saved, but between their records.
TransferSteps_SaveBetween(i, j, x) ==
  <<Move(i, -x, "transfer"), Move(j, x, "transfer"),
    Record(i, -x, "transfer"), Save, Record(j, x, "transfer"), Save>>

TransferSteps(i, j, x) ==
  <<Move(i, -x, "transfer"), Move(j, x, "transfer"),
    Record(i, -x, "transfer"), Record(j, x, "transfer"), Save>>

\* acct_apply_interest_all on the accounts of s, and admin_apply_interest_all's
\* save.
\* Mutant: every account is saved when its interest is credited.
InterestSteps_SaveEach(s) ==
  FlattenSeq([k \in DOMAIN s |->
    <<Move(s[k], 1, "interest"), Record(s[k], 1, "interest"), Save>>])

InterestSteps(s) ==
  [k \in 1 .. 2 * Len(s) + 1 |->
     IF k > 2 * Len(s) THEN Save
     ELSE IF k % 2 = 1 THEN Move(s[(k + 1) \div 2], 1, "interest")
     ELSE Record(s[k \div 2], 1, "interest")]

-----------------------------------------------------------------------------
Init ==
  /\ up = FALSE
  /\ balance = [i \in Ids |-> 0] /\ saved = balance
  /\ ledger = <<>>
  /\ todo = <<>>
  /\ exiting = FALSE
  /\ ops = 0

Start ==
  /\ ~up
  /\ up' = TRUE
  /\ balance' = saved
  /\ UNCHANGED <<saved, ledger, todo, exiting, ops>>

Ready == up /\ todo = <<>>

Begin(steps) ==
  /\ ops < MaxOps
  /\ ops' = ops + 1
  /\ todo' = steps
  /\ UNCHANGED <<up, balance, saved, ledger, exiting>>

Deposit(i, x) ==
  /\ Ready
  /\ Begin(CashSteps(i, x))

\* Mutant: the balance is not tested.
Covered_Always(i, x) == TRUE

Covered(i, x) == x <= balance[i]

Withdraw(i, x) ==
  /\ Ready
  /\ Covered(i, x)
  /\ Begin(CashSteps(i, -x))

Transfer(i, j, x) ==
  /\ Ready
  /\ Covered(i, x)
  /\ Begin(TransferSteps(i, j, x))

\* S: the accounts whose status, type and balance earn interest, in the order
\* of the array.
ApplyInterestAll(S) ==
  /\ Ready
  /\ Begin(InterestSteps(SetToSeq(S)))

Exit ==
  /\ Ready
  /\ todo' = <<Save>>
  /\ exiting' = TRUE
  /\ UNCHANGED <<up, balance, saved, ledger, ops>>

-----------------------------------------------------------------------------
Fates(old, new) ==
  [k \in DOMAIN ledger |->
     IF ledger[k].fate = old THEN [ledger[k] EXCEPT !.fate = new] ELSE ledger[k]]

DoMove ==
  /\ todo # <<>> /\ Head(todo).do = "move"
  /\ balance' = [balance EXCEPT ![Head(todo).id] = @ + Head(todo).by]
  /\ todo' = Tail(todo)
  /\ UNCHANGED <<up, saved, ledger, exiting, ops>>

\* txn_record: the record gets into the file or, when that cannot be opened or
\* written, does not.  Nobody looks at the result.
DoRecord ==
  /\ todo # <<>> /\ Head(todo).do = "record"
  /\ \E w \in BOOLEAN :
       ledger' = Append(ledger, [id |-> Head(todo).id, by |-> Head(todo).by,
                                 kind |-> Head(todo).kind, op |-> ops, fate |-> "pending",
                                 written |-> w])
  /\ todo' = Tail(todo)
  /\ UNCHANGED <<up, balance, saved, exiting, ops>>

\* A save that fails is not noticed; the next one saves its work too.
DoSave ==
  /\ todo # <<>> /\ Head(todo).do = "save" /\ ~exiting
  /\ \/ saved' = balance /\ ledger' = Fates("pending", "kept")
     \/ UNCHANGED <<saved, ledger>>
  /\ todo' = Tail(todo)
  /\ UNCHANGED <<up, balance, exiting, ops>>

Ended ==
  /\ up' = FALSE
  /\ balance' = [i \in Ids |-> 0]
  /\ todo' = <<>>
  /\ exiting' = FALSE
  /\ UNCHANGED ops

\* The last save, and exit.
DoExit ==
  /\ exiting
  /\ \/ saved' = balance /\ ledger' = Fates("pending", "kept")
     \/ UNCHANGED saved /\ ledger' = Fates("pending", "lost")
  /\ Ended

\* The process is killed.
Crash ==
  /\ up
  /\ ledger' = Fates("pending", "lost")
  /\ Ended
  /\ UNCHANGED saved

\* handle_signal drops what was under way, and saves.
Signal ==
  /\ up /\ ~exiting
  /\ SignalMidway \/ \A k \in DOMAIN todo : todo[k].do = "save"
  /\ todo' = <<Save>>
  /\ exiting' = TRUE
  /\ UNCHANGED <<up, balance, saved, ledger, ops>>

Next ==
  \/ Start
  \/ \E i \in Ids, x \in Amounts : Deposit(i, x)
  \/ \E i \in Ids, x \in Amounts : Withdraw(i, x)
  \/ \E i \in Ids, x \in Amounts : \E j \in Ids \ {i} : Transfer(i, j, x)
  \/ \E S \in SUBSET {i \in Ids : balance[i] > 0} : ApplyInterestAll(S)
  \/ Exit
  \/ DoMove \/ DoRecord \/ DoSave \/ DoExit
  \/ Crash
  \/ Signal

Spec == Init /\ [][Next]_vars

-----------------------------------------------------------------------------
(* Properties *)

\* What the entries of s at the places K move or report, and what they do for
\* account i.
Summed(s, K)   == SumFunctionOnSet([k \in DOMAIN s |-> s[k].by], K)
Total(i, s, K) == Summed(s, {k \in K : s[k].id = i})

Kept  == {k \in DOMAIN ledger : ledger[k].fate = "kept"}
Lost  == {k \in DOMAIN ledger : ledger[k].fate = "lost"}
Moves == {k \in DOMAIN todo : todo[k].do = "move"}

\* README:313, "no partial states": the balances in the file are those that whole
\* operations left: all that a saved one moved, and nothing that a lost one did.
NoPartialStates ==
  \A i \in Ids : saved[i] = Total(i, ledger, Kept)

\* account.c:143 and main.c:460: whatever is killed, not saved or saved late, a
\* balance in the file and, at a prompt, one in memory differs from what the ledger
\* file says by what its failed appends left out, and by nothing else.  A customer
\* whose records all got into the file is thus explained by them.
InFile == {k \in DOMAIN ledger : ledger[k].written}

Gap(i, K) == Total(i, ledger, K \ InFile)

LedgerExplainsBalances ==
  /\ \A i \in Ids : saved[i] - Total(i, ledger, Kept \cap InFile) = Gap(i, Kept)
  /\ Ready => \A i \in Ids :
       balance[i] - Total(i, ledger, InFile \ Lost) = Gap(i, DOMAIN ledger \ Lost)

\* account.c:205-213: of a transfer whose effect is saved, one half is in the ledger
\* file without the other only if the other's append failed; one whose effect is lost
\* counts on neither side.
OfTransfer(o, K) ==
  Summed(ledger, {k \in K : ledger[k].op = o /\ ledger[k].kind = "transfer"})

TransfersKeptWhole ==
  \A o \in 1 .. ops : OfTransfer(o, Kept \cap InFile) = -OfTransfer(o, Kept \ InFile)

\* README:80, "instant debit/credit with dual ledger entries": at a prompt, the
\* records of a transfer in the ledger file are both halves of it.
DualLedgerEntries == Ready => \A o \in 1 .. ops : OfTransfer(o, InFile) = 0

\* README:99, "in one atomic operation": an operation is saved as a whole or not
\* at all, and comes after those begun before it.  While one is under way, the
\* bank is taken to hold what memory will hold at its end.
Settled(i) == balance[i] + Total(i, todo, Moves)

AllOrNothing == INSTANCE AtomicBank WITH
                  current <- [i \in Ids |-> IF up THEN Settled(i) ELSE saved[i]]

Atomic == AllOrNothing!Spec
=============================================================================
