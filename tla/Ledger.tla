------------------------------- MODULE Ledger -------------------------------
(***************************************************************************)
(* The transaction log as transaction.c writes and reads it, and the ids it  *)
(* is keyed by.  txn_record appends a record to data/transactions.log and    *)
(* looks at none of fwrite, fclose and its own result, so the append of a    *)
(* call may be lost, or torn when the disk fills up in the middle of it; the *)
(* readers take the file in steps of one record's size.                      *)
(*                                                                          *)
(*   clock     time(NULL)                                                   *)
(*   run       the number of this run of the program                        *)
(*   acctSeq   the static counter of acct_generate_id                       *)
(*   txnSeq    the static counter of txn_generate_id                        *)
(*   accounts  the accounts in use: balance, and the calls before it opened *)
(*   file      data/transactions.log, in cells: Cells of them per record,   *)
(*             the account id in the first, a transfer's other account in   *)
(*             those of NamesOther                                          *)
(*   calls     history: the calls of txn_record, and what each one wrote    *)
(*   drawn     history: the account ids generated                           *)
(*                                                                          *)
(* Amounts are within the limits, and every save succeeds: the engine's       *)
(* refusals are the subject of Accounts, the order of saves that of Bank.    *)
(***************************************************************************)
EXTENDS Integers, Sequences, SequencesExt

CONSTANTS Period,     \* 100000: the seconds an account id tells apart
          Span,       \* 99: the registrations it tells apart
          DayLength,  \* the seconds of a day
          Cells,      \* the cells of a record
          NamesOther, \* those with the other account of a transfer
          Buffer,     \* 2048: buf_size
          MaxLines,   \* MINI_STMT_LIMIT
          NoOne,      \* the counterpart of all but transfers: no account id
          Amounts,    \* what customers move
          MaxClock, MaxRuns, MaxDrawn, MaxCalls, MaxFaults  \* bounds

ASSUME BoundsAssumption == {MaxClock, MaxDrawn, MaxCalls, MaxFaults} \subseteq Nat /\ MaxRuns \in Nat \ {0}
ASSUME SizesAssumption == {Period, Span, DayLength, Cells, MaxLines} \subseteq Nat \ {0}
ASSUME NamesAssumption == NamesOther \subseteq 2 .. Cells
ASSUME BufferAssumption == Buffer \in Nat /\ MaxLines <= Buffer
ASSUME AmountsAssumption == Amounts \subseteq Nat \ {0}

VARIABLES clock, run, acctSeq, txnSeq, accounts, file, calls, drawn
vars == <<clock, run, acctSeq, txnSeq, accounts, file, calls, drawn>>

Id      == (0 .. Period - 1) \X (0 .. Span - 1)
TxnId   == Nat \X Nat
Cell    == [of : 1 .. MaxCalls, part : 1 .. Cells]
Call    == [owner : Id, other : Id \cup {NoOne}, txn : TxnId, run : Nat,
            after : Nat, written : 0 .. Cells]
Drawing == [id : Id, at : Nat, run : Nat, nth : Nat]

ASSUME NoOneAssumption == NoOne \notin Id

TypeOK ==
  /\ clock \in 0 .. MaxClock /\ run \in 1 .. MaxRuns
  /\ acctSeq \in Nat /\ txnSeq \in Nat
  /\ DOMAIN accounts \subseteq Id
  /\ accounts \in [DOMAIN accounts -> [balance : Nat, since : 0 .. MaxCalls]]
  /\ file \in Seq(Cell)
  /\ calls \in Seq(Call) /\ Len(calls) <= MaxCalls
  /\ drawn \in Seq(Drawing) /\ Len(drawn) <= MaxDrawn

-----------------------------------------------------------------------------
\* acct_generate_id.
\* Mutant: the counter is not part of the id.
AccountId_Clock(t, n) == <<t % Period, 0>>

\* Mutant: the seconds are not cut to the digits the id has for them.
AccountId_AllDigits(t, n) == <<t, n % Span>>

AccountId(t, n) == <<t % Period, n % Span>>

\* txn_generate_id: the date and the counter.
\* Mutant: the date alone.
TransactionId_Date(t, n) == <<t \div DayLength, 0>>

TransactionId(t, n) == <<t \div DayLength, n>>

\* What txn_record is called with for the account i and its counterpart j, when the
\* n-th record since txnSeq is written up to its w-th cell.
NewCall(i, j, after, n, w) ==
  [owner |-> i, other |-> j, txn |-> TransactionId(clock, txnSeq + n), run |-> run,
   after |-> after, written |-> w]

\* The append of record n, cut off behind w cells: opened with "ab".
\* Mutant: opened with "wb".
Appended_Truncates(f, n, w) ==
  IF w = 0 THEN f ELSE [p \in 1 .. w |-> [of |-> n, part |-> p]]

Appended(f, n, w) == f \o [p \in 1 .. w |-> [of |-> n, part |-> p]]

Faults(s) == Len(SelectSeq(s, LAMBDA c : c.written < Cells))

InBounds == Len(calls') <= MaxCalls /\ Faults(calls') <= MaxFaults

\* Bound: time and runs go on as long as there are calls left to make.
CallsLeft == Len(calls) < MaxCalls

Record(i, after, w) ==
  /\ calls' = Append(calls, NewCall(i, NoOne, after, 0, w))
  /\ file' = Appended(file, Len(calls) + 1, w)
  /\ txnSeq' = txnSeq + 1
  /\ InBounds

RecordTwo(i, afterI, v, j, afterJ, w) ==
  /\ calls' = calls \o <<NewCall(i, j, afterI, 0, v), NewCall(j, i, afterJ, 1, w)>>
  /\ file' = Appended(Appended(file, Len(calls) + 1, v), Len(calls) + 2, w)
  /\ txnSeq' = txnSeq + 2
  /\ InBounds

-----------------------------------------------------------------------------
Init ==
  /\ clock = 0 /\ run = 1
  /\ acctSeq = 0 /\ txnSeq = 0
  /\ accounts = [i \in {} |-> [balance |-> 0, since |-> 0]]
  /\ file = <<>>
  /\ calls = <<>> /\ drawn = <<>>

\* The end of menu_register: an id that is in use is refused by acct_create, and
\* no other one is tried.
Register(x, w) ==
  /\ Len(drawn) < MaxDrawn
  /\ LET i == AccountId(clock, acctSeq)
     IN  /\ drawn' = Append(drawn, [id |-> i, at |-> clock, run |-> run, nth |-> acctSeq])
         /\ \/ /\ i \in DOMAIN accounts
               /\ UNCHANGED <<accounts, file, calls, txnSeq>>
            \/ /\ i \notin DOMAIN accounts
               /\ accounts' = [j \in DOMAIN accounts \cup {i} |->
                                 IF j = i THEN [balance |-> x, since |-> Len(calls)]
                                          ELSE accounts[j]]
               /\ Record(i, x, w)
  /\ acctSeq' = acctSeq + 1
  /\ UNCHANGED <<clock, run>>

\* acct_deposit, and acct_apply_interest.
Deposit(i, x, w) ==
  /\ accounts' = [accounts EXCEPT ![i].balance = @ + x]
  /\ Record(i, accounts[i].balance + x, w)
  /\ UNCHANGED <<clock, run, acctSeq, drawn>>

Withdraw(i, x, w) ==
  /\ x <= accounts[i].balance
  /\ accounts' = [accounts EXCEPT ![i].balance = @ - x]
  /\ Record(i, accounts[i].balance - x, w)
  /\ UNCHANGED <<clock, run, acctSeq, drawn>>

\* acct_transfer: each half has an append of its own.
\* Mutant: the recipient's record is written before the credit.
CreditedTo_Before(j, x) == accounts[j].balance

CreditedTo(j, x) == accounts[j].balance + x

Transfer(i, j, x, v, w) ==
  /\ x <= accounts[i].balance
  /\ accounts' = [accounts EXCEPT ![i].balance = @ - x, ![j].balance = @ + x]
  /\ RecordTwo(i, accounts[i].balance - x, v, j, CreditedTo(j, x), w)
  /\ UNCHANGED <<clock, run, acctSeq, drawn>>

\* admin_delete_account: the records stay in the file.
Delete(i) ==
  /\ accounts' = [j \in DOMAIN accounts \ {i} |-> accounts[j]]
  /\ UNCHANGED <<clock, run, acctSeq, txnSeq, file, calls, drawn>>

Tick ==
  /\ clock < MaxClock /\ CallsLeft
  /\ clock' = clock + 1
  /\ UNCHANGED <<run, acctSeq, txnSeq, accounts, file, calls, drawn>>

\* The program ends and is run again: both counters start afresh.
Restart ==
  /\ run < MaxRuns /\ CallsLeft
  /\ run' = run + 1
  /\ acctSeq' = 0 /\ txnSeq' = 0
  /\ UNCHANGED <<clock, accounts, file, calls, drawn>>

Next ==
  \/ \E x \in Amounts, w \in 0 .. Cells : Register(x, w)
  \/ \E i \in DOMAIN accounts, x \in Amounts, w \in 0 .. Cells : Deposit(i, x, w)
  \/ \E i \in DOMAIN accounts, x \in Amounts, w \in 0 .. Cells : Withdraw(i, x, w)
  \/ \E i \in DOMAIN accounts, x \in Amounts, v, w \in 0 .. Cells :
       \E j \in DOMAIN accounts \ {i} : Transfer(i, j, x, v, w)
  \/ \E i \in DOMAIN accounts : Delete(i)
  \/ Tick
  \/ Restart

Spec == Init /\ [][Next]_vars

-----------------------------------------------------------------------------
(* The readers. *)

\* The records fread returns: whole ones, wherever their cells come from.
Reads ==
  [j \in 1 .. Len(file) \div Cells |-> SubSeq(file, (j - 1) * Cells + 1, j * Cells)]

\* The comparison of account ids, 20 bytes behind the place a read starts at.  Out
\* of step, these bytes may be the counterpart_id of a record, or the end of the
\* note acct_transfer gives it, which is the same id; the notes that customers
\* type are taken not to end in one.  Other bytes match no account id.
\* Mutant: an id anywhere in the record will do.
OwnRecord_AnyCell(r, i) == \E p \in 1 .. Cells : r[p].part = 1 /\ calls[r[p].of].owner = i

OwnRecord(r, i) ==
  \/ r[1].part = 1 /\ calls[r[1].of].owner = i
  \/ r[1].part \in NamesOther /\ calls[r[1].of].other = i

\* Those members of s that are in S, as a loop over s collects them.
Those(s, S) ==
  LET found[k \in 0 .. Len(s)] ==
        IF k = 0 THEN <<>>
        ELSE IF s[k] \in S THEN Append(found[k - 1], s[k]) ELSE found[k - 1]
  IN  found[Len(s)]

\* txn_get_all_for_account, with room for all of them; no reader looks at the
\* checksum of a record.
AllFor(i) == LET read == Reads IN Those(read, {r \in Range(read) : OwnRecord(r, i)})

\* txn_get_mini_statement: a buffer that forgets its oldest record when full, and
\* the last MaxLines of it.
\* Mutant: a full buffer takes no more.
Kept_Stops(buf, r) == IF Len(buf) < Buffer THEN Append(buf, r) ELSE buf

Kept(buf, r) == Append(IF Len(buf) < Buffer THEN buf ELSE Tail(buf), r)

\* The end of the buffer.
LastLines(s) == SubSeq(s, IF Len(s) > MaxLines THEN Len(s) - MaxLines + 1 ELSE 1, Len(s))

MiniStatement(i) ==
  LET all == AllFor(i)
      buf[k \in 0 .. Len(all)] == IF k = 0 THEN <<>> ELSE Kept(buf[k - 1], all[k])
  IN  LastLines(buf[Len(all)])

-----------------------------------------------------------------------------
(* Properties *)

\* The ids that have records.
Owners == {calls[n].owner : n \in DOMAIN calls}

Genuine(n) == [p \in 1 .. Cells |-> [of |-> n, part |-> p]]

Torn(n) == calls[n].written \in 1 .. Cells - 1

NoneTornBefore(n) == \A m \in 1 .. n - 1 : ~Torn(m)

\* The mini statement is the end of what the file holds for the account, however
\* much that is: the buffer's shifting window loses nothing of the last ten
\* records (transaction.c:96-130).
StatementIsNewest ==
  \A i \in Owners :
    LET all   == AllFor(i)
        lines == MiniStatement(i)
    IN  /\ Len(lines) = IF Len(all) > MaxLines THEN MaxLines ELSE Len(all)
        /\ \A k \in DOMAIN lines : lines[k] = all[Len(all) - Len(lines) + k]

\* transaction.c:69: as long as no append was torn, what is read for an account is
\* exactly what was written for it, in order, lost appends apart; and after a
\* torn one the earlier records are still read as they were.
WrittenIsRead ==
  \A i \in Owners :
    LET whole == {n \in DOMAIN calls : calls[n].owner = i /\ calls[n].written = Cells}
        early == Those([n \in DOMAIN calls |-> n], {n \in whole : NoneTornBefore(n)})
        read  == [k \in DOMAIN early |-> Genuine(early[k])]
        all   == AllFor(i)
    IN  /\ IsPrefix(read, all)
        /\ NoneTornBefore(Len(calls) + 1) => all = read

\* transaction.c:111: behind a torn append the readers have lost step with the
\* records.  A line that is not what was written starts in a torn record of the
\* account, or behind one, in a transfer by its counterpart; a record starts at
\* most one line, and the lines stay in order.
MisreadOnlyBehindTorn ==
  \A i \in Owners :
    LET all == AllFor(i)
    IN  /\ \A k \in DOMAIN all :
             LET n == all[k][1].of
             IN  \/ all[k] = Genuine(n)
                 \/ Torn(n) /\ calls[n].owner = i
                 \/ ~NoneTornBefore(n) /\ calls[n].other = i
        /\ \A k, l \in DOMAIN all : k < l => all[k][1].of < all[l][1].of

\* README:133: each record carries its own integrity signature.  No reader looks
\* at it, and a statement shows lines that nobody wrote (violated).
OnlyGenuineShown ==
  \A i \in Owners : \A r \in Range(AllFor(i)) : r = Genuine(r[1].of)

\* A lost append does no lasting harm: once the latest record of an account is in
\* the file, its statement ends in the account's balance again.
CallsOf(i) == {n \in DOMAIN calls : n > accounts[i].since /\ calls[n].owner = i}

LastLineIsBalance ==
  \A i \in DOMAIN accounts : \A n \in CallsOf(i) :
    /\ \A m \in CallsOf(i) : m <= n
    /\ calls[n].written = Cells
    /\ NoneTornBefore(n)
    => LET line == Last(MiniStatement(i))
       IN  line = Genuine(n) /\ calls[line[1].of].after = accounts[i].balance

\* transaction.c:21: the counter starts again with every run, so a transaction id
\* is given twice only by two runs on one day.
TxnIdsRepeatAcrossRunsOnly ==
  \A m, n \in DOMAIN calls :
    m # n /\ calls[m].txn = calls[n].txn => calls[m].run # calls[n].run

\* account.c:30: an id that was in use comes back, and with it the former owner's
\* lines on the statement, only when the seconds have wrapped, or within the
\* same second after a restart or after Span registrations.
StrangersLines(i) == \E r \in Range(AllFor(i)) : r[1].of <= accounts[i].since

StrangersLinesAreRare ==
  \A i \in DOMAIN accounts : StrangersLines(i) =>
    \E a, b \in DOMAIN drawn :
      /\ a < b
      /\ drawn[a].id = i /\ drawn[b].id = i
      /\ \/ drawn[b].at - drawn[a].at >= Period
         \/ drawn[b].at = drawn[a].at /\ drawn[b].run # drawn[a].run
         \/ drawn[b].at = drawn[a].at /\ drawn[b].nth - drawn[a].nth >= Span
=============================================================================
