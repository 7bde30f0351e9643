--------------------------- MODULE AccountsProofs ---------------------------
(* Proofs about Accounts. *)
EXTENDS Accounts, SumTheorems, SequenceTheorems, TLAPS

-----------------------------------------------------------------------------
(* round2 and the operations on one record *)

\* round2 goes to the next whole paisa up, by less than a paisa.
LEMMA Round2Facts ==
  ASSUME NEW x \in Int
  PROVE  /\ Round2(x) \in Int
         /\ Whole(Round2(x))
         /\ x <= Round2(x)
         /\ Round2(x) <= x + 1
BY DEF Round2, Whole

\* Sums and differences of whole numbers of paise need no rounding.
LEMMA Round2Sum ==
  ASSUME NEW x \in Int, NEW y \in Int, Whole(x), Whole(y)
  PROVE  Round2(x + y) = x + y /\ Round2(x - y) = x - y
BY DEF Whole, Round2

\* A sum within a whole limit is still within it once rounded.
LEMMA Round2Limit ==
  ASSUME NEW x \in Int, NEW l \in Int, Whole(l), x <= l
  PROVE  Round2(x) <= l
BY DEF Round2, Whole

\* Every type has a daily limit, a whole number of paise.
LEMMA LimitFacts ==
  ASSUME NEW type
  PROVE  DailyLimit(type) \in Nat /\ Whole(DailyLimit(type))
BY LimitsAssumption DEF DailyLimit

\* Interest is a whole number of paise.
LEMMA InterestFacts ==
  ASSUME NEW a \in Account
  PROVE  MonthlyInterest(a) \in Nat /\ Whole(MonthlyInterest(a))
<1> DEFINE rate == IF a.type = "SAVINGS" THEN SavingsRate ELSE SalaryRate
           y == a.balance * rate
<1>1. a.balance \in Nat /\ rate \in Nat
  BY AmountsAssumption DEF Account
<1>2. y \in Nat
  <2> HIDE DEF rate
  <2> QED BY <1>1
<1>3. MonthlyInterest(a) = 2 * ((y + 2400) \div 4800)
  BY DEF MonthlyInterest
<1> HIDE DEF y
<1> QED BY <1>2, <1>3 DEF Whole

-----------------------------------------------------------------------------
(* The inductive invariant, one account at a time *)

\* What holds of an account record by itself.
GoodAccount(a) ==
  /\ a \in Account
  /\ Whole(a.balance) /\ Whole(a.deposited) /\ Whole(a.withdrawn)
  /\ a.daily <= DailyLimit(a.type)

\* Every call of txn_record since an account was opened, whether its record got into
\* the file or not, carries the balance the call before left, moved by its own amount.
Explains(log, o, balance) ==
  /\ o <= Len(log)
  /\ \A k \in o + 1 .. Len(log) : log[k].after = Moved(log[k], Before(log, o, k))
  /\ balance = Before(log, o, Len(log) + 1)

\* ... and of a record with the calls for its id and those it started after.
Sound(a, log, o) ==
  /\ GoodAccount(a)
  /\ Explains(log, o, a.balance)
  /\ WholeSince(log, o) => Balanced(a)

IInv ==
  /\ TypeOK
  /\ \A i \in DOMAIN accounts : Sound(accounts[i], ledger[i], opened[i])

\* A new record is good.
LEMMA NewAccountGood ==
  ASSUME NEW type \in AccountType
  PROVE  GoodAccount(NewAccount(type))
BY LimitFacts DEF GoodAccount, NewAccount, Account, AccountStatus, Whole

\* Resetting the daily counter keeps a record good and its money as it was.
LEMMA ResetDailyGood ==
  ASSUME NEW a, GoodAccount(a), NEW day \in Nat
  PROVE  /\ GoodAccount(ResetDaily(a, day))
         /\ ResetDaily(a, day).balance = a.balance
         /\ ResetDaily(a, day).deposited = a.deposited
         /\ ResetDaily(a, day).withdrawn = a.withdrawn
         /\ ResetDaily(a, day).type = a.type
<1> DEFINE r == [a EXCEPT !.daily = 0, !.date = day]
<1>1. a \in Account /\ DailyLimit(a.type) \in Nat
  BY LimitFacts DEF GoodAccount
<1>2. /\ r \in Account
      /\ r.balance = a.balance /\ r.deposited = a.deposited /\ r.withdrawn = a.withdrawn
      /\ r.type = a.type /\ r.daily = 0
  BY <1>1 DEF Account
<1>3. ResetDaily(a, day) = a \/ ResetDaily(a, day) = r
  BY DEF ResetDaily
<1> HIDE DEF r
<1> QED BY <1>1, <1>2, <1>3 DEF GoodAccount

\* Counting an amount the limit has room for keeps a record good.
LEMMA CountGood ==
  ASSUME NEW a, GoodAccount(a), NEW x \in Nat, WithinLimit(a, x)
  PROVE  /\ GoodAccount(Count(a, x))
         /\ Count(a, x).balance = a.balance
         /\ Count(a, x).deposited = a.deposited
         /\ Count(a, x).withdrawn = a.withdrawn
         /\ Count(a, x).daily = Round2(a.daily + x)
         /\ Count(a, x).date = a.date
         /\ Count(a, x).type = a.type
<1> DEFINE l == DailyLimit(a.type)
           d == Round2(a.daily + x)
<1>1. l \in Nat /\ Whole(l) /\ a.daily \in Nat /\ a.daily + x <= l
  BY LimitFacts DEF WithinLimit, GoodAccount, Account
<1> DEFINE r == [a EXCEPT !.daily = d]
<1>2. d \in Nat /\ d <= l
  <2> DEFINE y == a.daily + x
  <2>1. y \in Int /\ 0 <= y /\ y <= l /\ l \in Int /\ Whole(l)
    BY <1>1
  <2> HIDE DEF l, y
  <2>2. Round2(y) \in Int /\ y <= Round2(y)
    BY <2>1, Round2Facts
  <2>3. Round2(y) <= l
    BY <2>1, Round2Limit
  <2>4. d = Round2(y)
    BY DEF y
  <2> HIDE DEF d
  <2> QED BY <2>1, <2>2, <2>3, <2>4
<1> HIDE DEF d
<1>3. /\ r \in Account /\ r.daily = d /\ r.type = a.type /\ r.date = a.date
      /\ r.balance = a.balance /\ r.deposited = a.deposited /\ r.withdrawn = a.withdrawn
  BY <1>2 DEF GoodAccount, Account
<1>4. Count(a, x) = r
  BY DEF Count, d
<1> HIDE DEF r
<1>5. GoodAccount(r)
  BY <1>2, <1>3 DEF GoodAccount
<1> QED BY <1>3, <1>4, <1>5 DEF d

\* Crediting keeps a record good.
LEMMA CreditGood ==
  ASSUME NEW a, GoodAccount(a), NEW x \in Nat
  PROVE  /\ GoodAccount(Credit(a, x))
         /\ Credit(a, x).balance = Round2(a.balance + x)
         /\ Credit(a, x).deposited = Round2(a.deposited + x)
         /\ Credit(a, x).withdrawn = a.withdrawn
         /\ Credit(a, x).daily = a.daily
         /\ Credit(a, x).type = a.type
         /\ Credit(a, x).date = a.date
<1>1. a.balance \in Nat /\ a.deposited \in Nat
  BY DEF GoodAccount, Account
<1> DEFINE b == Round2(a.balance + x)
           t == Round2(a.deposited + x)
<1>2. b \in Nat /\ t \in Nat /\ Whole(b) /\ Whole(t)
  BY <1>1, Round2Facts
<1> HIDE DEF b, t
<1> DEFINE r == [a EXCEPT !.balance = b, !.deposited = t]
<1>3. /\ r \in Account /\ r.balance = b /\ r.deposited = t /\ r.withdrawn = a.withdrawn
      /\ r.daily = a.daily /\ r.type = a.type /\ r.date = a.date
  BY <1>2 DEF GoodAccount, Account
<1>4. Credit(a, x) = r
  BY DEF Credit, b, t
<1> HIDE DEF r
<1>5. GoodAccount(r)
  BY <1>2, <1>3 DEF GoodAccount
<1> QED BY <1>3, <1>4, <1>5 DEF b, t

\* Debiting an amount the balance covers keeps a record good.
LEMMA DebitGood ==
  ASSUME NEW a, GoodAccount(a), NEW x \in Nat, x <= a.balance
  PROVE  /\ GoodAccount(Debit(a, x))
         /\ Debit(a, x).balance = Round2(a.balance - x)
         /\ Debit(a, x).deposited = a.deposited
         /\ Debit(a, x).withdrawn = Round2(a.withdrawn + x)
         /\ Debit(a, x).daily = a.daily
         /\ Debit(a, x).type = a.type
         /\ Debit(a, x).date = a.date
<1>1. a.balance \in Nat /\ a.withdrawn \in Nat
  BY DEF GoodAccount, Account
<1> DEFINE b == Round2(a.balance - x)
           t == Round2(a.withdrawn + x)
<1>2. b \in Nat /\ t \in Nat /\ Whole(b) /\ Whole(t)
  BY <1>1, Round2Facts
<1> HIDE DEF b, t
<1> DEFINE r == [a EXCEPT !.balance = b, !.withdrawn = t]
<1>3. /\ r \in Account /\ r.balance = b /\ r.withdrawn = t /\ r.deposited = a.deposited
      /\ r.daily = a.daily /\ r.type = a.type /\ r.date = a.date
  BY <1>2 DEF GoodAccount, Account
<1>4. Debit(a, x) = r
  BY DEF Debit, b, t
<1> HIDE DEF r
<1>5. GoodAccount(r)
  BY <1>2, <1>3 DEF GoodAccount
<1> QED BY <1>3, <1>4, <1>5 DEF b, t

-----------------------------------------------------------------------------
(* A record appended to the log of an account *)

\* A record that moves the balance by its own amount extends an explanation.
LEMMA ExplainsAppend ==
  ASSUME NEW log \in Seq(Entry), NEW o \in Nat, NEW balance, Explains(log, o, balance),
         NEW e \in Entry, e.after = Moved(e, balance)
  PROVE  Explains(Append(log, e), o, e.after)
<1> DEFINE new == Append(log, e)
<1>1. /\ Len(log) \in Nat /\ o <= Len(log)
      /\ Len(new) = Len(log) + 1
      /\ \A k \in 1 .. Len(log) : new[k] = log[k]
      /\ new[Len(log) + 1] = e
  BY AppendProperties, LenProperties DEF Explains
<1> HIDE DEF new
<1>2. ASSUME NEW k \in o + 1 .. Len(log) + 1
      PROVE  Before(new, o, k) = Before(log, o, k)
  <2>1. CASE k = o + 1
    BY <2>1 DEF Before
  <2>2. CASE k # o + 1
    <3>1. k - 1 \in 1 .. Len(log)
      BY <1>1, <1>2, <2>2
    <3>2. new[k - 1] = log[k - 1]
      BY <3>1, <1>1
    <3> QED BY <2>2, <3>2 DEF Before
  <2> QED BY <2>1, <2>2
<1>3. ASSUME NEW k \in o + 1 .. Len(new)
      PROVE  new[k].after = Moved(new[k], Before(new, o, k))
  <2>1. CASE k = Len(log) + 1
    <3>1. Before(new, o, k) = balance
      BY <1>1, <1>2, <2>1 DEF Explains
    <3> QED BY <1>1, <2>1, <3>1
  <2>2. CASE k # Len(log) + 1
    <3>1. k \in o + 1 .. Len(log) /\ k \in 1 .. Len(log) /\ k \in o + 1 .. Len(log) + 1
      BY <1>1, <1>3, <2>2
    <3>2. new[k] = log[k] /\ Before(new, o, k) = Before(log, o, k)
      BY <3>1, <1>1, <1>2
    <3> QED BY <3>1, <3>2 DEF Explains
  <2> QED BY <2>1, <2>2
<1>4. e.after = Before(new, o, Len(new) + 1)
  <2>1. Len(new) + 1 # o + 1 /\ Len(new) + 1 - 1 = Len(log) + 1
    BY <1>1
  <2> QED BY <1>1, <2>1 DEF Before
<1>5. o <= Len(new)
  BY <1>1
<1>6. Explains(new, o, e.after)
  BY <1>3, <1>4, <1>5 DEF Explains
<1> QED BY <1>6 DEF new

\* A log of whole amounts is one with its last record taken off.
LEMMA WholeAppend ==
  ASSUME NEW log \in Seq(Entry), NEW o \in Nat, o <= Len(log), NEW e \in Entry,
         WholeSince(Append(log, e), o)
  PROVE  WholeSince(log, o) /\ Whole(e.amount)
<1> DEFINE new == Append(log, e)
<1>1. /\ Len(log) \in Nat
      /\ Len(new) = Len(log) + 1
      /\ \A k \in 1 .. Len(log) : new[k] = log[k]
      /\ new[Len(log) + 1] = e
  BY AppendProperties, LenProperties
<1>2. \A k \in o + 1 .. Len(new) : Whole(new[k].amount)
  BY DEF WholeSince
<1> HIDE DEF new
<1>3. Whole(e.amount)
  BY <1>1, <1>2
<1>4. ASSUME NEW k \in o + 1 .. Len(log)
      PROVE  Whole(log[k].amount)
  <2>1. k \in 1 .. Len(log) /\ k \in o + 1 .. Len(new)
    BY <1>1
  <2> QED BY <1>1, <1>2, <2>1
<1> QED BY <1>3, <1>4 DEF WholeSince

\* An operation that moves no money keeps the account sound.
LEMMA SoundSame ==
  ASSUME NEW a, NEW b, NEW log, NEW o, Sound(a, log, o), GoodAccount(b),
         b.balance = a.balance, b.deposited = a.deposited, b.withdrawn = a.withdrawn
  PROVE  Sound(b, log, o)
BY DEF Sound, Balanced

\* An operation that brings money in, and logs it, keeps the account sound.
LEMMA SoundIn ==
  ASSUME NEW a, NEW b, NEW log \in Seq(Entry), NEW o \in Nat, Sound(a, log, o),
         GoodAccount(b), NEW e \in Entry, e.inward, e.after = b.balance,
         b.balance = Round2(a.balance + e.amount),
         b.deposited = Round2(a.deposited + e.amount),
         b.withdrawn = a.withdrawn
  PROVE  Sound(b, Append(log, e), o)
<1>1. Explains(Append(log, e), o, b.balance)
  <2>1. e.after = Moved(e, a.balance)
    BY DEF Moved
  <2> QED BY <2>1, ExplainsAppend DEF Sound
<1>2. ASSUME WholeSince(Append(log, e), o)
      PROVE  Balanced(b)
  <2>1. o <= Len(log)
    BY DEF Sound, Explains
  <2>2. Balanced(a) /\ Whole(e.amount)
    BY <1>2, <2>1, WholeAppend DEF Sound
  <2> DEFINE p == a.balance
             q == a.deposited
             r == a.withdrawn
             x == e.amount
  <2>3. /\ p \in Int /\ q \in Int /\ r \in Int /\ x \in Int
        /\ Whole(p) /\ Whole(q) /\ Whole(x)
    BY <2>2 DEF Sound, GoodAccount, Account, Entry
  <2>4. p = a.deposited - a.withdrawn
    BY <2>2 DEF Balanced
  <2>5. b.balance = Round2(p + x) /\ b.deposited = Round2(q + x) /\ b.withdrawn = r
    OBVIOUS
  <2>6. b.balance = p + x /\ b.deposited = q + x
    <3> HIDE DEF p, q, r, x
    <3> QED BY <2>3, <2>5, Round2Sum
  <2>7. b.balance = b.deposited - b.withdrawn
    <3>1. p = q - r
      BY <2>4
    <3> HIDE DEF p, q, r, x
    <3> QED BY <2>3, <2>5, <2>6, <3>1
  <2> QED BY <2>7 DEF Balanced
<1> QED BY <1>1, <1>2 DEF Sound

\* An operation that takes money out, and logs it, keeps the account sound.
LEMMA SoundOut ==
  ASSUME NEW a, NEW b, NEW log \in Seq(Entry), NEW o \in Nat, Sound(a, log, o),
         GoodAccount(b), NEW e \in Entry, ~e.inward, e.after = b.balance,
         b.balance = Round2(a.balance - e.amount),
         b.withdrawn = Round2(a.withdrawn + e.amount),
         b.deposited = a.deposited
  PROVE  Sound(b, Append(log, e), o)
<1>1. Explains(Append(log, e), o, b.balance)
  <2>1. e.after = Moved(e, a.balance)
    BY DEF Moved
  <2> QED BY <2>1, ExplainsAppend DEF Sound
<1>2. ASSUME WholeSince(Append(log, e), o)
      PROVE  Balanced(b)
  <2>1. o <= Len(log)
    BY DEF Sound, Explains
  <2>2. Balanced(a) /\ Whole(e.amount)
    BY <1>2, <2>1, WholeAppend DEF Sound
  <2> DEFINE p == a.balance
             q == a.withdrawn
             r == a.deposited
             x == e.amount
  <2>3. /\ p \in Int /\ q \in Int /\ r \in Int /\ x \in Int
        /\ Whole(p) /\ Whole(q) /\ Whole(x)
    BY <2>2 DEF Sound, GoodAccount, Account, Entry
  <2>4. p = a.deposited - a.withdrawn
    BY <2>2 DEF Balanced
  <2>5. b.balance = Round2(p - x) /\ b.withdrawn = Round2(q + x) /\ b.deposited = r
    OBVIOUS
  <2>6. b.balance = p - x /\ b.withdrawn = q + x
    <3> HIDE DEF p, q, r, x
    <3> QED BY <2>3, <2>5, Round2Sum
  <2>7. b.balance = b.deposited - b.withdrawn
    <3>1. p = r - q
      BY <2>4
    <3> HIDE DEF p, q, r, x
    <3> QED BY <2>3, <2>5, <2>6, <3>1
  <2> QED BY <2>7 DEF Balanced
<1> QED BY <1>1, <1>2 DEF Sound

-----------------------------------------------------------------------------
(* Every step keeps the inductive invariant *)

\* What the invariant says of one account.
LEMMA SoundAt ==
  ASSUME IInv, NEW i \in DOMAIN accounts
  PROVE  /\ i \in Ids
         /\ ledger[i] \in Seq(Entry)
         /\ opened[i] \in Nat
         /\ today \in Nat
         /\ Sound(accounts[i], ledger[i], opened[i])
         /\ GoodAccount(accounts[i])
BY DEF IInv, TypeOK, Sound

\* It is enough that each account of the next state is sound.
LEMMA SoundNext ==
  ASSUME NEW S \in SUBSET Ids, NEW f, accounts' = [i \in S |-> f[i]],
         ledger' \in [Ids -> Seq(Entry)],
         opened' \in [Ids -> Nat],
         today' \in Nat \ {0},
         \A i \in S : Sound(f[i], ledger'[i], opened'[i])
  PROVE  IInv'
<1>1. DOMAIN accounts' = S /\ \A i \in S : accounts'[i] = f[i]
  OBVIOUS
<1>2. \A i \in S : f[i] \in Account
  BY DEF Sound, GoodAccount
<1>3. accounts' \in [DOMAIN accounts' -> Account]
  BY <1>1, <1>2
<1> QED BY <1>1, <1>3 DEF IInv, TypeOK

\* An operation that stores one record and perhaps logs one.
LEMMA StoreSound ==
  ASSUME IInv, NEW i \in DOMAIN accounts, NEW a, NEW log \in Seq(Entry),
         Sound(a, log, opened[i]),
         Store(i, a), ledger' = [ledger EXCEPT ![i] = log], UNCHANGED <<today, opened>>
  PROVE  IInv'
<1> DEFINE f == [accounts EXCEPT ![i] = a]
<1>1. accounts' = [j \in DOMAIN accounts |-> f[j]]
  BY DEF Store
<1>2. ledger' \in [Ids -> Seq(Entry)] /\ opened' \in [Ids -> Nat] /\ today' \in Nat \ {0}
      /\ DOMAIN accounts \in SUBSET Ids
  BY DEF IInv, TypeOK
<1>3. ASSUME NEW j \in DOMAIN accounts
      PROVE  Sound(f[j], ledger'[j], opened'[j])
  <2>1. CASE j = i
    BY <2>1, SoundAt DEF IInv, TypeOK
  <2>2. CASE j # i
    <3>1. f[j] = accounts[j] /\ ledger'[j] = ledger[j] /\ opened'[j] = opened[j]
      BY <2>2, SoundAt DEF IInv, TypeOK
    <3> QED BY <3>1, SoundAt
  <2> QED BY <2>1, <2>2
<1> HIDE DEF f
<1> QED BY <1>1, <1>2, <1>3, SoundNext

\* A refused operation may have reset the daily counter.
LEMMA RefusedSound ==
  ASSUME IInv, NEW i \in DOMAIN accounts, Store(i, ResetDaily(accounts[i], today)),
         UNCHANGED <<ledger, today, opened>>
  PROVE  IInv'
<1>1. Sound(ResetDaily(accounts[i], today), ledger[i], opened[i])
  BY SoundAt, ResetDailyGood, SoundSame
<1>2. ledger' = [ledger EXCEPT ![i] = ledger[i]]
  BY DEF IInv, TypeOK
<1> QED BY <1>1, <1>2, SoundAt, StoreSound

\* The paying side of withdraw and transfer.
LEMMA PaySound ==
  ASSUME NEW a0, NEW log \in Seq(Entry), NEW o \in Nat, Sound(a0, log, o),
         NEW day \in Nat, NEW x \in Nat, Affordable(ResetDaily(a0, day), x),
         NEW e \in Entry, ~e.inward, e.amount = x,
         NEW b, b = Count(Debit(ResetDaily(a0, day), x), x), e.after = b.balance
  PROVE  Sound(b, Append(log, e), o) /\ GoodAccount(b)
<1> DEFINE a == ResetDaily(a0, day)
           d == Debit(a, x)
<1>1. GoodAccount(a) /\ a.balance = a0.balance /\ a.deposited = a0.deposited
      /\ a.withdrawn = a0.withdrawn
  BY ResetDailyGood DEF Sound
<1>2. WithinLimit(a, x) /\ x <= a.balance
  BY DEF Affordable
<1> HIDE DEF a
<1>3. GoodAccount(d) /\ WithinLimit(d, x) /\ d.balance = Round2(a.balance - x)
      /\ d.withdrawn = Round2(a.withdrawn + x) /\ d.deposited = a.deposited
  BY <1>1, <1>2, DebitGood DEF WithinLimit
<1> HIDE DEF d
<1>4. GoodAccount(Count(d, x)) /\ Count(d, x).balance = d.balance
      /\ Count(d, x).withdrawn = d.withdrawn /\ Count(d, x).deposited = d.deposited
  BY <1>3, CountGood
<1>5. b = Count(d, x)
  BY DEF d, a
<1>6. b.balance = Round2(a0.balance - e.amount) /\ b.deposited = a0.deposited
      /\ b.withdrawn = Round2(a0.withdrawn + e.amount)
  BY <1>1, <1>3, <1>4, <1>5
<1> QED BY <1>4, <1>5, <1>6, SoundOut

\* ... leaves a good record.
LEMMA PayGood ==
  ASSUME NEW a0, GoodAccount(a0), NEW day \in Nat, NEW x \in Nat,
         Affordable(ResetDaily(a0, day), x)
  PROVE  GoodAccount(Count(Debit(ResetDaily(a0, day), x), x))
<1> DEFINE a == ResetDaily(a0, day)
<1>1. GoodAccount(a) /\ WithinLimit(a, x) /\ x <= a.balance
  BY ResetDailyGood DEF Affordable
<1> HIDE DEF a
<1>2. GoodAccount(Debit(a, x)) /\ WithinLimit(Debit(a, x), x)
  BY <1>1, DebitGood DEF WithinLimit
<1>3. GoodAccount(Count(Debit(a, x), x))
  BY <1>2, CountGood
<1> QED BY <1>3 DEF a

\* A deposit.
LEMMA PutSound ==
  ASSUME NEW a0, NEW log \in Seq(Entry), NEW o \in Nat, Sound(a0, log, o),
         NEW day \in Nat, NEW x \in Nat, WithinLimit(ResetDaily(a0, day), x),
         NEW e \in Entry, e.inward, e.amount = x,
         NEW b, b = Count(Credit(ResetDaily(a0, day), x), x), e.after = b.balance
  PROVE  Sound(b, Append(log, e), o)
<1> DEFINE a == ResetDaily(a0, day)
           d == Credit(a, x)
<1>1. GoodAccount(a) /\ a.balance = a0.balance /\ a.deposited = a0.deposited
      /\ a.withdrawn = a0.withdrawn /\ WithinLimit(a, x)
  BY ResetDailyGood DEF Sound
<1> HIDE DEF a
<1>2. GoodAccount(d) /\ WithinLimit(d, x) /\ d.balance = Round2(a.balance + x)
      /\ d.deposited = Round2(a.deposited + x) /\ d.withdrawn = a.withdrawn
  BY <1>1, CreditGood DEF WithinLimit
<1> HIDE DEF d
<1>3. GoodAccount(Count(d, x)) /\ Count(d, x).balance = d.balance
      /\ Count(d, x).withdrawn = d.withdrawn /\ Count(d, x).deposited = d.deposited
  BY <1>2, CountGood
<1>4. b = Count(d, x)
  BY DEF d, a
<1>5. b.balance = Round2(a0.balance + e.amount) /\ b.withdrawn = a0.withdrawn
      /\ b.deposited = Round2(a0.deposited + e.amount)
  BY <1>1, <1>2, <1>3, <1>4
<1> QED BY <1>3, <1>4, <1>5, SoundIn

\* Before any of its records, an account without money is sound.
LEMMA OpenSound ==
  ASSUME NEW log \in Seq(Entry), NEW type \in AccountType
  PROVE  Sound(NewAccount(type), log, Len(log))
<1>1. Len(log) \in Nat
  BY LenProperties
<1>2. NewAccount(type).balance = 0 /\ NewAccount(type).deposited = 0
      /\ NewAccount(type).withdrawn = 0
  BY DEF NewAccount
<1>3. Explains(log, Len(log), 0)
  BY <1>1 DEF Explains, Before
<1>4. Balanced(NewAccount(type))
  BY <1>2 DEF Balanced
<1> QED BY <1>2, <1>3, <1>4, NewAccountGood DEF Sound

-----------------------------------------------------------------------------
\* acct_deposit keeps the inductive invariant, whether it is accepted or refused.
LEMMA DepositSound ==
  ASSUME IInv, NEW i \in DOMAIN accounts, NEW x \in Nat, Deposit(i, x)
  PROVE  IInv'
<1> DEFINE a == ResetDaily(accounts[i], today)
           b == Count(Credit(a, x), x)
<1>1. UNCHANGED <<today, opened>> /\ TypeOK
  BY DEF Deposit, IInv
<1>2. ASSUME NEW w \in BOOLEAN, WithinLimit(a, x), Store(i, b),
             Log(i, Record("DEPOSIT", TRUE, x, b, w))
      PROVE  IInv'
  <2> DEFINE e == Record("DEPOSIT", TRUE, x, b, w)
  <2>0. Log(i, e)
    BY <1>2
  <2>1. GoodAccount(b) /\ b.balance \in Nat
    <3>1. GoodAccount(a)
      BY SoundAt, ResetDailyGood
    <3> HIDE DEF a
    <3>2. GoodAccount(Credit(a, x)) /\ WithinLimit(Credit(a, x), x)
      BY <1>1, <1>2, <3>1, CreditGood DEF WithinLimit
    <3>3. GoodAccount(b)
      BY <1>1, <3>2, CountGood
    <3> HIDE DEF b
    <3> QED BY <3>3 DEF GoodAccount, Account
  <2> HIDE DEF b
  <2>e. e = Record("DEPOSIT", TRUE, x, b, w)
    OBVIOUS
  <2> HIDE DEF e
  <2>2. e \in Entry /\ e.inward /\ e.amount = x /\ e.after = b.balance
    BY <1>1, <2>1, <2>e DEF Record, Entry, TypeOK
  <2>3. Sound(b, Append(ledger[i], e), opened[i])
    BY <1>1, <1>2, <2>2, SoundAt, PutSound DEF a, b
  <2>4. ledger' = [ledger EXCEPT ![i] = Append(ledger[i], e)]
    BY <2>0 DEF Log
  <2>5. Append(ledger[i], e) \in Seq(Entry)
    BY <2>2, SoundAt, AppendProperties
  <2> QED BY <1>1, <1>2, <2>3, <2>4, <2>5, StoreSound
<1>3. CASE Store(i, a) /\ UNCHANGED ledger
  BY <1>1, <1>3, RefusedSound
<1> QED BY <1>2, <1>3 DEF Deposit, Outcomes

\* acct_withdraw keeps the inductive invariant.
LEMMA WithdrawSound ==
  ASSUME IInv, NEW i \in DOMAIN accounts, NEW x \in Nat, Withdraw(i, x)
  PROVE  IInv'
<1> DEFINE a == ResetDaily(accounts[i], today)
           b == Count(Debit(a, x), x)
<1>1. UNCHANGED <<today, opened>> /\ TypeOK
  BY DEF Withdraw, IInv
<1>2. ASSUME NEW w \in BOOLEAN, Affordable(a, x), Store(i, b),
             Log(i, Record("WITHDRAW", FALSE, x, b, w))
      PROVE  IInv'
  <2> DEFINE e == Record("WITHDRAW", FALSE, x, b, w)
  <2>0. Log(i, e)
    BY <1>2
  <2>1. GoodAccount(b) /\ b.balance \in Nat
    <3>1. GoodAccount(b)
      BY <1>1, <1>2, SoundAt, PayGood
    <3> HIDE DEF b
    <3> QED BY <3>1 DEF GoodAccount, Account
  <2> HIDE DEF b
  <2>e. e = Record("WITHDRAW", FALSE, x, b, w)
    OBVIOUS
  <2> HIDE DEF e
  <2>2. e \in Entry /\ ~e.inward /\ e.amount = x /\ e.after = b.balance
    BY <1>1, <2>1, <2>e DEF Record, Entry, TypeOK
  <2>3. Sound(b, Append(ledger[i], e), opened[i])
    BY <1>1, <1>2, <2>2, SoundAt, PaySound DEF a, b
  <2>4. ledger' = [ledger EXCEPT ![i] = Append(ledger[i], e)]
    BY <2>0 DEF Log
  <2>5. Append(ledger[i], e) \in Seq(Entry)
    BY <2>2, SoundAt, AppendProperties
  <2> QED BY <1>1, <1>2, <2>3, <2>4, <2>5, StoreSound
<1>3. CASE Store(i, a) /\ UNCHANGED ledger
  BY <1>1, <1>3, RefusedSound
<1> QED BY <1>2, <1>3 DEF Withdraw, Outcomes

\* acct_transfer keeps the inductive invariant: both ends stay sound.
LEMMA TransferSound ==
  ASSUME IInv, NEW i \in DOMAIN accounts, NEW j \in DOMAIN accounts, NEW x \in Nat,
         Transfer(i, j, x)
  PROVE  IInv'
<1> DEFINE a == ResetDaily(accounts[i], today)
           b == Count(Debit(a, x), x)
           c == Credit(accounts[j], x)
<1>1. UNCHANGED <<today, opened>> /\ TypeOK /\ i # j
  BY DEF Transfer, IInv
<1>2. ASSUME NEW v \in BOOLEAN, NEW w \in BOOLEAN, Affordable(a, x),
             accounts' = [accounts EXCEPT ![i] = b, ![j] = c],
             ledger' = [ledger EXCEPT ![i] = Append(@, Record("TRANSFER", FALSE, x, b, v)),
                                      ![j] = Append(@, Record("TRANSFER", TRUE, x, c, w))]
      PROVE  IInv'
  <2> DEFINE d == Record("TRANSFER", FALSE, x, b, v)
             e == Record("TRANSFER", TRUE, x, c, w)
  <2>0. ledger' = [ledger EXCEPT ![i] = Append(@, d), ![j] = Append(@, e)]
    BY <1>2
  <2>1. GoodAccount(b) /\ b.balance \in Nat
    <3>1. GoodAccount(b)
      BY <1>1, <1>2, SoundAt, PayGood
    <3> HIDE DEF b
    <3> QED BY <3>1 DEF GoodAccount, Account
  <2>2. /\ GoodAccount(c)
        /\ c.balance = Round2(accounts[j].balance + x)
        /\ c.deposited = Round2(accounts[j].deposited + x)
        /\ c.withdrawn = accounts[j].withdrawn
    BY <1>1, SoundAt, CreditGood
  <2> HIDE DEF b, c
  <2>e. d = Record("TRANSFER", FALSE, x, b, v) /\ e = Record("TRANSFER", TRUE, x, c, w)
    OBVIOUS
  <2> HIDE DEF d, e
  <2>3. d \in Entry /\ ~d.inward /\ d.amount = x /\ d.after = b.balance
    BY <1>1, <2>1, <2>e DEF Record, Entry, TypeOK
  <2>4. e \in Entry /\ e.inward /\ e.amount = x /\ e.after = c.balance
    <3>1. c.balance \in Nat
      BY <2>2 DEF GoodAccount, Account
    <3> QED BY <1>1, <1>2, <2>e, <3>1 DEF Record, Entry, TypeOK
  <2>5. Sound(b, Append(ledger[i], d), opened[i])
    BY <1>1, <1>2, <2>3, SoundAt, PaySound DEF a, b
  <2>6. Sound(c, Append(ledger[j], e), opened[j])
    BY <2>2, <2>4, SoundAt, SoundIn
  <2> HIDE DEF a
  <2> DEFINE f == [accounts EXCEPT ![i] = b, ![j] = c]
  <2>7. accounts' = [k \in DOMAIN accounts |-> f[k]]
    BY <1>2
  <2>8. i \in Ids /\ j \in Ids /\ ledger \in [Ids -> Seq(Entry)]
        /\ Append(ledger[i], d) \in Seq(Entry) /\ Append(ledger[j], e) \in Seq(Entry)
    BY <1>1, <2>3, <2>4, SoundAt, AppendProperties DEF TypeOK
  <2>9. /\ ledger' \in [Ids -> Seq(Entry)]
        /\ ledger'[i] = Append(ledger[i], d)
        /\ ledger'[j] = Append(ledger[j], e)
        /\ \A k \in Ids \ {i, j} : ledger'[k] = ledger[k]
    BY <1>1, <2>0, <2>8
  <2>10. ASSUME NEW k \in DOMAIN accounts
         PROVE  Sound(f[k], ledger'[k], opened'[k])
    <3>1. CASE k = i
      BY <1>1, <2>5, <2>9, <3>1
    <3>2. CASE k = j
      BY <1>1, <2>6, <2>9, <3>2
    <3>3. CASE k \notin {i, j}
      <4>1. f[k] = accounts[k] /\ ledger'[k] = ledger[k] /\ opened'[k] = opened[k]
        BY <1>1, <2>9, <3>3, SoundAt
      <4> QED BY <4>1, SoundAt
    <3> QED BY <3>1, <3>2, <3>3
  <2> HIDE DEF f
  <2> QED BY <1>1, <2>7, <2>9, <2>10, SoundNext DEF TypeOK
<1>3. CASE Store(i, a) /\ UNCHANGED ledger
  BY <1>1, <1>3, RefusedSound
<1> QED BY <1>2, <1>3 DEF Transfer, Outcomes

\* The interest batch keeps the inductive invariant.
LEMMA InterestSound ==
  ASSUME IInv, ApplyInterestAll
  PROVE  IInv'
<1> DEFINE f == [i \in DOMAIN accounts |->
                   IF i \in Earning THEN WithInterest(accounts[i]) ELSE accounts[i]]
           x(i) == MonthlyInterest(accounts[i])
<1>1. UNCHANGED <<today, opened>> /\ TypeOK
  BY DEF ApplyInterestAll, IInv
<1>w. PICK W \in [Earning -> Outcomes] :
         ledger' = [i \in Ids |->
                      IF i \in Earning
                      THEN Append(ledger[i], Record("INTEREST", TRUE, x(i),
                                                    WithInterest(accounts[i]), W[i]))
                      ELSE ledger[i]]
  BY DEF ApplyInterestAll
<1> DEFINE e(i) == Record("INTEREST", TRUE, x(i), WithInterest(accounts[i]), W[i])
<1>2. ASSUME NEW i \in Earning
      PROVE  /\ i \in DOMAIN accounts
             /\ e(i) \in Entry
             /\ Sound(WithInterest(accounts[i]), Append(ledger[i], e(i)), opened[i])
             /\ Append(ledger[i], e(i)) \in Seq(Entry)
  <2> DEFINE y == x(i)
             b == WithInterest(accounts[i])
             r == e(i)
  <2>1. i \in DOMAIN accounts /\ W[i] \in BOOLEAN
    BY <1>w DEF Earning, Outcomes
  <2>2. y \in Nat /\ b = Credit(accounts[i], y) /\ GoodAccount(accounts[i])
    BY <2>1, SoundAt, InterestFacts DEF WithInterest, GoodAccount
  <2>3. r = Record("INTEREST", TRUE, y, b, W[i])
    OBVIOUS
  <2> HIDE DEF y, b, r
  <2>4. /\ GoodAccount(b)
        /\ b.balance = Round2(accounts[i].balance + y)
        /\ b.deposited = Round2(accounts[i].deposited + y)
        /\ b.withdrawn = accounts[i].withdrawn
    BY <2>2, CreditGood
  <2>5. r \in Entry /\ r.inward /\ r.amount = y /\ r.after = b.balance
    <3>1. b.balance \in Nat
      BY <2>4 DEF GoodAccount, Account
    <3> QED BY <1>1, <2>1, <2>2, <2>3, <3>1 DEF Record, Entry, TypeOK
  <2>6. Sound(b, Append(ledger[i], r), opened[i]) /\ Append(ledger[i], r) \in Seq(Entry)
    BY <2>1, <2>4, <2>5, SoundAt, SoundIn, AppendProperties
  <2> QED BY <2>1, <2>5, <2>6 DEF b, r
<1> HIDE DEF x, e
<1>3. /\ accounts' = [i \in DOMAIN accounts |-> f[i]]
      /\ ledger' = [i \in Ids |-> IF i \in Earning THEN Append(ledger[i], e(i)) ELSE ledger[i]]
  BY <1>w DEF ApplyInterestAll, e, x
<1>4. ledger' \in [Ids -> Seq(Entry)]
  BY <1>1, <1>2, <1>3 DEF TypeOK
<1>5. ASSUME NEW i \in DOMAIN accounts
      PROVE  Sound(f[i], ledger'[i], opened'[i])
  <2>1. i \in Ids /\ opened' = opened
    BY <1>1, SoundAt
  <2>2. CASE i \in Earning
    <3>1. f[i] = WithInterest(accounts[i]) /\ ledger'[i] = Append(ledger[i], e(i))
      BY <1>3, <2>1, <2>2
    <3> QED BY <1>2, <2>1, <2>2, <3>1
  <2>3. CASE i \notin Earning
    <3>1. f[i] = accounts[i] /\ ledger'[i] = ledger[i]
      BY <1>3, <2>1, <2>3
    <3> QED BY <2>1, <3>1, SoundAt
  <2> QED BY <2>2, <2>3
<1> HIDE DEF f
<1> QED BY <1>1, <1>3, <1>4, <1>5, SoundNext DEF TypeOK

\* Opening an account keeps the inductive invariant, its initial deposit accepted or not.
LEMMA RegisterSound ==
  ASSUME IInv, NEW i \in Customers, NEW type \in AccountType, NEW x \in Nat,
         Register(i, type, x)
  PROVE  IInv'
<1> DEFINE n == NewAccount(type)
           a == ResetDaily(n, today)
           b == Count(Credit(a, x), x)
           o == Len(ledger[i])
           S == DOMAIN accounts \cup {i}
<1>1. /\ today' = today /\ TypeOK
      /\ i \in Ids /\ i \notin DOMAIN accounts
      /\ ledger[i] \in Seq(Entry) /\ o \in Nat /\ today \in Nat
      /\ S \in SUBSET Ids
      /\ opened' = [opened EXCEPT ![i] = o]
  BY LenProperties DEF Register, IInv, TypeOK, Customers
<1>2. /\ opened' \in [Ids -> Nat] /\ opened'[i] = o
      /\ \A k \in Ids \ {i} : opened'[k] = opened[k]
  BY <1>1 DEF TypeOK
<1>3. Sound(n, ledger[i], o)
  BY <1>1, OpenSound
<1> HIDE DEF n
<1>4. ASSUME NEW r, NEW log \in Seq(Entry), Sound(r, log, o),
             accounts' = With(accounts, i, r), ledger' = [ledger EXCEPT ![i] = log]
      PROVE  IInv'
  <2> DEFINE f == [j \in S |-> IF j = i THEN r ELSE accounts[j]]
  <2>1. accounts' = [j \in S |-> f[j]]
    BY <1>4 DEF With
  <2>2. ledger' \in [Ids -> Seq(Entry)]
    BY <1>1, <1>4 DEF TypeOK
  <2>3. ASSUME NEW j \in S
        PROVE  Sound(f[j], ledger'[j], opened'[j])
    <3>1. CASE j = i
      BY <1>1, <1>2, <1>4, <3>1 DEF TypeOK
    <3>2. CASE j # i
      <4>1. j \in DOMAIN accounts /\ j \in Ids \ {i}
        BY <1>1, <3>2
      <4>2. f[j] = accounts[j] /\ ledger'[j] = ledger[j] /\ opened'[j] = opened[j]
        BY <1>1, <1>2, <1>4, <3>2, <4>1 DEF TypeOK
      <4> QED BY <4>1, <4>2, SoundAt
    <3> QED BY <3>1, <3>2
  <2> HIDE DEF f, S
  <2> QED BY <1>1, <1>2, <2>1, <2>2, <2>3, SoundNext DEF TypeOK
<1>5. ASSUME NEW w \in BOOLEAN, WithinLimit(a, x), accounts' = With(accounts, i, b),
             Log(i, Record("DEPOSIT", TRUE, x, b, w))
      PROVE  IInv'
  <2> DEFINE e == Record("DEPOSIT", TRUE, x, b, w)
  <2>0. Log(i, e)
    BY <1>5
  <2>1. GoodAccount(b) /\ b.balance \in Nat
    <3>1. GoodAccount(a)
      BY <1>1, <1>3, ResetDailyGood DEF Sound
    <3> HIDE DEF a
    <3>2. GoodAccount(Credit(a, x)) /\ WithinLimit(Credit(a, x), x)
      BY <1>1, <1>5, <3>1, CreditGood DEF WithinLimit
    <3>3. GoodAccount(b)
      BY <1>1, <3>2, CountGood
    <3> HIDE DEF b
    <3> QED BY <3>3 DEF GoodAccount, Account
  <2> HIDE DEF b
  <2>e. e = Record("DEPOSIT", TRUE, x, b, w)
    OBVIOUS
  <2> HIDE DEF e
  <2>2. e \in Entry /\ e.inward /\ e.amount = x /\ e.after = b.balance
    BY <1>1, <2>1, <2>e DEF Record, Entry, TypeOK
  <2>3. Sound(b, Append(ledger[i], e), o)
    <3> HIDE DEF o
    <3> QED BY <1>1, <1>3, <1>5, <2>2, PutSound DEF a, b
  <2>4. ledger' = [ledger EXCEPT ![i] = Append(ledger[i], e)]
    BY <2>0 DEF Log
  <2>5. Append(ledger[i], e) \in Seq(Entry)
    BY <1>1, <2>2, AppendProperties
  <2> QED BY <1>4, <1>5, <2>3, <2>4, <2>5
<1>6. CASE accounts' = With(accounts, i, a) /\ UNCHANGED ledger
  <2>1. Sound(a, ledger[i], o)
    BY <1>1, <1>3, ResetDailyGood, SoundSame DEF Sound
  <2>2. ledger' = [ledger EXCEPT ![i] = ledger[i]]
    BY <1>1, <1>6 DEF TypeOK
  <2> QED BY <1>1, <1>4, <1>6, <2>1, <2>2
<1> QED BY <1>5, <1>6 DEF Register, Outcomes, n

\* Deleting an account keeps the inductive invariant: the other accounts are as they were.
LEMMA DeleteSound ==
  ASSUME IInv, NEW i \in DOMAIN accounts, Delete(i)
  PROVE  IInv'
<1>1. accounts' = [j \in DOMAIN accounts \ {i} |-> accounts[j]] /\ UNCHANGED <<ledger, today, opened>>
  BY DEF Delete, Without
<1> QED BY <1>1, SoundAt, SoundNext DEF IInv, TypeOK

\* Freezing, unfreezing and locking keep the inductive invariant.
LEMMA StatusSound ==
  ASSUME IInv, NEW i \in DOMAIN accounts, NEW from, NEW to \in AccountStatus,
         SetStatus(i, from, to)
  PROVE  IInv'
<1> DEFINE a == [accounts[i] EXCEPT !.status = to]
<1>1. Sound(a, ledger[i], opened[i])
  <2>1. /\ a \in Account /\ a.balance = accounts[i].balance
        /\ a.deposited = accounts[i].deposited /\ a.withdrawn = accounts[i].withdrawn
        /\ a.daily = accounts[i].daily /\ a.type = accounts[i].type
    BY SoundAt DEF GoodAccount, Account
  <2> HIDE DEF a
  <2> QED BY <2>1, SoundAt, SoundSame DEF GoodAccount
<1>2. Store(i, a) /\ UNCHANGED <<today, opened>> /\ ledger' = [ledger EXCEPT ![i] = ledger[i]]
  BY DEF SetStatus, IInv, TypeOK
<1> HIDE DEF a
<1> QED BY <1>1, <1>2, SoundAt, StoreSound

-----------------------------------------------------------------------------
\* The inductive invariant holds at the start.
LEMMA InitSound ==
  ASSUME Init
  PROVE  IInv
<1>1. ASSUME NEW i \in DOMAIN accounts
      PROVE  Sound(accounts[i], ledger[i], opened[i])
  <2>1. accounts[i] = NewAccount("CURRENT") /\ ledger[i] = <<>> /\ opened[i] = 0 /\ Len(<<>>) = 0
    BY IdsAssumption DEF Init
  <2>2. <<>> \in Seq(Entry) /\ "CURRENT" \in AccountType
    BY DEF AccountType
  <2>3. Sound(NewAccount("CURRENT"), <<>>, Len(<<>>))
    BY <2>2, OpenSound
  <2> QED BY <2>1, <2>3
<1>2. TypeOK
  <2>1. NewAccount("CURRENT") \in Account
    BY NewAccountGood DEF GoodAccount, AccountType
  <2> QED BY <2>1, IdsAssumption DEF Init, TypeOK
<1> QED BY <1>1, <1>2 DEF IInv

\* Every step keeps the inductive invariant.
LEMMA NextSound ==
  ASSUME IInv, [Next]_vars
  PROVE  IInv'
<1>1. ASSUME NEW i \in Customers, NEW type \in AccountType, NEW x \in Amounts,
             Register(i, type, x)
      PROVE  IInv'
  BY <1>1, RegisterSound, InputsAssumption
<1>2. ASSUME NEW i \in DOMAIN accounts, NEW x \in Amounts, Deposit(i, x)
      PROVE  IInv'
  BY <1>2, DepositSound, InputsAssumption
<1>3. ASSUME NEW i \in DOMAIN accounts, NEW x \in Amounts, Withdraw(i, x)
      PROVE  IInv'
  BY <1>3, WithdrawSound, InputsAssumption
<1>4. ASSUME NEW i \in DOMAIN accounts, NEW j \in DOMAIN accounts, NEW x \in Amounts,
             Transfer(i, j, x)
      PROVE  IInv'
  BY <1>4, TransferSound, InputsAssumption
<1>5. ASSUME ApplyInterestAll PROVE IInv'
  BY <1>5, InterestSound
<1>6. ASSUME NEW i \in DOMAIN accounts, Delete(i) PROVE IInv'
  BY <1>6, DeleteSound
<1>7. ASSUME NEW i \in DOMAIN accounts, Freeze(i) \/ Unfreeze(i) \/ Lock(i) PROVE IInv'
  BY <1>7, StatusSound DEF Freeze, Unfreeze, Lock, AccountStatus
<1>8. ASSUME NextDay PROVE IInv'
  BY <1>8 DEF NextDay, IInv, TypeOK
<1>9. ASSUME UNCHANGED vars PROVE IInv'
  BY <1>9 DEF vars, IInv, TypeOK
<1> QED BY <1>1, <1>2, <1>3, <1>4, <1>5, <1>6, <1>7, <1>8, <1>9 DEF Next

\* The inductive invariant holds of every reachable state.
THEOREM Invariant == Spec => []IInv
BY InitSound, NextSound, PTL DEF Spec

\* Every variable keeps its type: above all, no balance, total or daily
\* counter ever falls below zero.
THEOREM TypeCorrect == Spec => []TypeOK
<1>1. IInv => TypeOK
  BY DEF IInv
<1> QED BY Invariant, <1>1, PTL

\* Whatever appends fail, a statement adds up between any two records with no failed
\* append between them, and up to the balance unless the last append failed: for any
\* accounts, amounts and limits.
THEOREM LedgerExplainsBalances == Spec => []StatementAddsUp
<1>1. IInv => StatementAddsUp
  BY DEF IInv, Sound, Explains, StatementAddsUp, AddsUp
<1> QED BY Invariant, <1>1, PTL

\* No running daily total ever exceeds the limit of the account's type.
THEOREM DailyLimitKept == Spec => []DailyTotalWithinLimit
<1>1. IInv => DailyTotalWithinLimit
  BY DEF IInv, Sound, GoodAccount, DailyTotalWithinLimit
<1> QED BY Invariant, <1>1, PTL

\* What the balance screen shows as remaining is never negative, nor more than the
\* engine accepts, whatever the day's counter, for every type but the one of an
\* account whose type was never chosen.
THEOREM ShownIsUsable == Spec => []RemainingIsUsable
<1>1. ASSUME IInv, NEW i \in DOMAIN accounts, accounts[i].type # "UNSET"
      PROVE  Usable(accounts[i])
  <2> DEFINE a == accounts[i]
             l == DailyLimit(a.type)
  <2>1. a \in Account /\ a.daily <= l
    BY <1>1 DEF IInv, Sound, GoodAccount
  <2>2. l \in Nat /\ ShownLimit(a.type) = l
    BY <1>1, <2>1, LimitsAssumption DEF DailyLimit, ShownLimit, Account, AccountType
  <2>3. a.daily \in Nat
    BY <2>1 DEF Account
  <2>4. /\ ResetDaily(a, today).daily \in {0, a.daily}
        /\ ResetDaily(a, today).type = a.type
    BY <2>1 DEF ResetDaily, Account
  <2> DEFINE b == ResetDaily(a, today)
  <2>5. b.daily \in {0, a.daily} /\ DailyLimit(b.type) = l
    BY <2>4
  <2> HIDE DEF a, b, l
  <2>6. l - a.daily >= 0 /\ b.daily + (l - a.daily) <= l
    BY <2>1, <2>2, <2>3, <2>5
  <2>7. ShownRemaining(a) >= 0 /\ WithinLimit(b, ShownRemaining(a))
    BY <2>2, <2>5, <2>6 DEF ShownRemaining, WithinLimit
  <2> QED BY <2>7 DEF Usable, a, b
<1>2. IInv => RemainingIsUsable
  BY <1>1 DEF RemainingIsUsable
<1> QED BY Invariant, <1>2, PTL

\* As long as amounts are whole numbers of paise, every balance is the
\* difference of the two totals.
THEOREM TotalsReconcile == Spec => []Reconciled
<1>1. IInv => Reconciled
  BY DEF IInv, Sound, Reconciled
<1> QED BY Invariant, <1>1, PTL

-----------------------------------------------------------------------------
(* What an account moves in a day *)

\* The daily counter as a meter: it counts no less than the ledger says of its day, no
\* limited record is of a later day, and of no day does the ledger say too much.
Metered(a, log, o, day) ==
  /\ a.date <= day
  /\ \A k \in o + 1 .. Len(log) : Limited(log[k]) => log[k].day <= a.date
  /\ Spent(log, o, a.date) <= a.daily
  /\ \A d \in Nat : Spent(log, o, d) <= DailyLimit(a.type)

Meters == \A i \in DOMAIN accounts : Metered(accounts[i], ledger[i], opened[i], today)

\* What a record says are numbers.
LEMMA EntryFields ==
  ASSUME NEW log \in Seq(Entry)
  PROVE  \A k \in 1 .. Len(log) : log[k].amount \in Nat /\ log[k].day \in Nat
<1> SUFFICES ASSUME NEW k \in 1 .. Len(log) PROVE log[k].amount \in Nat /\ log[k].day \in Nat
  OBVIOUS
<1>1. log[k] \in Entry
  OBVIOUS
<1> QED BY <1>1 DEF Entry

\* The limited records of a day are finitely many.
LEMMA LimitedFinite ==
  ASSUME NEW log \in Seq(Entry), NEW o \in Nat, NEW d
  PROVE  LimitedOn(log, o, d) \subseteq 1 .. Len(log) /\ IsFiniteSet(LimitedOn(log, o, d))
<1> DEFINE K == LimitedOn(log, o, d)
           I == 1 .. Len(log)
<1>1. K \subseteq I
  BY DEF LimitedOn
<1>2. IsFiniteSet(I)
  BY LenProperties, FS_Interval
<1> HIDE DEF K, I
<1>3. IsFiniteSet(K)
  BY <1>1, <1>2, FS_Subset
<1> QED BY <1>1, <1>3 DEF K, I

\* Their amounts have a sum.
LEMMA SpentInt ==
  ASSUME NEW log \in Seq(Entry), NEW o \in Nat, NEW d
  PROVE  Spent(log, o, d) \in Int
<1> DEFINE f == [k \in DOMAIN log |-> log[k].amount]
           K == LimitedOn(log, o, d)
<1>1. IsFiniteSet(K) /\ K \subseteq 1 .. Len(log)
  BY LimitedFinite
<1> HIDE DEF K
<1>2. \A k \in K : f[k] \in Int
  BY <1>1, EntryFields
<1> HIDE DEF f
<1>3. SumFunctionOnSet(f, K) \in Int
  BY <1>1, <1>2, SumInt
<1> QED BY <1>3 DEF Spent, f, K

\* A day without limited records.
LEMMA SpentNothing ==
  ASSUME NEW log, NEW o, NEW d, LimitedOn(log, o, d) = {}
  PROVE  Spent(log, o, d) = 0
BY SumEmpty DEF Spent

\* One more record counts for its day, if it is limited.
LEMMA SpentAppend ==
  ASSUME NEW log \in Seq(Entry), NEW o \in Nat, o <= Len(log), NEW e \in Entry, NEW d
  PROVE  Spent(Append(log, e), o, d) =
           Spent(log, o, d) + (IF e.day = d /\ Limited(e) THEN e.amount ELSE 0)
<1> DEFINE new == Append(log, e)
           n == Len(log) + 1
           f == [k \in DOMAIN log |-> log[k].amount]
           g == [k \in DOMAIN new |-> new[k].amount]
           K == LimitedOn(log, o, d)
           L == LimitedOn(new, o, d)
<1>1. /\ new \in Seq(Entry) /\ Len(log) \in Nat /\ Len(new) = n
      /\ DOMAIN log = 1 .. Len(log) /\ DOMAIN new = 1 .. n
      /\ new[n] = e /\ \A k \in 1 .. Len(log) : new[k] = log[k]
  OBVIOUS
<1> HIDE DEF new
<1>2. /\ K \subseteq 1 .. Len(log) /\ IsFiniteSet(K) /\ n \notin K
      /\ L = IF e.day = d /\ Limited(e) THEN K \cup {n} ELSE K
  <2>1. K \subseteq 1 .. Len(log)
    BY LimitedFinite
  <2>2. IsFiniteSet(K)
    BY LimitedFinite
  <2>3. n \notin K
    BY <1>1, <2>1
  <2>4. L = IF e.day = d /\ Limited(e) THEN K \cup {n} ELSE K
    BY <1>1 DEF LimitedOn
  <2> QED BY <2>1, <2>2, <2>3, <2>4
<1>3. /\ \A k \in K : f[k] = g[k] /\ g[k] \in Int
      /\ g[n] = e.amount /\ e.amount \in Int
  <2>1. e.amount \in Int
    BY DEF Entry
  <2>2. K \subseteq 1 .. Len(log)
    BY <1>2
  <2> HIDE DEF K
  <2> QED BY <1>1, <2>1, <2>2, EntryFields
<1>4. Spent(log, o, d) = SumFunctionOnSet(f, K) /\ Spent(new, o, d) = SumFunctionOnSet(g, L)
  BY DEF Spent
<1> HIDE DEF f, g, K, L, n
<1>5. SumFunctionOnSet(f, K) = SumFunctionOnSet(g, K)
  BY <1>2, <1>3, SumEqual
<1>6. SumFunctionOnSet(g, K) \in Int
  BY <1>2, <1>3, SumInt
<1>7. CASE e.day = d /\ Limited(e)
  <2>1. SumFunctionOnSet(g, K \cup {n}) = g[n] + SumFunctionOnSet(g, K)
    <3>1. \A k \in K \cup {n} : g[k] \in Int
      BY <1>3
    <3> QED BY <1>2, <3>1, SumAdd
  <2> QED BY <1>2, <1>3, <1>4, <1>5, <1>6, <1>7, <2>1 DEF new
<1>8. CASE ~(e.day = d /\ Limited(e))
  <2>1. Spent(new, o, d) = Spent(log, o, d) /\ Spent(log, o, d) \in Int
    BY <1>2, <1>4, <1>5, <1>6, <1>8
  <2> QED BY <1>8, <2>1 DEF new
<1> QED BY <1>7, <1>8

\* A counter that is not touched, and a record that is not limited.
LEMMA MeteredSame ==
  ASSUME NEW a, NEW b, NEW log, NEW o, NEW day, Metered(a, log, o, day),
         b.daily = a.daily, b.date = a.date, b.type = a.type
  PROVE  Metered(b, log, o, day)
BY DEF Metered

\* A ledger entry that no limit is about does not move the meter of an account.
LEMMA MeteredUnlimited ==
  ASSUME NEW a, NEW b, NEW log \in Seq(Entry), NEW o \in Nat, NEW day, o <= Len(log),
         Metered(a, log, o, day), b.daily = a.daily, b.date = a.date, b.type = a.type,
         NEW e \in Entry, ~Limited(e)
  PROVE  Metered(b, Append(log, e), o, day)
<1> DEFINE new == Append(log, e)
<1>1. \A d : Spent(new, o, d) = Spent(log, o, d)
  <2> TAKE d
  <2>1. Spent(new, o, d) = Spent(log, o, d) + 0
    BY SpentAppend
  <2>2. Spent(log, o, d) \in Int
    BY SpentInt
  <2> QED BY <2>1, <2>2
<1>2. /\ Len(new) = Len(log) + 1 /\ Len(log) \in Nat /\ new[Len(log) + 1] = e
      /\ \A k \in 1 .. Len(log) : new[k] = log[k]
  OBVIOUS
<1> HIDE DEF new
<1>3. ASSUME NEW k \in o + 1 .. Len(new), Limited(new[k]) PROVE new[k].day <= b.date
  <2>1. k \in o + 1 .. Len(log) /\ k \in 1 .. Len(log)
    BY <1>2, <1>3
  <2> QED BY <1>2, <1>3, <2>1 DEF Metered
<1>4. Metered(b, new, o, day)
  BY <1>1, <1>3 DEF Metered
<1> QED BY <1>4 DEF new

\* The reset: on a new day nothing has been moved yet.
LEMMA MeteredReset ==
  ASSUME NEW a, GoodAccount(a), NEW log \in Seq(Entry), NEW o \in Nat, NEW day \in Nat,
         Metered(a, log, o, day)
  PROVE  Metered(ResetDaily(a, day), log, o, day) /\ ResetDaily(a, day).date = day
<1> DEFINE r == [a EXCEPT !.daily = 0, !.date = day]
<1>1. CASE a.date = day
  BY <1>1 DEF ResetDaily
<1>2. CASE a.date # day
  <2>1. a.date \in Nat /\ a.date < day
    BY <1>2 DEF GoodAccount, Account, Metered
  <2>2. r.daily = 0 /\ r.date = day /\ r.type = a.type
    BY DEF GoodAccount, Account
  <2>3. ResetDaily(a, day) = r
    BY <1>2 DEF ResetDaily
  <2> HIDE DEF r
  <2>4. \A k \in o + 1 .. Len(log) : Limited(log[k]) => log[k].day < day
    <3> SUFFICES ASSUME NEW k \in o + 1 .. Len(log), Limited(log[k]) PROVE log[k].day < day
      OBVIOUS
    <3>1. log[k].day <= a.date
      BY DEF Metered
    <3>2. k \in 1 .. Len(log)
      OBVIOUS
    <3>3. log[k].day \in Nat
      BY <3>2, EntryFields
    <3> QED BY <2>1, <3>1, <3>3
  <2>5. LimitedOn(log, o, day) = {}
    BY <2>4 DEF LimitedOn
  <2>6. Spent(log, o, day) = 0
    BY <2>5, SpentNothing
  <2>7. \A k \in o + 1 .. Len(log) : Limited(log[k]) => log[k].day <= day
    <3> SUFFICES ASSUME NEW k \in o + 1 .. Len(log), Limited(log[k]) PROVE log[k].day <= day
      OBVIOUS
    <3>1. k \in 1 .. Len(log)
      OBVIOUS
    <3>2. log[k].day \in Nat
      BY <3>1, EntryFields
    <3> QED BY <2>4, <3>2
  <2> QED BY <2>2, <2>3, <2>6, <2>7 DEF Metered
<1> QED BY <1>1, <1>2

\* A limited record of the counter's day, for which the limit has room.
LEMMA MeteredCount ==
  ASSUME NEW a, GoodAccount(a), NEW log \in Seq(Entry), NEW o \in Nat, o <= Len(log),
         NEW day \in Nat, Metered(a, log, o, day), a.date = day,
         NEW x \in Nat, WithinLimit(a, x),
         NEW b, b.daily = Round2(a.daily + x), b.date = a.date, b.type = a.type,
         NEW e \in Entry, e.amount = x, e.day = day, Limited(e)
  PROVE  Metered(b, Append(log, e), o, day)
<1> DEFINE new == Append(log, e)
           l == DailyLimit(a.type)
<1>1. /\ l \in Nat /\ a.daily \in Nat /\ a.daily + x <= l
      /\ b.daily \in Int /\ a.daily + x <= b.daily
  <2>1. a.daily \in Nat /\ a.daily + x \in Int
    BY DEF GoodAccount, Account
  <2>2. l \in Nat /\ a.daily + x <= l
    BY LimitFacts DEF WithinLimit
  <2> DEFINE y == a.daily + x
  <2>3. y \in Int /\ b.daily = Round2(y)
    BY <2>1
  <2> HIDE DEF y, l
  <2>4. b.daily \in Int /\ y <= b.daily
    BY <2>3, Round2Facts
  <2>5. a.daily + x <= b.daily
    BY <2>4 DEF y
  <2> QED BY <2>1, <2>2, <2>4, <2>5
<1> HIDE DEF l
<1>2. \A d : Spent(new, o, d) = Spent(log, o, d) + (IF d = day THEN x ELSE 0)
  <2> TAKE d
  <2>1. Spent(new, o, d) = Spent(log, o, d) + (IF e.day = d /\ Limited(e) THEN e.amount ELSE 0)
    BY SpentAppend
  <2> QED BY <2>1
<1>3. \A d : Spent(log, o, d) \in Int
  BY SpentInt
<1>4. Spent(log, o, day) <= a.daily /\ \A d \in Nat : Spent(log, o, d) <= l
  BY DEF Metered, l
<1>5. Spent(new, o, day) <= b.daily /\ \A d \in Nat : Spent(new, o, d) <= l
  <2>1. Spent(new, o, day) = Spent(log, o, day) + x
    BY <1>2
  <2>2. Spent(new, o, day) <= b.daily /\ Spent(new, o, day) <= l
    <3> DEFINE p == Spent(log, o, day)
    <3>1. p \in Int /\ p <= a.daily /\ Spent(new, o, day) = p + x
      BY <1>3, <1>4, <2>1
    <3> HIDE DEF p, new
    <3> QED BY <1>1, <3>1
  <2>3. \A d \in Nat \ {day} : Spent(new, o, d) = Spent(log, o, d)
    BY <1>2, <1>3
  <2> QED BY <1>4, <2>2, <2>3
<1>6. /\ Len(new) = Len(log) + 1 /\ Len(log) \in Nat /\ new[Len(log) + 1] = e
      /\ \A k \in 1 .. Len(log) : new[k] = log[k]
  OBVIOUS
<1> HIDE DEF new
<1>7. ASSUME NEW k \in o + 1 .. Len(new), Limited(new[k]) PROVE new[k].day <= b.date
  <2>1. CASE k = Len(log) + 1
    BY <1>6, <2>1
  <2>2. CASE k # Len(log) + 1
    <3>1. k \in o + 1 .. Len(log) /\ k \in 1 .. Len(log)
      BY <1>6, <1>7, <2>2
    <3> QED BY <1>6, <1>7, <3>1 DEF Metered
  <2> QED BY <2>1, <2>2
<1>8. Metered(b, new, o, day)
  <2>1. b.date <= day
    OBVIOUS
  <2> QED BY <1>5, <1>7, <2>1 DEF Metered, l
<1> QED BY <1>8 DEF new

\* A new account has moved nothing.
LEMMA MeteredOpen ==
  ASSUME NEW log \in Seq(Entry), NEW type, NEW day \in Nat
  PROVE  Metered(NewAccount(type), log, Len(log), day)
<1> DEFINE a == NewAccount(type)
<1>1. a.date = 0 /\ a.daily = 0 /\ a.type = type
  BY DEF NewAccount
<1> HIDE DEF a
<1>2. Len(log) \in Nat /\ Len(log) + 1 .. Len(log) = {}
  OBVIOUS
<1>3. \A d : LimitedOn(log, Len(log), d) = {}
  BY <1>2 DEF LimitedOn
<1>4. \A d : Spent(log, Len(log), d) = 0
  BY <1>3, SpentNothing
<1>5. DailyLimit(type) \in Nat
  BY LimitFacts
<1> QED BY <1>1, <1>2, <1>4, <1>5 DEF Metered, a

\* The paying side of withdraw and transfer, and a deposit.
LEMMA PayMetered ==
  ASSUME NEW a0, GoodAccount(a0), NEW log \in Seq(Entry), NEW o \in Nat, o <= Len(log),
         NEW day \in Nat, Metered(a0, log, o, day),
         NEW x \in Nat, Affordable(ResetDaily(a0, day), x),
         NEW e \in Entry, e.amount = x, e.day = day, Limited(e)
  PROVE  Metered(Count(Debit(ResetDaily(a0, day), x), x), Append(log, e), o, day)
<1> DEFINE a == ResetDaily(a0, day)
           d == Debit(a, x)
           b == Count(d, x)
<1>1. GoodAccount(a) /\ Metered(a, log, o, day) /\ a.date = day
  BY ResetDailyGood, MeteredReset
<1>2. WithinLimit(a, x) /\ x <= a.balance
  BY DEF Affordable
<1> HIDE DEF a
<1>3. GoodAccount(d) /\ d.daily = a.daily /\ d.date = a.date /\ d.type = a.type
  BY <1>1, <1>2, DebitGood
<1> HIDE DEF d
<1>4. WithinLimit(d, x)
  BY <1>2, <1>3 DEF WithinLimit
<1>5. b.daily = Round2(a.daily + x) /\ b.date = a.date /\ b.type = a.type
  BY <1>3, <1>4, CountGood
<1> HIDE DEF b
<1>6. Metered(b, Append(log, e), o, day)
  BY <1>1, <1>2, <1>5, MeteredCount
<1> QED BY <1>6 DEF a, b, d

\* An entry within the limit, counted on the account, keeps the meter below the limit.
LEMMA PutMetered ==
  ASSUME NEW a0, GoodAccount(a0), NEW log \in Seq(Entry), NEW o \in Nat, o <= Len(log),
         NEW day \in Nat, Metered(a0, log, o, day),
         NEW x \in Nat, WithinLimit(ResetDaily(a0, day), x),
         NEW e \in Entry, e.amount = x, e.day = day, Limited(e)
  PROVE  Metered(Count(Credit(ResetDaily(a0, day), x), x), Append(log, e), o, day)
<1> DEFINE a == ResetDaily(a0, day)
           d == Credit(a, x)
           b == Count(d, x)
<1>1. GoodAccount(a) /\ Metered(a, log, o, day) /\ a.date = day /\ WithinLimit(a, x)
  BY ResetDailyGood, MeteredReset
<1> HIDE DEF a
<1>3. GoodAccount(d) /\ d.daily = a.daily /\ d.date = a.date /\ d.type = a.type
  BY <1>1, CreditGood
<1> HIDE DEF d
<1>4. WithinLimit(d, x)
  BY <1>1, <1>3 DEF WithinLimit
<1>5. b.daily = Round2(a.daily + x) /\ b.date = a.date /\ b.type = a.type
  BY <1>3, <1>4, CountGood
<1> HIDE DEF b
<1>6. Metered(b, Append(log, e), o, day)
  BY <1>1, <1>5, MeteredCount
<1> QED BY <1>6 DEF a, b, d

\* A deposit leaves a good record too.
LEMMA PutGood ==
  ASSUME NEW a0, GoodAccount(a0), NEW day \in Nat, NEW x \in Nat,
         WithinLimit(ResetDaily(a0, day), x)
  PROVE  GoodAccount(Count(Credit(ResetDaily(a0, day), x), x))
<1> DEFINE a == ResetDaily(a0, day)
<1>1. GoodAccount(a) /\ WithinLimit(a, x)
  BY ResetDailyGood
<1> HIDE DEF a
<1>2. GoodAccount(Credit(a, x)) /\ WithinLimit(Credit(a, x), x)
  BY <1>1, CreditGood DEF WithinLimit
<1>3. GoodAccount(Count(Credit(a, x), x))
  BY <1>2, CountGood
<1> QED BY <1>3 DEF a

\* What the invariants say of one account.
LEMMA MeterAt ==
  ASSUME IInv, Meters, NEW i \in DOMAIN accounts
  PROVE  /\ GoodAccount(accounts[i]) /\ ledger[i] \in Seq(Entry) /\ opened[i] \in Nat
         /\ opened[i] <= Len(ledger[i]) /\ today \in Nat /\ i \in Ids /\ TypeOK
         /\ Metered(accounts[i], ledger[i], opened[i], today)
<1>1. Explains(ledger[i], opened[i], accounts[i].balance)
  BY DEF IInv, Sound
<1> QED BY <1>1, SoundAt DEF Meters, Explains, IInv

\* An operation that stores one record and perhaps logs one.
LEMMA StoreMetered ==
  ASSUME IInv, Meters, NEW i \in DOMAIN accounts, NEW a, NEW log,
         Metered(a, log, opened[i], today),
         Store(i, a), ledger' = [ledger EXCEPT ![i] = log], UNCHANGED <<today, opened>>
  PROVE  Meters'
<1> SUFFICES ASSUME NEW j \in DOMAIN accounts'
             PROVE  Metered(accounts'[j], ledger'[j], opened[j], today)
  BY DEF Meters
<1>1. j \in DOMAIN accounts /\ j \in Ids /\ i \in Ids /\ DOMAIN ledger = Ids
  BY DEF Store, IInv, TypeOK
<1>2. CASE j = i
  BY <1>1, <1>2 DEF Store
<1>3. CASE j # i
  <2>1. accounts'[j] = accounts[j] /\ ledger'[j] = ledger[j]
    BY <1>1, <1>3 DEF Store
  <2> QED BY <1>1, <2>1 DEF Meters
<1> QED BY <1>2, <1>3

\* A request refused behind the reset of the day keeps every meter.
LEMMA RefusedMetered ==
  ASSUME IInv, Meters, NEW i \in DOMAIN accounts, Store(i, ResetDaily(accounts[i], today)),
         UNCHANGED <<ledger, today, opened>>
  PROVE  Meters'
<1>1. Metered(ResetDaily(accounts[i], today), ledger[i], opened[i], today)
  BY MeterAt, MeteredReset
<1>2. ledger' = [ledger EXCEPT ![i] = ledger[i]]
  BY DEF IInv, TypeOK
<1> QED BY <1>1, <1>2, StoreMetered

\* A deposit keeps every meter.
LEMMA DepositMetered ==
  ASSUME IInv, Meters, NEW i \in DOMAIN accounts, NEW x \in Nat, Deposit(i, x)
  PROVE  Meters'
<1> DEFINE a == ResetDaily(accounts[i], today)
           b == Count(Credit(a, x), x)
<1>1. UNCHANGED <<today, opened>>
  BY DEF Deposit
<1>2. ASSUME NEW w \in BOOLEAN, WithinLimit(a, x), Store(i, b),
             Log(i, Record("DEPOSIT", TRUE, x, b, w))
      PROVE  Meters'
  <2> DEFINE e == Record("DEPOSIT", TRUE, x, b, w)
  <2>0. Log(i, e)
    BY <1>2
  <2>1. GoodAccount(b)
    BY <1>2, MeterAt, PutGood
  <2> HIDE DEF b
  <2>e. e = Record("DEPOSIT", TRUE, x, b, w) /\ TypeOK
    BY MeterAt
  <2> HIDE DEF e
  <2>2. e \in Entry /\ e.amount = x /\ e.day = today /\ Limited(e)
    BY <2>1, <2>e DEF Record, Entry, Limited, TypeOK, GoodAccount, Account
  <2>3. Metered(b, Append(ledger[i], e), opened[i], today)
    BY <1>2, <2>2, MeterAt, PutMetered DEF b
  <2>4. ledger' = [ledger EXCEPT ![i] = Append(ledger[i], e)]
    BY <2>0 DEF Log
  <2> QED BY <1>1, <1>2, <2>3, <2>4, StoreMetered
<1>3. CASE Store(i, a) /\ UNCHANGED ledger
  BY <1>1, <1>3, RefusedMetered
<1> QED BY <1>2, <1>3 DEF Deposit, Outcomes

\* A withdrawal keeps every meter, the limit of the account being asked first.
LEMMA WithdrawMetered ==
  ASSUME IInv, Meters, NEW i \in DOMAIN accounts, NEW x \in Nat, Withdraw(i, x)
  PROVE  Meters'
<1> DEFINE a == ResetDaily(accounts[i], today)
           b == Count(Debit(a, x), x)
<1>1. UNCHANGED <<today, opened>>
  BY DEF Withdraw
<1>2. ASSUME NEW w \in BOOLEAN, Affordable(a, x), Store(i, b),
             Log(i, Record("WITHDRAW", FALSE, x, b, w))
      PROVE  Meters'
  <2> DEFINE e == Record("WITHDRAW", FALSE, x, b, w)
  <2>0. Log(i, e)
    BY <1>2
  <2>1. GoodAccount(b)
    BY <1>2, MeterAt, PayGood
  <2> HIDE DEF b
  <2>e. e = Record("WITHDRAW", FALSE, x, b, w) /\ TypeOK
    BY MeterAt
  <2> HIDE DEF e
  <2>2. e \in Entry /\ e.amount = x /\ e.day = today /\ Limited(e)
    BY <2>1, <2>e DEF Record, Entry, Limited, TypeOK, GoodAccount, Account
  <2>3. Metered(b, Append(ledger[i], e), opened[i], today)
    BY <1>2, <2>2, MeterAt, PayMetered DEF b
  <2>4. ledger' = [ledger EXCEPT ![i] = Append(ledger[i], e)]
    BY <2>0 DEF Log
  <2> QED BY <1>1, <1>2, <2>3, <2>4, StoreMetered
<1>3. CASE Store(i, a) /\ UNCHANGED ledger
  BY <1>1, <1>3, RefusedMetered
<1> QED BY <1>2, <1>3 DEF Withdraw, Outcomes

\* Only the sender's counter moves.
LEMMA TransferMetered ==
  ASSUME IInv, Meters, NEW i \in DOMAIN accounts, NEW j \in DOMAIN accounts, NEW x \in Nat,
         Transfer(i, j, x)
  PROVE  Meters'
<1> DEFINE a == ResetDaily(accounts[i], today)
           b == Count(Debit(a, x), x)
           c == Credit(accounts[j], x)
<1>1. UNCHANGED <<today, opened>> /\ i # j
  BY DEF Transfer
<1>2. ASSUME NEW v \in BOOLEAN, NEW w \in BOOLEAN, Affordable(a, x),
             accounts' = [accounts EXCEPT ![i] = b, ![j] = c],
             ledger' = [ledger EXCEPT ![i] = Append(@, Record("TRANSFER", FALSE, x, b, v)),
                                      ![j] = Append(@, Record("TRANSFER", TRUE, x, c, w))]
      PROVE  Meters'
  <2> DEFINE d == Record("TRANSFER", FALSE, x, b, v)
             e == Record("TRANSFER", TRUE, x, c, w)
  <2>0. ledger' = [ledger EXCEPT ![i] = Append(@, d), ![j] = Append(@, e)]
    BY <1>2
  <2>1. GoodAccount(b)
    BY <1>2, MeterAt, PayGood
  <2>2. /\ GoodAccount(c) /\ c.daily = accounts[j].daily /\ c.date = accounts[j].date
        /\ c.type = accounts[j].type
    BY MeterAt, CreditGood
  <2> HIDE DEF b, c
  <2>e. d = Record("TRANSFER", FALSE, x, b, v) /\ e = Record("TRANSFER", TRUE, x, c, w) /\ TypeOK
    BY MeterAt
  <2> HIDE DEF d, e
  <2>3. /\ d \in Entry /\ d.amount = x /\ d.day = today /\ Limited(d)
        /\ e \in Entry /\ ~Limited(e)
    BY <2>1, <2>2, <2>e DEF Record, Entry, Limited, TypeOK, GoodAccount, Account
  <2>4. Metered(b, Append(ledger[i], d), opened[i], today)
    BY <1>2, <2>3, MeterAt, PayMetered DEF b
  <2> HIDE DEF a
  <2>5. Metered(c, Append(ledger[j], e), opened[j], today)
    BY <2>2, <2>3, MeterAt, MeteredUnlimited
  <2>6. /\ i \in Ids /\ j \in Ids /\ DOMAIN ledger = Ids /\ DOMAIN accounts \subseteq Ids
    BY DEF IInv, TypeOK
  <2>7. /\ DOMAIN accounts' = DOMAIN accounts
        /\ accounts'[i] = b /\ accounts'[j] = c
        /\ \A k \in DOMAIN accounts \ {i, j} : accounts'[k] = accounts[k]
    BY <1>1, <1>2
  <2>8. /\ ledger'[i] = Append(ledger[i], d)
        /\ ledger'[j] = Append(ledger[j], e)
        /\ \A k \in Ids \ {i, j} : ledger'[k] = ledger[k]
    BY <1>1, <2>0, <2>6
  <2>9. ASSUME NEW k \in DOMAIN accounts
        PROVE  Metered(accounts'[k], ledger'[k], opened[k], today)
    BY <2>4, <2>5, <2>6, <2>7, <2>8 DEF Meters
  <2> QED BY <1>1, <2>7, <2>9 DEF Meters
<1>3. CASE Store(i, a) /\ UNCHANGED ledger
  BY <1>1, <1>3, RefusedMetered
<1> QED BY <1>2, <1>3 DEF Transfer, Outcomes

\* Interest is not limited.
LEMMA InterestMetered ==
  ASSUME IInv, Meters, ApplyInterestAll
  PROVE  Meters'
<1>1. UNCHANGED <<today, opened>> /\ DOMAIN accounts' = DOMAIN accounts /\ DOMAIN accounts \subseteq Ids
  BY DEF ApplyInterestAll, IInv, TypeOK
<1>2. ASSUME NEW i \in DOMAIN accounts
      PROVE  Metered(accounts'[i], ledger'[i], opened[i], today)
  <2>1. CASE i \in Earning
    <3> DEFINE y == MonthlyInterest(accounts[i])
               b == WithInterest(accounts[i])
    <3>w. PICK w \in BOOLEAN : ledger'[i] = Append(ledger[i], Record("INTEREST", TRUE, y, b, w))
      BY <1>1, <2>1 DEF ApplyInterestAll, Outcomes
    <3> DEFINE e == Record("INTEREST", TRUE, y, b, w)
    <3>1. accounts'[i] = b /\ ledger'[i] = Append(ledger[i], e)
      BY <1>1, <2>1, <3>w DEF ApplyInterestAll
    <3>2. y \in Nat
      BY MeterAt, InterestFacts DEF GoodAccount
    <3>3. /\ GoodAccount(b) /\ b.daily = accounts[i].daily /\ b.date = accounts[i].date
          /\ b.type = accounts[i].type
      BY <3>2, MeterAt, CreditGood DEF WithInterest
    <3> HIDE DEF y, b
    <3>e. e = Record("INTEREST", TRUE, y, b, w) /\ TypeOK
      BY MeterAt
    <3> HIDE DEF e
    <3>4. e \in Entry /\ ~Limited(e)
      BY <3>2, <3>3, <3>e DEF Record, Entry, Limited, TypeOK, GoodAccount, Account
    <3> QED BY <3>1, <3>3, <3>4, MeterAt, MeteredUnlimited
  <2>2. CASE i \notin Earning
    <3>1. accounts'[i] = accounts[i] /\ ledger'[i] = ledger[i]
      BY <1>1, <2>2 DEF ApplyInterestAll
    <3> QED BY <3>1 DEF Meters
  <2> QED BY <2>1, <2>2
<1> QED BY <1>1, <1>2 DEF Meters

\* Only the records that follow an opening count.
LEMMA RegisterMetered ==
  ASSUME IInv, Meters, NEW i \in Customers, NEW type \in AccountType, NEW x \in Nat,
         Register(i, type, x)
  PROVE  Meters'
<1> DEFINE n == NewAccount(type)
           a == ResetDaily(n, today)
           b == Count(Credit(a, x), x)
           o == Len(ledger[i])
<1>1. /\ today' = today /\ TypeOK /\ i \in Ids /\ i \notin DOMAIN accounts
      /\ ledger[i] \in Seq(Entry) /\ o \in Nat /\ today \in Nat
      /\ opened' = [opened EXCEPT ![i] = o] /\ DOMAIN accounts \subseteq Ids
      /\ DOMAIN ledger = Ids /\ DOMAIN opened = Ids
  BY LenProperties DEF Register, IInv, TypeOK, Customers
<1>2. GoodAccount(n) /\ Metered(n, ledger[i], o, today)
  BY <1>1, NewAccountGood, MeteredOpen
<1> HIDE DEF n
<1>3. ASSUME NEW r, NEW log, Metered(r, log, o, today), accounts' = With(accounts, i, r),
             ledger' = [ledger EXCEPT ![i] = log]
      PROVE  Meters'
  <2> SUFFICES ASSUME NEW j \in DOMAIN accounts'
               PROVE  Metered(accounts'[j], ledger'[j], opened'[j], today)
    BY <1>1 DEF Meters
  <2>1. CASE j = i
    <3>1. accounts'[j] = r /\ ledger'[j] = log /\ opened'[j] = o
      BY <1>1, <1>3, <2>1 DEF With
    <3> QED BY <1>3, <3>1
  <2>2. CASE j # i
    <3>1. j \in DOMAIN accounts
      BY <1>3, <2>2 DEF With
    <3>2. accounts'[j] = accounts[j] /\ ledger'[j] = ledger[j] /\ opened'[j] = opened[j]
      BY <1>1, <1>3, <2>2, <3>1 DEF With
    <3> QED BY <3>1, <3>2 DEF Meters
  <2> QED BY <2>1, <2>2
<1>4. ASSUME NEW w \in BOOLEAN, WithinLimit(a, x), accounts' = With(accounts, i, b),
             Log(i, Record("DEPOSIT", TRUE, x, b, w))
      PROVE  Meters'
  <2> DEFINE e == Record("DEPOSIT", TRUE, x, b, w)
  <2>0. Log(i, e)
    BY <1>4
  <2>1. GoodAccount(b)
    BY <1>1, <1>2, <1>4, PutGood
  <2> HIDE DEF b
  <2>e. e = Record("DEPOSIT", TRUE, x, b, w) /\ TypeOK
    BY <1>1
  <2> HIDE DEF e
  <2>2. e \in Entry /\ e.amount = x /\ e.day = today /\ Limited(e)
    BY <2>1, <2>e DEF Record, Entry, Limited, TypeOK, GoodAccount, Account
  <2>3. Metered(b, Append(ledger[i], e), o, today)
    <3>1. o <= Len(ledger[i])
      BY <1>1
    <3> HIDE DEF o
    <3> QED BY <1>1, <1>2, <1>4, <2>2, <3>1, PutMetered DEF b
  <2>4. ledger' = [ledger EXCEPT ![i] = Append(ledger[i], e)]
    BY <2>0 DEF Log
  <2> QED BY <1>3, <1>4, <2>3, <2>4
<1>5. CASE accounts' = With(accounts, i, a) /\ UNCHANGED ledger
  <2>1. Metered(a, ledger[i], o, today)
    <3> HIDE DEF o
    <3> QED BY <1>1, <1>2, MeteredReset
  <2>2. ledger' = [ledger EXCEPT ![i] = ledger[i]]
    BY <1>1, <1>5 DEF TypeOK
  <2> QED BY <1>3, <1>5, <2>1, <2>2
<1> QED BY <1>4, <1>5 DEF Register, Outcomes, n

\* Freezing, unfreezing and locking leave the counters as they are.
LEMMA StatusMetered ==
  ASSUME IInv, Meters, NEW i \in DOMAIN accounts, NEW from, NEW to, SetStatus(i, from, to)
  PROVE  Meters'
<1> DEFINE a == [accounts[i] EXCEPT !.status = to]
<1>1. accounts[i] \in Account
  BY MeterAt DEF GoodAccount
<1>2. a.daily = accounts[i].daily /\ a.date = accounts[i].date /\ a.type = accounts[i].type
  BY <1>1 DEF Account
<1>3. Store(i, a) /\ UNCHANGED <<today, opened>> /\ ledger' = [ledger EXCEPT ![i] = ledger[i]]
  BY DEF SetStatus, IInv, TypeOK
<1> HIDE DEF a
<1>4. Metered(a, ledger[i], opened[i], today)
  BY <1>2, MeterAt, MeteredSame
<1> QED BY <1>3, <1>4, StoreMetered

\* Every step keeps every meter.
LEMMA MeterNext == IInv /\ Meters /\ [Next]_vars => Meters'
<1> SUFFICES ASSUME IInv, Meters, [Next]_vars PROVE Meters'
  OBVIOUS
<1>1. ASSUME NEW i \in Customers, NEW type \in AccountType, NEW x \in Amounts,
             Register(i, type, x)
      PROVE  Meters'
  BY <1>1, RegisterMetered, InputsAssumption
<1>2. ASSUME NEW i \in DOMAIN accounts, NEW x \in Amounts, Deposit(i, x)
      PROVE  Meters'
  BY <1>2, DepositMetered, InputsAssumption
<1>3. ASSUME NEW i \in DOMAIN accounts, NEW x \in Amounts, Withdraw(i, x)
      PROVE  Meters'
  BY <1>3, WithdrawMetered, InputsAssumption
<1>4. ASSUME NEW i \in DOMAIN accounts, NEW j \in DOMAIN accounts, NEW x \in Amounts,
             Transfer(i, j, x)
      PROVE  Meters'
  BY <1>4, TransferMetered, InputsAssumption
<1>5. CASE ApplyInterestAll
  BY <1>5, InterestMetered
<1>6. ASSUME NEW i \in DOMAIN accounts, Delete(i) PROVE Meters'
  BY <1>6 DEF Delete, Without, Meters
<1>7. ASSUME NEW i \in DOMAIN accounts, Freeze(i) \/ Unfreeze(i) \/ Lock(i) PROVE Meters'
  BY <1>7, StatusMetered DEF Freeze, Unfreeze, Lock
<1>8. CASE NextDay
  <2>1. /\ today' = today + 1 /\ UNCHANGED <<accounts, ledger, opened>> /\ today \in Nat
        /\ \A i \in DOMAIN accounts : accounts[i].date \in Nat
    BY <1>8 DEF NextDay, IInv, TypeOK, Account
  <2>2. ASSUME NEW i \in DOMAIN accounts
        PROVE  Metered(accounts[i], ledger[i], opened[i], today + 1)
    <3>1. accounts[i].date <= today + 1
      BY <2>1 DEF Meters, Metered
    <3> QED BY <3>1 DEF Meters, Metered
  <2> QED BY <2>1, <2>2 DEF Meters
<1>9. CASE UNCHANGED vars
  BY <1>9 DEF vars, Meters
<1> QED BY <1>1, <1>2, <1>3, <1>4, <1>5, <1>6, <1>7, <1>8, <1>9 DEF Next

\* What an account deposited, withdrew and sent on one day, by the ledger, never sums to
\* more than its type's daily limit, for any accounts, amounts, limits and days: the
\* counter of acct_check_daily_limit does its work, although it is rounded and is reset
\* only by the first limited operation of a day.
THEOREM DailyLimitIsHonoured == Spec => []DailyLimitHonoured
<1>1. Init => Meters
  <2> SUFFICES ASSUME Init, NEW i \in DOMAIN accounts
               PROVE  Metered(accounts[i], ledger[i], opened[i], today)
    BY DEF Meters
  <2>1. /\ accounts[i] = NewAccount("CURRENT") /\ ledger[i] = <<>> /\ opened[i] = Len(<<>>)
        /\ today = 1 /\ <<>> \in Seq(Entry)
    BY IdsAssumption DEF Init
  <2>2. Metered(NewAccount("CURRENT"), <<>>, Len(<<>>), 1)
    BY <2>1, MeteredOpen
  <2> QED BY <2>1, <2>2
<1>2. IInv /\ Meters /\ [Next]_vars => Meters'
  BY MeterNext
<1>3. IInv /\ Meters => DailyLimitHonoured
  BY DEF IInv, TypeOK, Meters, Metered, DailyLimitHonoured
<1> QED BY Invariant, <1>1, <1>2, <1>3, PTL DEF Spec

-----------------------------------------------------------------------------
(* The analytics *)

\* The administrator's account is always there.
AdminStays == AdminId \in DOMAIN accounts

\* No step takes the administrator away.
LEMMA AdminNext == AdminStays /\ [Next]_vars => AdminStays'
<1> SUFFICES ASSUME AdminStays, [Next]_vars PROVE AdminStays'
  OBVIOUS
<1> USE DEF AdminStays, Store
<1>1. ASSUME NEW i \in Customers, NEW type \in AccountType, NEW x \in Amounts,
             Register(i, type, x)
      PROVE  AdminStays'
  BY <1>1 DEF Register, With
<1>2. ASSUME NEW i \in DOMAIN accounts, NEW x \in Amounts, Deposit(i, x) \/ Withdraw(i, x)
      PROVE  AdminStays'
  BY <1>2 DEF Deposit, Withdraw
<1>3. ASSUME NEW i \in DOMAIN accounts, NEW j \in DOMAIN accounts, NEW x \in Amounts,
             Transfer(i, j, x)
      PROVE  AdminStays'
  BY <1>3 DEF Transfer
<1>4. ASSUME NEW i \in DOMAIN accounts, Delete(i) PROVE AdminStays'
  BY <1>4 DEF Delete, Without
<1>5. ASSUME NEW i \in DOMAIN accounts, Freeze(i) \/ Unfreeze(i) \/ Lock(i) PROVE AdminStays'
  BY <1>5 DEF Freeze, Unfreeze, Lock, SetStatus
<1>6. CASE ApplyInterestAll \/ NextDay \/ UNCHANGED vars
  BY <1>6 DEF ApplyInterestAll, NextDay, vars
<1> QED BY <1>1, <1>2, <1>3, <1>4, <1>5, <1>6 DEF Next

\* Sets without a common member.
LEMMA CardinalityDisjoint ==
  ASSUME NEW S, NEW T, IsFiniteSet(S), IsFiniteSet(T), S \cap T = {}
  PROVE  /\ IsFiniteSet(S \cup T)
         /\ Cardinality(S \cup T) = Cardinality(S) + Cardinality(T)
<1>1. /\ IsFiniteSet(S \cup T)
      /\ Cardinality(S \cup T) = Cardinality(S) + Cardinality(T) - Cardinality(S \cap T)
  BY FS_Union
<1>2. Cardinality(S \cap T) = 0
  BY FS_EmptySet
<1>3. Cardinality(S) \in Nat /\ Cardinality(T) \in Nat
  BY FS_CardinalityType
<1> QED BY <1>1, <1>2, <1>3

\* Every account but the administrator's is of one status.
LEMMA StatusesAddUp ==
  ASSUME TypeOK, AdminStays
  PROVE  SumFunction([s \in AccountStatus |-> CountOf(s)]) = TotalAccounts
<1> DEFINE Of(s) == {i \in Counted : accounts[i].status = s}
           f == [s \in AccountStatus |-> CountOf(s)]
<1>1. IsFiniteSet(DOMAIN accounts) /\ IsFiniteSet(Counted)
  BY IdsAssumption, FS_Subset DEF TypeOK, Counted
<1>2. Cardinality(Counted) = TotalAccounts
  <2>1. Cardinality(DOMAIN accounts \ {AdminId}) =
          IF AdminId \in DOMAIN accounts THEN Cardinality(DOMAIN accounts) - 1
          ELSE Cardinality(DOMAIN accounts)
    BY <1>1, FS_RemoveElement
  <2> QED BY <2>1 DEF Counted, TotalAccounts, AdminStays
<1>3. \A s : IsFiniteSet(Of(s)) /\ Cardinality(Of(s)) \in Nat
  <2>1. ASSUME NEW s PROVE IsFiniteSet(Of(s))
    <3>1. Of(s) \subseteq Counted
      OBVIOUS
    <3> QED BY <1>1, <3>1, FS_Subset
  <2> QED BY <2>1, FS_CardinalityType
<1>4. \A i \in Counted : accounts[i].status \in {"ACTIVE", "FROZEN", "CLOSED", "LOCKED"}
  BY DEF TypeOK, Counted, Account, AccountStatus
<1> DEFINE A == Of("ACTIVE")
           F == Of("FROZEN")
           C == Of("CLOSED")
           L == Of("LOCKED")
<1>5. /\ Counted = ((A \cup F) \cup C) \cup L
      /\ A \cap F = {} /\ (A \cup F) \cap C = {} /\ ((A \cup F) \cup C) \cap L = {}
  BY <1>4
<1>6. /\ IsFiniteSet(A) /\ IsFiniteSet(F) /\ IsFiniteSet(C) /\ IsFiniteSet(L)
      /\ Cardinality(A) \in Nat /\ Cardinality(F) \in Nat
      /\ Cardinality(C) \in Nat /\ Cardinality(L) \in Nat
  BY <1>3
<1>7. f["ACTIVE"] = Cardinality(A) /\ f["FROZEN"] = Cardinality(F)
      /\ f["CLOSED"] = Cardinality(C) /\ f["LOCKED"] = Cardinality(L)
  BY DEF AccountStatus, CountOf
<1>8. DOMAIN f = (({"ACTIVE"} \cup {"FROZEN"}) \cup {"CLOSED"}) \cup {"LOCKED"}
  BY DEF AccountStatus
<1> HIDE DEF f, A, F, C, L
<1>9. Cardinality(Counted) =
        Cardinality(A) + Cardinality(F) + Cardinality(C) + Cardinality(L)
  <2>1. /\ IsFiniteSet(A \cup F)
        /\ Cardinality(A \cup F) = Cardinality(A) + Cardinality(F)
    BY <1>5, <1>6, CardinalityDisjoint
  <2>2. /\ IsFiniteSet((A \cup F) \cup C)
        /\ Cardinality((A \cup F) \cup C) = Cardinality(A \cup F) + Cardinality(C)
    BY <1>5, <1>6, <2>1, CardinalityDisjoint
  <2>3. Cardinality(Counted) = Cardinality((A \cup F) \cup C) + Cardinality(L)
    BY <1>5, <1>6, <2>2, CardinalityDisjoint
  <2> QED BY <2>1, <2>2, <2>3
<1>10. SumFunctionOnSet(f, DOMAIN f) =
         Cardinality(L) + (Cardinality(C) + (Cardinality(F) + Cardinality(A)))
  <2> DEFINE S1 == {"ACTIVE"}
             S2 == S1 \cup {"FROZEN"}
             S3 == S2 \cup {"CLOSED"}
  <2>0. \A s \in S3 \cup {"LOCKED"} : f[s] \in Int
    BY <1>6, <1>7
  <2>1. IsFiniteSet(S1) /\ SumFunctionOnSet(f, S1) = Cardinality(A)
    <3>1. f["ACTIVE"] \in Int
      BY <2>0
    <3>2. SumFunctionOnSet(f, {"ACTIVE"}) = f["ACTIVE"]
      BY <3>1, SumSingle
    <3> QED BY <1>7, <3>2, FS_Singleton
  <2>2. IsFiniteSet(S2) /\ SumFunctionOnSet(f, S2) = f["FROZEN"] + SumFunctionOnSet(f, S1)
    <3>1. "FROZEN" \notin S1 /\ \A s \in S1 \cup {"FROZEN"} : f[s] \in Int
      BY <2>0
    <3> HIDE DEF S1
    <3> QED BY <2>1, <3>1, SumAdd, FS_AddElement
  <2>3. IsFiniteSet(S3) /\ SumFunctionOnSet(f, S3) = f["CLOSED"] + SumFunctionOnSet(f, S2)
    <3>1. "CLOSED" \notin S2 /\ \A s \in S2 \cup {"CLOSED"} : f[s] \in Int
      BY <2>0
    <3> HIDE DEF S2
    <3> QED BY <2>2, <3>1, SumAdd, FS_AddElement
  <2>4. SumFunctionOnSet(f, S3 \cup {"LOCKED"}) = f["LOCKED"] + SumFunctionOnSet(f, S3)
    <3>1. "LOCKED" \notin S3
      OBVIOUS
    <3> HIDE DEF S3
    <3> QED BY <2>0, <2>3, <3>1, SumAdd
  <2> QED BY <1>7, <1>8, <2>1, <2>2, <2>3, <2>4
<1> QED BY <1>2, <1>6, <1>9, <1>10 DEF SumFunction, f

\* If every account balances, the bank does: the totals of account.c, which count the
\* administrator, differ by the funds the loop counts and the administrator's.
LEMMA TotalsAddUp ==
  ASSUME TypeOK, AdminStays, \A i \in DOMAIN accounts : Balanced(accounts[i])
  PROVE  TotalDeposited - TotalWithdrawn = TotalFunds + accounts[AdminId].balance
<1> DEFINE D == DOMAIN accounts
           b == [i \in D |-> accounts[i].balance]
           p == [i \in D |-> accounts[i].deposited]
           w == [i \in D |-> accounts[i].withdrawn]
<1>1. IsFiniteSet(D) /\ AdminId \in D /\ Counted = D \ {AdminId} /\ IsFiniteSet(Counted)
  BY IdsAssumption, FS_Subset DEF TypeOK, Counted, AdminStays
<1>2. \A i \in D : b[i] \in Int /\ w[i] \in Int /\ p[i] = b[i] + w[i]
  BY DEF TypeOK, Account, Balanced
<1>3. /\ TotalDeposited = SumFunctionOnSet(p, D) /\ TotalWithdrawn = SumFunctionOnSet(w, D)
      /\ TotalFunds = SumFunctionOnSet(b, Counted) /\ b[AdminId] = accounts[AdminId].balance
  BY <1>1 DEF TotalDeposited, TotalWithdrawn, TotalFunds, SumFunction
<1> HIDE DEF D, b, p, w
<1>4. SumFunctionOnSet(p, D) = SumFunctionOnSet(b, D) + SumFunctionOnSet(w, D)
  BY <1>1, <1>2, SumPlus
<1>5. SumFunctionOnSet(b, D) = b[AdminId] + SumFunctionOnSet(b, D \ {AdminId})
  BY <1>1, <1>2, SumRemove
<1>6. SumFunctionOnSet(b, Counted) \in Int /\ SumFunctionOnSet(w, D) \in Int /\ b[AdminId] \in Int
  <2>1. \A i \in Counted : b[i] \in Int
    BY <1>1, <1>2
  <2> QED BY <1>1, <1>2, <2>1, SumInt
<1> QED BY <1>1, <1>3, <1>4, <1>5, <1>6

\* The analytics agree with each other and with the accounts, for any accounts, amounts
\* and limits, whatever was deleted, frozen or opened again.
THEOREM AnalyticsReconcile == Spec => []DashboardReconciles
<1>1. Init => AdminStays
  BY DEF Init, AdminStays
<1>2. AdminStays /\ [Next]_vars => AdminStays'
  BY AdminNext
<1>3. IInv /\ AdminStays => DashboardReconciles
  <2> SUFFICES ASSUME IInv, AdminStays PROVE DashboardReconciles
    OBVIOUS
  <2>1. TypeOK /\ \A i \in DOMAIN accounts : WholeSince(ledger[i], opened[i]) => Balanced(accounts[i])
    BY DEF IInv, Sound
  <2> QED BY <2>1, StatusesAddUp, TotalsAddUp DEF DashboardReconciles
<1> QED BY Invariant, <1>1, <1>2, <1>3, PTL DEF Spec

-----------------------------------------------------------------------------
(* Action properties *)

\* One step leaves a frozen account's money and log alone.
LEMMA FrozenStep ==
  ASSUME TypeOK, [Next]_vars,
         NEW i \in DOMAIN accounts \cap DOMAIN accounts', accounts[i].status = "FROZEN"
  PROVE  Money(accounts'[i]) = Money(accounts[i]) /\ ledger'[i] = ledger[i]
<1> DEFINE Inert == Money(accounts'[i]) = Money(accounts[i]) /\ ledger'[i] = ledger[i]
<1>0. /\ i \in DOMAIN accounts /\ i \in Ids /\ accounts[i] \in Account
      /\ ledger \in [Ids -> Seq(Entry)]
      /\ ~MayMove(accounts[i]) /\ i \notin Earning
  BY DEF TypeOK, MayMove, Earning, EarnsInterest
<1>a. ASSUME accounts'[i] = accounts[i], ledger'[i] = ledger[i] PROVE Inert
  BY <1>a DEF Money
<1>b. ASSUME NEW j \in DOMAIN accounts, NEW a, j # i, Store(j, a) PROVE accounts'[i] = accounts[i]
  BY <1>0, <1>b DEF Store
<1>c. ASSUME NEW j, NEW e, j # i, Log(j, e) PROVE ledger'[i] = ledger[i]
  BY <1>0, <1>c DEF Log
<1>1. ASSUME NEW j \in Customers, NEW type \in AccountType, NEW x \in Amounts,
             Register(j, type, x)
      PROVE  Inert
  <2>1. j # i
    BY <1>0, <1>1 DEF Register
  <2>2. ASSUME NEW a, accounts' = With(accounts, j, a) PROVE accounts'[i] = accounts[i]
    BY <1>0, <2>1, <2>2 DEF With
  <2>3. accounts'[i] = accounts[i]
    BY <1>1, <2>2 DEF Register
  <2>4. ledger'[i] = ledger[i]
    BY <1>1, <1>c, <2>1 DEF Register
  <2> QED BY <1>a, <2>3, <2>4
<1>2. ASSUME NEW j \in DOMAIN accounts, NEW x \in Amounts, Deposit(j, x)
      PROVE  Inert
  <2>1. j # i
    BY <1>0, <1>2 DEF Deposit
  <2> QED BY <1>2, <1>a, <1>b, <1>c, <2>1 DEF Deposit
<1>3. ASSUME NEW j \in DOMAIN accounts, NEW x \in Amounts, Withdraw(j, x)
      PROVE  Inert
  <2>1. j # i
    BY <1>0, <1>3 DEF Withdraw
  <2> QED BY <1>3, <1>a, <1>b, <1>c, <2>1 DEF Withdraw
<1>4. ASSUME NEW j \in DOMAIN accounts, NEW k \in DOMAIN accounts, NEW x \in Amounts,
             Transfer(j, k, x)
      PROVE  Inert
  <2>1. j # i /\ k # i
    BY <1>0, <1>4 DEF Transfer
  <2>2. ASSUME NEW b, NEW c, accounts' = [accounts EXCEPT ![j] = b, ![k] = c]
        PROVE  accounts'[i] = accounts[i]
    BY <1>0, <2>1, <2>2
  <2>3. ASSUME NEW d, NEW e,
               ledger' = [ledger EXCEPT ![j] = Append(@, d), ![k] = Append(@, e)]
        PROVE  ledger'[i] = ledger[i]
    BY <1>0, <2>1, <2>3
  <2> QED BY <1>4, <1>a, <1>b, <2>1, <2>2, <2>3 DEF Transfer
<1>5. ASSUME ApplyInterestAll PROVE Inert
  <2>1. accounts'[i] = accounts[i] /\ ledger'[i] = ledger[i]
    BY <1>0, <1>5 DEF ApplyInterestAll
  <2> QED BY <1>a, <2>1
<1>6. ASSUME NEW j \in DOMAIN accounts, Delete(j) PROVE Inert
  <2>1. i # j
    BY <1>6 DEF Delete, Without
  <2> QED BY <1>0, <1>6, <1>a, <2>1 DEF Delete, Without
<1>7. ASSUME NEW j \in DOMAIN accounts, NEW from, NEW to, SetStatus(j, from, to) PROVE Inert
  <2>1. CASE j # i
    BY <1>7, <1>a, <1>b, <2>1 DEF SetStatus
  <2>2. CASE j = i
    <3>1. accounts'[i] = [accounts[i] EXCEPT !.status = to] /\ ledger' = ledger
      BY <1>0, <1>7, <2>2 DEF SetStatus, Store
    <3> QED BY <1>0, <3>1 DEF Money, Account
  <2> QED BY <2>1, <2>2
<1>8. ASSUME NextDay \/ UNCHANGED vars PROVE Inert
  BY <1>8, <1>a DEF NextDay, vars
<1> QED BY <1>1, <1>2, <1>3, <1>4, <1>5, <1>6, <1>7, <1>8 DEF Next, Freeze, Unfreeze, Lock

\* A frozen account is inert, whatever happens around it.
THEOREM FrozenAccountsAreInert == Spec => FrozenIsInert
<1>1. TypeOK /\ [Next]_vars =>
        [\A i \in DOMAIN accounts \cap DOMAIN accounts' :
           accounts[i].status = "FROZEN" =>
             Money(accounts'[i]) = Money(accounts[i]) /\ ledger'[i] = ledger[i]]_vars
  BY FrozenStep
<1> QED BY TypeCorrect, <1>1, PTL DEF Spec, FrozenIsInert

\* The balance a withdrawal or an outgoing transfer leaves.
LEMMA PayBalance ==
  ASSUME NEW a0, GoodAccount(a0), NEW day \in Nat, NEW x \in Nat
  PROVE  LET a == ResetDaily(a0, day)
         IN  /\ a.balance = a0.balance
             /\ Affordable(a, x) => Count(Debit(a, x), x).balance = Round2(a0.balance - x)
<1> DEFINE a == ResetDaily(a0, day)
           c == Debit(a, x)
<1>1. GoodAccount(a) /\ a.balance = a0.balance
  BY ResetDailyGood
<1>2. ASSUME Affordable(a, x)
      PROVE  Count(c, x).balance = Round2(a0.balance - x)
  <2> HIDE DEF a
  <2>1. GoodAccount(c) /\ WithinLimit(c, x) /\ c.balance = Round2(a.balance - x)
    BY <1>1, <1>2, DebitGood DEF WithinLimit, Affordable
  <2> HIDE DEF c
  <2> QED BY <1>1, <2>1, CountGood
<1> QED BY <1>1, <1>2

\* Rounding never turns a payment in into a loss, nor one out into a gain.
LEMMA NoWrongWay ==
  ASSUME NEW b \in Int, Whole(b), NEW x \in Nat
  PROVE  Round2(b + x) >= b /\ Round2(b - x) <= b
BY DEF Round2, Whole

\* Only a transfer makes one balance fall and another rise.
LEMMA ConserveStep ==
  ASSUME IInv, [Next]_vars,
         NEW i \in DOMAIN accounts \cap DOMAIN accounts',
         NEW j \in DOMAIN accounts \cap DOMAIN accounts',
         accounts'[i].balance < accounts[i].balance,
         accounts'[j].balance > accounts[j].balance,
         Whole(ledger'[i][Len(ledger'[i])].amount)
  PROVE  accounts'[i].balance + accounts'[j].balance = accounts[i].balance + accounts[j].balance
<1> DEFINE Falls == accounts'[i].balance < accounts[i].balance
           Rises == accounts'[j].balance > accounts[j].balance
           Kept == accounts'[i].balance + accounts'[j].balance =
                     accounts[i].balance + accounts[j].balance
<1>0. /\ i \in DOMAIN accounts /\ j \in DOMAIN accounts /\ Falls /\ Rises
      /\ \A k \in DOMAIN accounts : accounts[k].balance \in Nat /\ Whole(accounts[k].balance)
      /\ today \in Nat
  BY SoundAt DEF GoodAccount, Account, IInv, TypeOK
<1>1. ASSUME NEW k \in DOMAIN accounts, accounts'[k].balance = accounts[k].balance
      PROVE  k # i /\ k # j
  BY <1>0, <1>1
<1>2. ASSUME NEW k \in DOMAIN accounts, NEW a, Store(k, a)
      PROVE  k = i /\ k = j
  BY <1>0, <1>2 DEF Store
<1>3. i # j
  <2> DEFINE p == accounts'[i].balance
             q == accounts[i].balance
  <2>1. SUFFICES ASSUME i = j PROVE FALSE
    OBVIOUS
  <2>2. p < q /\ p > q /\ q \in Nat
    BY <1>0, <2>1
  <2>3. p \in Nat
    BY NextSound DEF IInv, TypeOK, Account
  <2> HIDE DEF p, q
  <2> QED BY <2>2, <2>3
<1>4. ASSUME NEW k \in DOMAIN accounts, NEW a, Store(k, a) PROVE Kept
  BY <1>2, <1>3, <1>4
<1>5. ASSUME NEW k \in Customers, NEW type \in AccountType, NEW x \in Amounts,
             Register(k, type, x)
      PROVE  Kept
  <2>1. ASSUME NEW a, accounts' = With(accounts, k, a) PROVE accounts'[i] = accounts[i]
    BY <1>0, <1>5, <2>1 DEF With, Register
  <2>2. accounts'[i] = accounts[i]
    BY <1>5, <2>1 DEF Register
  <2> QED BY <1>0, <1>1, <2>2
<1>6. ASSUME NEW k \in DOMAIN accounts, NEW x \in Amounts, Deposit(k, x) \/ Withdraw(k, x)
      PROVE  Kept
  BY <1>4, <1>6 DEF Deposit, Withdraw
<1>7. ASSUME NEW k \in DOMAIN accounts, NEW m \in DOMAIN accounts, NEW x \in Nat,
             Transfer(k, m, x)
      PROVE  Kept
  <2> DEFINE a == ResetDaily(accounts[k], today)
             b == Count(Debit(a, x), x)
             c == Credit(accounts[m], x)
  <2>1. CASE Store(k, a)
    BY <1>4, <2>1
  <2>2. ASSUME NEW v0 \in BOOLEAN, NEW w0 \in BOOLEAN, Affordable(a, x),
               accounts' = [accounts EXCEPT ![k] = b, ![m] = c],
               ledger' = [ledger EXCEPT ![k] = Append(@, Record("TRANSFER", FALSE, x, b, v0)),
                                        ![m] = Append(@, Record("TRANSFER", TRUE, x, c, w0))]
        PROVE  Kept
    <3> DEFINE d == Record("TRANSFER", FALSE, x, b, v0)
               e == Record("TRANSFER", TRUE, x, c, w0)
    <3>0. ledger' = [ledger EXCEPT ![k] = Append(@, d), ![m] = Append(@, e)]
      BY <2>2
    <3>1. k # m
      BY <1>7 DEF Transfer
    <3>2. b.balance = Round2(accounts[k].balance - x)
      BY <1>0, <2>2, SoundAt, PayBalance
    <3>3. c.balance = Round2(accounts[m].balance + x)
      BY <1>0, SoundAt, CreditGood
    <3>4. d.amount = x
      BY DEF Record
    <3> HIDE DEF a, b, c, d, e
    <3>5. /\ accounts'[k] = b /\ accounts'[m] = c
          /\ \A n \in DOMAIN accounts \ {k, m} : accounts'[n] = accounts[n]
      BY <2>2, <3>1
    <3>6. i \in {k, m} /\ j \in {k, m}
      BY <1>0, <1>1, <3>5
    <3> DEFINE u == accounts[k].balance
               v == accounts[m].balance
    <3>7. u \in Int /\ v \in Int /\ Whole(u) /\ Whole(v)
      BY <1>0
    <3>8. accounts'[k].balance = Round2(u - x) /\ accounts'[m].balance = Round2(v + x)
      BY <3>2, <3>3, <3>5
    <3>9. i = k /\ j = m
      <4>1. Round2(v + x) >= v /\ Round2(v + x) \in Int
        <5>1. v \in Int /\ Whole(v) /\ v + x \in Int
          BY <3>7
        <5> HIDE DEF v
        <5>2. Round2(v + x) >= v
          BY <5>1, NoWrongWay
        <5>3. Round2(v + x) \in Int
          BY <5>1, Round2Facts
        <5> QED BY <5>2, <5>3
      <4>2. i # m
        <5>1. SUFFICES ASSUME i = m PROVE FALSE
          OBVIOUS
        <5>2. Round2(v + x) < v
          BY <1>0, <3>8, <5>1
        <5> DEFINE r == Round2(v + x)
        <5>3. r < v /\ r >= v /\ r \in Int /\ v \in Int
          BY <3>7, <4>1, <5>2
        <5> HIDE DEF r, v
        <5> QED BY <5>3
      <4> QED BY <1>3, <3>6, <4>2
    <3>10. Whole(x)
      <4>1. ledger'[k] = Append(ledger[k], d) /\ ledger[k] \in Seq(Entry)
        BY <3>0, <3>1, SoundAt DEF IInv, TypeOK
      <4>2. d \in Entry
        <5>1. b.balance \in Nat
          <6>1. GoodAccount(b)
            BY <1>0, <2>2, SoundAt, PayGood DEF a, b
          <6> QED BY <6>1 DEF GoodAccount, Account
        <5>2. d = Record("TRANSFER", FALSE, x, b, v0)
          BY DEF d
        <5> QED BY <5>1, <5>2 DEF Record, Entry, IInv, TypeOK
      <4>3. ledger'[k][Len(ledger'[k])] = d
        BY <4>1, <4>2, AppendProperties
      <4> QED BY <3>4, <3>9, <4>3
    <3>11. Round2(u - x) + Round2(v + x) = u + v
      <4> HIDE DEF u, v
      <4>1. Round2(u - x) = u - x
        BY <3>7, <3>10, Round2Sum
      <4>2. Round2(v + x) = v + x
        BY <3>7, <3>10, Round2Sum
      <4> QED BY <3>7, <4>1, <4>2
    <3> QED BY <3>8, <3>9, <3>11
  <2> QED BY <1>7, <2>1, <2>2 DEF Transfer, Outcomes
<1>8. ASSUME ApplyInterestAll PROVE Kept
  <2>1. accounts'[i] \in {accounts[i], WithInterest(accounts[i])}
    BY <1>0, <1>8 DEF ApplyInterestAll
  <2> DEFINE y == MonthlyInterest(accounts[i])
             u == accounts[i].balance
  <2>2. y \in Nat /\ WithInterest(accounts[i]).balance = Round2(u + y)
    BY <1>0, SoundAt, InterestFacts, CreditGood DEF WithInterest, GoodAccount
  <2>3. Round2(u + y) >= u /\ Round2(u + y) \in Int /\ u \in Nat
    <3>1. u \in Int /\ Whole(u) /\ u \in Nat
      BY <1>0
    <3> HIDE DEF u, y
    <3> QED BY <2>2, <3>1, NoWrongWay, Round2Facts
  <2>4. accounts'[i].balance = u \/ accounts'[i].balance = Round2(u + y)
    BY <2>1, <2>2
  <2>5. accounts'[i].balance < u
    BY <1>0
  <2> DEFINE w == accounts'[i].balance
  <2> HIDE DEF u, y
  <2>6. ~(w < u)
    <3> HIDE DEF w
    <3> DEFINE r == Round2(u + y)
    <3>1. w = u \/ w = r
      BY <2>4 DEF w
    <3>2. r >= u /\ r \in Int /\ u \in Int
      BY <2>3
    <3> HIDE DEF r
    <3>3. CASE w = u
      BY <3>2, <3>3
    <3>4. CASE w = r
      BY <3>2, <3>4
    <3> QED BY <3>1, <3>3, <3>4
  <2> QED BY <2>5, <2>6
<1>9. ASSUME NEW k \in DOMAIN accounts, Delete(k) PROVE Kept
  <2>1. accounts'[i] = accounts[i]
    BY <1>0, <1>9 DEF Delete, Without
  <2> QED BY <1>0, <1>1, <2>1
<1>10. ASSUME NEW k \in DOMAIN accounts, NEW from, NEW to, SetStatus(k, from, to) PROVE Kept
  BY <1>4, <1>10 DEF SetStatus
<1>11. ASSUME NextDay \/ UNCHANGED vars PROVE Kept
  <2>1. accounts'[i] = accounts[i]
    BY <1>11 DEF NextDay, vars
  <2> QED BY <1>0, <1>1, <2>1
<1> QED BY <1>5, <1>6, <1>7, <1>8, <1>9, <1>10, <1>11, InputsAssumption
        DEF Next, Freeze, Unfreeze, Lock

\* A transfer of a whole number of paise neither creates nor destroys money.
THEOREM TransfersConserve == Spec => TransferConserves
<1>1. IInv /\ [Next]_vars =>
        [\A i, j \in DOMAIN accounts \cap DOMAIN accounts' :
           /\ accounts'[i].balance < accounts[i].balance
           /\ accounts'[j].balance > accounts[j].balance
           /\ Whole(ledger'[i][Len(ledger'[i])].amount)
           => accounts'[i].balance + accounts'[j].balance =
                accounts[i].balance + accounts[j].balance]_vars
  BY ConserveStep
<1> QED BY Invariant, <1>1, PTL DEF Spec, TransferConserves
=============================================================================
