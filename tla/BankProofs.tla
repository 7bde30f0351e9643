----------------------------- MODULE BankProofs -----------------------------
(* Proofs about Bank. *)
EXTENDS Bank, SumTheorems

\* The places of the steps of one kind in s, and of the records of some fates in l.
Doing(s, d) == {k \in DOMAIN s : s[k].do = d}
Fated(l, F) == {k \in DOMAIN l : l[k].fate \in F}

Records == {k \in DOMAIN todo : todo[k].do = "record"}
Pending == {k \in DOMAIN ledger : ledger[k].fate = "pending"}

\* What the steps s will still record of a transfer, and what the ledger l holds of
\* transfer o at the places K.
Left(s) == Summed(s, {k \in Doing(s, "record") : s[k].kind = "transfer"})

LedgerOf(l, o, K) == Summed(l, {k \in K : l[k].op = o /\ l[k].kind = "transfer"})

\* Nothing is under way while the program does not run.
DownIsIdle == ~up => todo = <<>> /\ ~exiting /\ Pending = {}

\* Before the program ends it saves, and nothing else.
ExitSaves == exiting => up /\ todo = <<Save>>

\* An operation ends with its only save.
SaveIsLast == \A k \in DOMAIN todo : todo[k].do = "save" <=> k = Len(todo)

\* Only the first step of an operation takes money, which is there.
DebitIsCovered ==
  \A k \in DOMAIN todo :
    todo[k].do = "move" /\ todo[k].by < 0 => k = 1 /\ -todo[k].by <= balance[todo[k].id]

\* What memory will hold at the end of the operation is what the ledger will say.
Accounted ==
  up => \A i \in Ids :
          balance[i] + Total(i, todo, Doing(todo, "move")) =
            Total(i, ledger, Fated(ledger, {"kept", "pending"}))
            + Total(i, todo, Doing(todo, "record"))

\* What is saved is what the ledger says has been kept.
SavedExplained == \A i \in Ids : saved[i] = Total(i, ledger, Fated(ledger, {"kept"}))

\* Records are of operations that have begun.
OfOperations ==
  /\ \A k \in DOMAIN ledger : ledger[k].op \in 1 .. ops
  /\ ops = 0 => Records = {}

\* The halves of a transfer cancel out, those kept and those that may yet be.
TransfersWhole ==
  \A o \in 1 .. ops :
    /\ LedgerOf(ledger, o, Fated(ledger, {"kept"})) = 0
    /\ LedgerOf(ledger, o, Fated(ledger, {"pending"})) + (IF o = ops THEN Left(todo) ELSE 0) = 0

\* What is so wherever signals arrive: the control, and where the debits are.
CInv ==
  /\ TypeOK
  /\ DownIsIdle
  /\ ExitSaves
  /\ SaveIsLast
  /\ DebitIsCovered
  /\ OfOperations

\* The inductive invariant when they arrive at the prompts only.
IInv ==
  /\ CInv
  /\ Accounted
  /\ SavedExplained
  /\ TransfersWhole

-----------------------------------------------------------------------------
(* Sums over sequences of steps and records *)

\* A sequence has finitely many places.
LEMMA PlacesFinite ==
  ASSUME NEW R, NEW s \in Seq(R), NEW K, K \subseteq DOMAIN s
  PROVE  IsFiniteSet(K)
<1>1. DOMAIN s = 1 .. Len(s) /\ Len(s) \in Nat
  OBVIOUS
<1>2. IsFiniteSet(1 .. Len(s))
  BY <1>1, FS_Interval
<1> QED BY <1>1, <1>2, FS_Subset

\* Sums are integers.
LEMMA SummedInt ==
  ASSUME NEW R, NEW s \in Seq(R), \A k \in DOMAIN s : s[k].by \in Int,
         NEW K, K \subseteq DOMAIN s
  PROVE  Summed(s, K) \in Int
<1> DEFINE f == [k \in DOMAIN s |-> s[k].by]
<1>1. IsFiniteSet(K) /\ \A k \in K : f[k] \in Int
  BY PlacesFinite
<1> HIDE DEF f
<1>2. SumFunctionOnSet(f, K) \in Int
  BY <1>1, SumInt
<1> QED BY <1>2 DEF Summed, f

\* Nothing sums to 0.
LEMMA SummedEmpty ==
  ASSUME NEW s
  PROVE  Summed(s, {}) = 0
BY SumEmpty DEF Summed

\* One place.
LEMMA SummedSingle ==
  ASSUME NEW s, NEW k \in DOMAIN s, s[k].by \in Int
  PROVE  Summed(s, {k}) = s[k].by
<1> DEFINE f == [j \in DOMAIN s |-> s[j].by]
<1>1. f[k] = s[k].by
  OBVIOUS
<1> HIDE DEF f
<1>2. SumFunctionOnSet(f, {k}) = f[k]
  BY <1>1, SumSingle
<1> QED BY <1>1, <1>2 DEF Summed, f

\* Where two sequences say the same, they have the same sum.
LEMMA SummedEqual ==
  ASSUME NEW s, NEW t, NEW K, IsFiniteSet(K), K \subseteq DOMAIN s, K \subseteq DOMAIN t,
         \A k \in K : s[k].by = t[k].by
  PROVE  Summed(s, K) = Summed(t, K)
<1> DEFINE f == [k \in DOMAIN s |-> s[k].by]
           g == [k \in DOMAIN t |-> t[k].by]
<1>1. \A k \in K : f[k] = g[k]
  OBVIOUS
<1> HIDE DEF f, g
<1>2. SumFunctionOnSet(f, K) = SumFunctionOnSet(g, K)
  BY <1>1, SumEqual
<1> QED BY <1>2 DEF Summed, f, g

\* Places apart from each other.
LEMMA SummedDisjoint ==
  ASSUME NEW R, NEW s \in Seq(R), \A k \in DOMAIN s : s[k].by \in Int,
         NEW K, NEW L, K \subseteq DOMAIN s, L \subseteq DOMAIN s, K \cap L = {}
  PROVE  Summed(s, K \cup L) = Summed(s, K) + Summed(s, L)
<1> DEFINE f == [k \in DOMAIN s |-> s[k].by]
<1>1. IsFiniteSet(K) /\ IsFiniteSet(L) /\ \A k \in K \cup L : f[k] \in Int
  BY PlacesFinite
<1> HIDE DEF f
<1>2. SumFunctionOnSet(f, K \cup L) = SumFunctionOnSet(f, K) + SumFunctionOnSet(f, L)
  BY <1>1, SumDisjoint
<1> QED BY <1>2 DEF Summed, f

\* What an appended entry adds.
LEMMA SummedAppend ==
  ASSUME NEW R, NEW s \in Seq(R), \A k \in DOMAIN s : s[k].by \in Int,
         NEW e \in R, e.by \in Int, NEW K, K \subseteq DOMAIN s
  PROVE  /\ Summed(Append(s, e), K) = Summed(s, K)
         /\ Summed(Append(s, e), K \cup {Len(s) + 1}) = Summed(s, K) + e.by
<1> DEFINE t == Append(s, e)
           n == Len(s) + 1
<1>1. /\ t \in Seq(R) /\ DOMAIN t = 1 .. n /\ DOMAIN s = 1 .. Len(s) /\ Len(s) \in Nat
      /\ t[n] = e /\ \A k \in DOMAIN s : t[k] = s[k]
  OBVIOUS
<1>2. \A k \in DOMAIN t : t[k].by \in Int
  BY <1>1
<1>3. K \subseteq DOMAIN t /\ {n} \subseteq DOMAIN t /\ K \cap {n} = {} /\ n \in DOMAIN t
  BY <1>1
<1>4. IsFiniteSet(K) /\ \A k \in K : t[k].by = s[k].by
  BY <1>1, PlacesFinite
<1> HIDE DEF t, n
<1>5. Summed(t, K) = Summed(s, K)
  BY <1>3, <1>4, SummedEqual
<1>6. Summed(t, {n}) = e.by
  BY <1>1, <1>3, SummedSingle
<1>7. Summed(t, K \cup {n}) = Summed(t, K) + Summed(t, {n})
  BY <1>1, <1>2, <1>3, SummedDisjoint
<1> QED BY <1>5, <1>6, <1>7 DEF t, n

\* What the first entry contributes, and what is left behind it.
LEMMA SummedTail ==
  ASSUME NEW R, NEW s \in Seq(R), s # <<>>, \A k \in DOMAIN s : s[k].by \in Int,
         NEW K, K \subseteq DOMAIN s, NEW L, L = {k \in DOMAIN Tail(s) : k + 1 \in K}
  PROVE  Summed(s, K) = (IF 1 \in K THEN Head(s).by ELSE 0) + Summed(Tail(s), L)
<1> DEFINE t == Tail(s)
           M == K \ {1}
           f == [k \in DOMAIN s |-> s[k].by]
           g == [k \in DOMAIN t |-> t[k].by]
           h == [k \in M |-> k - 1]
<1>1. /\ Len(s) \in Nat \ {0} /\ DOMAIN s = 1 .. Len(s) /\ DOMAIN t = 1 .. Len(s) - 1
      /\ Head(s) = s[1] /\ \A k \in DOMAIN t : t[k] = s[k + 1]
  OBVIOUS
<1>2. IsFiniteSet(M) /\ M \subseteq DOMAIN s /\ \A k \in M : k \in Int /\ k - 1 \in DOMAIN t
  <2>1. M \subseteq DOMAIN s
    OBVIOUS
  <2>2. IsFiniteSet(M)
    BY <2>1, PlacesFinite
  <2> QED BY <1>1, <2>1, <2>2
<1>3. \A k \in M : f[k] = g[h[k]] /\ f[k] \in Int
  BY <1>1, <1>2
<1>4. \A j, k \in M : h[j] = h[k] => j = k
  BY <1>2
<1>5. {h[k] : k \in M} = L
  <2>1. ASSUME NEW k \in M PROVE h[k] \in L
    BY <1>2, <2>1
  <2>2. ASSUME NEW k \in L PROVE k + 1 \in M /\ h[k + 1] = k
    <3>1. k \in Nat \ {0} /\ k + 1 \in K /\ k + 1 # 1 /\ (k + 1) - 1 = k
      BY <1>1, <2>2
    <3> QED BY <3>1
  <2> HIDE DEF h, M
  <2>3. \A k \in L : \E j \in M : h[j] = k
    BY <2>2
  <2> QED BY <2>1, <2>3
<1>6. SumFunctionOnSet(f, M) = SumFunctionOnSet(g, L)
  <2> HIDE DEF f, g, h, M
  <2>1. /\ IsFiniteSet(M)
        /\ \A k \in M : f[k] = g[h[k]]
        /\ \A k \in M : f[k] \in Int
    BY <1>2, <1>3
  <2>2. h \in Bijection(M, L)
    <3>1. h \in [M -> L]
      BY <1>5 DEF h
    <3>2. \A k \in L : \E j \in M : h[j] = k
      BY <1>5
    <3> QED BY <1>4, <3>1, <3>2 DEF Bijection, Injection, Surjection, IsInjective
  <2> QED BY <2>1, <2>2, SumReindexed
<1>7. Summed(s, M) = Summed(t, L)
  BY <1>6 DEF Summed
<1>8. L \subseteq DOMAIN t /\ Summed(s, M) \in Int
  BY <1>2, SummedInt
<1>9. CASE 1 \in K
  <2>1. {1} \subseteq DOMAIN s /\ 1 \in DOMAIN s /\ {1} \cap M = {} /\ {1} \cup M = K
    BY <1>1, <1>9
  <2>2. Summed(s, {1}) = s[1].by
    BY <2>1, SummedSingle
  <2> HIDE DEF M
  <2>3. Summed(s, K) = Summed(s, {1}) + Summed(s, M)
    BY <1>2, <2>1, SummedDisjoint
  <2> QED BY <1>1, <1>7, <1>9, <2>2, <2>3
<1>10. CASE 1 \notin K
  <2>1. M = K
    BY <1>10
  <2> HIDE DEF M, t
  <2>2. Summed(t, L) \in Int /\ Summed(s, K) = Summed(t, L)
    BY <1>7, <1>8, <2>1
  <2> QED BY <1>10, <2>2 DEF t
<1> QED BY <1>9, <1>10

-----------------------------------------------------------------------------
(* The sums the invariant speaks of *)

\* The record a step writes, and what it moves, is a number.
LEMMA StepsBy ==
  ASSUME NEW s \in Seq(Step)
  PROVE  \A k \in DOMAIN s : s[k] \in Step /\ s[k].by \in Int
<1>1. \A k \in DOMAIN s : s[k] \in Step
  OBVIOUS
<1> QED BY <1>1 DEF Step

\* Likewise in the ledger.
LEMMA EntriesBy ==
  ASSUME NEW s \in Seq(Entry)
  PROVE  \A k \in DOMAIN s : s[k] \in Entry /\ s[k].by \in Int
<1>1. \A k \in DOMAIN s : s[k] \in Entry
  OBVIOUS
<1> QED BY <1>1 DEF Entry

\* Totals are integers.
LEMMA TotalInt ==
  ASSUME NEW i, NEW s, s \in Seq(Step) \/ s \in Seq(Entry), NEW K, K \subseteq DOMAIN s
  PROVE  Total(i, s, K) \in Int
<1> DEFINE L == {k \in K : s[k].id = i}
<1>1. L \subseteq DOMAIN s /\ \A k \in DOMAIN s : s[k].by \in Int
  BY StepsBy, EntriesBy
<1> HIDE DEF L
<1>2. Summed(s, L) \in Int
  BY <1>1, SummedInt
<1> QED BY <1>2 DEF Total, L

\* Nothing to do makes no difference.
LEMMA TotalOfNone ==
  ASSUME NEW i, NEW d
  PROVE  Total(i, <<>>, Doing(<<>>, d)) = 0
<1>1. {k \in Doing(<<>>, d) : <<>>[k].id = i} = {}
  BY DEF Doing
<1> QED BY <1>1, SummedEmpty DEF Total

\* Where nothing of the kind is to be done, its total is 0.
LEMMA TotalOfOthers ==
  ASSUME NEW i, NEW d, NEW s, \A k \in DOMAIN s : s[k].do # d
  PROVE  Total(i, s, Doing(s, d)) = 0
<1>1. {k \in Doing(s, d) : s[k].id = i} = {}
  BY DEF Doing
<1> QED BY <1>1, SummedEmpty DEF Total

\* The first step's part of a total.
LEMMA TotalOfTail ==
  ASSUME NEW i, NEW d, NEW s \in Seq(Step), s # <<>>
  PROVE  /\ Tail(s) \in Seq(Step)
         /\ Total(i, s, Doing(s, d)) =
              (IF Head(s).do = d /\ Head(s).id = i THEN Head(s).by ELSE 0)
              + Total(i, Tail(s), Doing(Tail(s), d))
<1> DEFINE t == Tail(s)
           K == {k \in Doing(s, d) : s[k].id = i}
           L == {k \in Doing(t, d) : t[k].id = i}
<1>1. /\ Len(s) \in Nat \ {0} /\ DOMAIN s = 1 .. Len(s) /\ DOMAIN t = 1 .. Len(s) - 1
      /\ Head(s) = s[1] /\ t \in Seq(Step) /\ \A k \in DOMAIN t : t[k] = s[k + 1]
  OBVIOUS
<1>2. K \subseteq DOMAIN s
  BY DEF Doing
<1>3. L = {k \in DOMAIN t : k + 1 \in K}
  BY <1>1 DEF Doing
<1>4. 1 \in K <=> Head(s).do = d /\ Head(s).id = i
  BY <1>1 DEF Doing
<1>5. \A k \in DOMAIN s : s[k].by \in Int
  BY StepsBy
<1> HIDE DEF K, L
<1>6. Summed(s, K) = (IF 1 \in K THEN Head(s).by ELSE 0) + Summed(t, L)
  BY <1>2, <1>3, <1>5, SummedTail
<1> QED BY <1>1, <1>4, <1>6 DEF Total, K, L

\* No transfer's record is to come.
LEMMA LeftOfOthers ==
  ASSUME NEW s, \A k \in DOMAIN s : s[k].do = "record" => s[k].kind # "transfer"
  PROVE  Left(s) = 0
<1>1. {k \in Doing(s, "record") : s[k].kind = "transfer"} = {}
  BY DEF Doing
<1> QED BY <1>1, SummedEmpty DEF Left

\* The first step's part of it.
LEMMA LeftOfTail ==
  ASSUME NEW s \in Seq(Step), s # <<>>
  PROVE  Left(s) = (IF Head(s).do = "record" /\ Head(s).kind = "transfer"
                    THEN Head(s).by ELSE 0) + Left(Tail(s))
<1> DEFINE t == Tail(s)
           K == {k \in Doing(s, "record") : s[k].kind = "transfer"}
           L == {k \in Doing(t, "record") : t[k].kind = "transfer"}
<1>1. /\ Len(s) \in Nat \ {0} /\ DOMAIN s = 1 .. Len(s) /\ DOMAIN t = 1 .. Len(s) - 1
      /\ Head(s) = s[1] /\ t \in Seq(Step) /\ \A k \in DOMAIN t : t[k] = s[k + 1]
  OBVIOUS
<1>2. K \subseteq DOMAIN s
  BY DEF Doing
<1>3. L = {k \in DOMAIN t : k + 1 \in K}
  BY <1>1 DEF Doing
<1>4. 1 \in K <=> Head(s).do = "record" /\ Head(s).kind = "transfer"
  BY <1>1 DEF Doing
<1>5. \A k \in DOMAIN s : s[k].by \in Int
  BY StepsBy
<1> HIDE DEF K, L
<1>6. Summed(s, K) = (IF 1 \in K THEN Head(s).by ELSE 0) + Summed(t, L)
  BY <1>2, <1>3, <1>5, SummedTail
<1> QED BY <1>4, <1>6 DEF Left, K, L

\* t is the ledger s with the record e after it, at place n.
Appended(s, e, t, n) ==
  s \in Seq(Entry) /\ e \in Entry /\ t = Append(s, e) /\ n = Len(s) + 1

\* A new record counts for its account, wherever it is counted.
LEMMA TotalOfAppend ==
  ASSUME NEW i, NEW s, NEW e, NEW t, NEW n, Appended(s, e, t, n), NEW K \in SUBSET DOMAIN s
  PROVE  /\ Total(i, t, K) = Total(i, s, K)
         /\ Total(i, t, K \cup {n}) = Total(i, s, K) + (IF e.id = i THEN e.by ELSE 0)
<1>0. s \in Seq(Entry) /\ e \in Entry /\ t = Append(s, e) /\ n = Len(s) + 1
  BY DEF Appended
<1> DEFINE L == {k \in K : s[k].id = i}
<1>1. /\ n \in DOMAIN t /\ n \notin DOMAIN s /\ t[n] = e
      /\ \A k \in DOMAIN s : t[k] = s[k]
  BY <1>0
<1>2. /\ L = {k \in K : t[k].id = i}
      /\ {k \in K \cup {n} : t[k].id = i} = IF e.id = i THEN L \cup {n} ELSE L
  BY <1>1
<1>3. L \subseteq DOMAIN s /\ e.by \in Int /\ \A k \in DOMAIN s : s[k].by \in Int
  BY <1>0, EntriesBy DEF Entry
<1> HIDE DEF L
<1>4. Summed(t, L) = Summed(s, L) /\ Summed(t, L \cup {n}) = Summed(s, L) + e.by
  BY <1>0, <1>3, SummedAppend
<1>5. Summed(s, L) \in Int
  BY <1>0, <1>3, SummedInt
<1>6. Total(i, s, K) = Summed(s, L) /\ Total(i, t, K) = Summed(t, L)
  BY <1>2 DEF Total, L
<1>7. Total(i, t, K \cup {n}) = Summed(t, IF e.id = i THEN L \cup {n} ELSE L)
  BY <1>2 DEF Total
<1> QED BY <1>4, <1>5, <1>6, <1>7

\* Transfers' sums are integers.
LEMMA LedgerOfInt ==
  ASSUME NEW o, NEW s \in Seq(Entry), NEW K, K \subseteq DOMAIN s
  PROVE  LedgerOf(s, o, K) \in Int
<1> DEFINE L == {k \in K : s[k].op = o /\ s[k].kind = "transfer"}
<1>1. L \subseteq DOMAIN s /\ \A k \in DOMAIN s : s[k].by \in Int
  BY EntriesBy
<1> HIDE DEF L
<1>2. Summed(s, L) \in Int
  BY <1>1, SummedInt
<1> QED BY <1>2 DEF LedgerOf, L

\* A new record counts for its transfer.
LEMMA LedgerOfAppend ==
  ASSUME NEW o, NEW s, NEW e, NEW t, NEW n, Appended(s, e, t, n), NEW K \in SUBSET DOMAIN s
  PROVE  /\ LedgerOf(t, o, K) = LedgerOf(s, o, K)
         /\ LedgerOf(t, o, K \cup {n}) =
              LedgerOf(s, o, K) + (IF e.op = o /\ e.kind = "transfer" THEN e.by ELSE 0)
<1>0. s \in Seq(Entry) /\ e \in Entry /\ t = Append(s, e) /\ n = Len(s) + 1
  BY DEF Appended
<1> DEFINE L == {k \in K : s[k].op = o /\ s[k].kind = "transfer"}
<1>1. /\ n \in DOMAIN t /\ n \notin DOMAIN s /\ t[n] = e
      /\ \A k \in DOMAIN s : t[k] = s[k]
  BY <1>0
<1>2. /\ L = {k \in K : t[k].op = o /\ t[k].kind = "transfer"}
      /\ {k \in K \cup {n} : t[k].op = o /\ t[k].kind = "transfer"} =
           IF e.op = o /\ e.kind = "transfer" THEN L \cup {n} ELSE L
  BY <1>1
<1>3. L \subseteq DOMAIN s /\ e.by \in Int /\ \A k \in DOMAIN s : s[k].by \in Int
  BY <1>0, EntriesBy DEF Entry
<1> HIDE DEF L
<1>4. Summed(t, L) = Summed(s, L) /\ Summed(t, L \cup {n}) = Summed(s, L) + e.by
  BY <1>0, <1>3, SummedAppend
<1>5. Summed(s, L) \in Int
  BY <1>0, <1>3, SummedInt
<1>6. LedgerOf(s, o, K) = Summed(s, L) /\ LedgerOf(t, o, K) = Summed(t, L)
  BY <1>2 DEF LedgerOf, L
<1>7. LedgerOf(t, o, K \cup {n}) =
        Summed(t, IF e.op = o /\ e.kind = "transfer" THEN L \cup {n} ELSE L)
  BY <1>2 DEF LedgerOf
<1> QED BY <1>4, <1>5, <1>6, <1>7

\* Where two ledgers agree but for the fates, they have the same totals.
LEMMA TotalSame ==
  ASSUME NEW i, NEW s \in Seq(Entry), NEW t, NEW K, K \subseteq DOMAIN s, DOMAIN t = DOMAIN s,
         \A k \in DOMAIN s : t[k].id = s[k].id /\ t[k].by = s[k].by
  PROVE  Total(i, t, K) = Total(i, s, K)
<1> DEFINE L == {k \in K : s[k].id = i}
<1>1. L = {k \in K : t[k].id = i} /\ L \subseteq DOMAIN s /\ IsFiniteSet(L)
  BY PlacesFinite
<1> HIDE DEF L
<1>2. Summed(t, L) = Summed(s, L)
  BY <1>1, SummedEqual
<1> QED BY <1>1, <1>2 DEF Total, L

\* And the same sums of transfers.
LEMMA LedgerOfSame ==
  ASSUME NEW o, NEW s \in Seq(Entry), NEW t, NEW K, K \subseteq DOMAIN s, DOMAIN t = DOMAIN s,
         \A k \in DOMAIN s : t[k].op = s[k].op /\ t[k].kind = s[k].kind /\ t[k].by = s[k].by
  PROVE  LedgerOf(t, o, K) = LedgerOf(s, o, K)
<1> DEFINE L == {k \in K : s[k].op = o /\ s[k].kind = "transfer"}
<1>1. L = {k \in K : t[k].op = o /\ t[k].kind = "transfer"} /\ L \subseteq DOMAIN s /\ IsFiniteSet(L)
  BY PlacesFinite
<1> HIDE DEF L
<1>2. Summed(t, L) = Summed(s, L)
  BY <1>1, SummedEqual
<1> QED BY <1>1, <1>2 DEF LedgerOf, L

\* What is kept and what is pending of a transfer.
LEMMA LedgerOfBoth ==
  ASSUME NEW o, NEW s \in Seq(Entry)
  PROVE  LedgerOf(s, o, Fated(s, {"kept", "pending"})) =
           LedgerOf(s, o, Fated(s, {"kept"})) + LedgerOf(s, o, Fated(s, {"pending"}))
<1> DEFINE P(k) == s[k].op = o /\ s[k].kind = "transfer"
           K == {k \in Fated(s, {"kept"}) : P(k)}
           L == {k \in Fated(s, {"pending"}) : P(k)}
<1>1. /\ {k \in Fated(s, {"kept", "pending"}) : P(k)} = K \cup L
      /\ K \subseteq DOMAIN s /\ L \subseteq DOMAIN s /\ K \cap L = {}
  BY DEF Fated
<1>2. \A k \in DOMAIN s : s[k].by \in Int
  BY EntriesBy
<1> HIDE DEF K, L
<1>3. Summed(s, K \cup L) = Summed(s, K) + Summed(s, L)
  BY <1>1, <1>2, SummedDisjoint
<1> QED BY <1>1, <1>3 DEF LedgerOf, K, L

\* a is the sum of b and c.
AddsTo(a, b, c) == a = b + c /\ b \in Int /\ c \in Int

\* What the records at the places of A and those at the others say of an account ...
LEMMA TotalSplit ==
  ASSUME NEW i, NEW s \in Seq(Entry), NEW K, K \subseteq DOMAIN s, NEW A
  PROVE  AddsTo(Total(i, s, K), Total(i, s, K \cap A), Total(i, s, K \ A))
<1> DEFINE L == {k \in K \cap A : s[k].id = i}
           M == {k \in K \ A : s[k].id = i}
<1>1. /\ {k \in K : s[k].id = i} = L \cup M
      /\ L \subseteq DOMAIN s /\ M \subseteq DOMAIN s /\ L \cap M = {}
  OBVIOUS
<1>2. \A k \in DOMAIN s : s[k].by \in Int
  BY EntriesBy
<1> HIDE DEF L, M
<1>3. Summed(s, L \cup M) = Summed(s, L) + Summed(s, M)
  BY <1>1, <1>2, SummedDisjoint
<1>4. Summed(s, L) \in Int /\ Summed(s, M) \in Int
  BY <1>1, <1>2, SummedInt
<1> QED BY <1>1, <1>3, <1>4 DEF Total, AddsTo, L, M

\* ... and of a transfer.
LEMMA LedgerOfSplit ==
  ASSUME NEW o, NEW s \in Seq(Entry), NEW K, K \subseteq DOMAIN s, NEW A
  PROVE  AddsTo(LedgerOf(s, o, K), LedgerOf(s, o, K \cap A), LedgerOf(s, o, K \ A))
<1> DEFINE P(k) == s[k].op = o /\ s[k].kind = "transfer"
           L == {k \in K \cap A : P(k)}
           M == {k \in K \ A : P(k)}
<1>1. /\ {k \in K : P(k)} = L \cup M
      /\ L \subseteq DOMAIN s /\ M \subseteq DOMAIN s /\ L \cap M = {}
  OBVIOUS
<1>2. \A k \in DOMAIN s : s[k].by \in Int
  BY EntriesBy
<1>3. /\ LedgerOf(s, o, K) = Summed(s, L \cup M)
      /\ LedgerOf(s, o, K \cap A) = Summed(s, L) /\ LedgerOf(s, o, K \ A) = Summed(s, M)
  BY <1>1 DEF LedgerOf
<1> HIDE DEF L, M
<1>4. Summed(s, L \cup M) = Summed(s, L) + Summed(s, M)
  BY <1>1, <1>2, SummedDisjoint
<1>5. Summed(s, L) \in Int /\ Summed(s, M) \in Int
  BY <1>1, <1>2, SummedInt
<1> QED BY <1>3, <1>4, <1>5 DEF AddsTo

\* A transfer that has no records.
LEMMA LedgerOfNone ==
  ASSUME NEW o, NEW s, NEW K, \A k \in K : ~ (s[k].op = o /\ s[k].kind = "transfer")
  PROVE  LedgerOf(s, o, K) = 0
<1>1. {k \in K : s[k].op = o /\ s[k].kind = "transfer"} = {}
  OBVIOUS
<1> QED BY <1>1, SummedEmpty DEF LedgerOf

-----------------------------------------------------------------------------
(* The control *)

\* An operation's steps at its beginning: they end in its only save, and only the
\* first may take money, which is there.
WellFormed(s) ==
  /\ s \in Seq(Step)
  /\ \A k \in DOMAIN s : s[k].do = "save" <=> k = Len(s)
  /\ \A k \in DOMAIN s :
       s[k].do = "move" /\ s[k].by < 0 => k = 1 /\ -s[k].by <= balance[s[k].id]

\* The steps operations are made of, and their fields.
LEMMA StepTypes ==
  /\ Save \in Step /\ Save.do = "save" /\ Save.by = 0
  /\ \A i \in Ids, x \in Int, k \in Kind :
       /\ Move(i, x, k) \in Step /\ Move(i, x, k).do = "move"
       /\ Move(i, x, k).by = x /\ Move(i, x, k).id = i /\ Move(i, x, k).kind = k
       /\ Record(i, x, k) \in Step /\ Record(i, x, k).do = "record"
       /\ Record(i, x, k).by = x /\ Record(i, x, k).id = i /\ Record(i, x, k).kind = k
<1>1. (CHOOSE i \in Ids : TRUE) \in Ids
  BY IdsAssumption
<1> QED BY <1>1 DEF Save, Move, Record, Step, Kind

\* A save alone is a list of steps an operation may have.
LEMMA SaveWellFormed == WellFormed(<<Save>>)
BY StepTypes DEF WellFormed

\* So are the steps of a deposit, and of a withdrawal that is covered.
LEMMA CashWellFormed ==
  ASSUME NEW i \in Ids, NEW x \in Int, x >= 0 \/ -x <= balance[i]
  PROVE  WellFormed(CashSteps(i, x))
<1> DEFINE m == Move(i, x, "cash")
           r == Record(i, x, "cash")
           s == <<m, r, Save>>
<1>1. /\ m \in Step /\ m.do = "move" /\ m.by = x /\ m.id = i
      /\ r \in Step /\ r.do = "record"
      /\ Save \in Step /\ Save.do = "save"
  BY StepTypes DEF Kind
<1> HIDE DEF m, r
<1>2. s \in Seq(Step) /\ Len(s) = 3 /\ DOMAIN s = 1 .. 3
  BY <1>1
<1>3. s[1] = m /\ s[2] = r /\ s[3] = Save
  OBVIOUS
<1>4. CashSteps(i, x) = s
  BY DEF CashSteps, m, r
<1> HIDE DEF s
<1>5. \A k \in DOMAIN s : k = 1 \/ k = 2 \/ k = 3
  BY <1>2
<1>6. \A k \in DOMAIN s : s[k].do = "save" <=> k = 3
  BY <1>1, <1>3, <1>5
<1>7. \A k \in DOMAIN s : s[k].do = "move" => k = 1 /\ s[k].by = x /\ s[k].id = i
  BY <1>1, <1>3, <1>5
<1>8. x < 0 => -x <= balance[i]
  OBVIOUS
<1> QED BY <1>2, <1>4, <1>6, <1>7, <1>8 DEF WellFormed

\* So are those of a transfer that is covered.
LEMMA TransferWellFormed ==
  ASSUME NEW i \in Ids, NEW j \in Ids, NEW x \in Nat, x <= balance[i]
  PROVE  WellFormed(TransferSteps(i, j, x))
<1> DEFINE m == Move(i, -x, "transfer")
           n == Move(j, x, "transfer")
           r == Record(i, -x, "transfer")
           q == Record(j, x, "transfer")
           s == <<m, n, r, q, Save>>
<1>0. -x \in Int /\ x \in Int /\ -(-x) = x
  OBVIOUS
<1>1. /\ m \in Step /\ m.do = "move" /\ m.by = -x /\ m.id = i
      /\ n \in Step /\ n.do = "move" /\ n.by = x
      /\ r \in Step /\ r.do = "record"
      /\ q \in Step /\ q.do = "record"
      /\ Save \in Step /\ Save.do = "save"
  BY <1>0, StepTypes DEF Kind
<1> HIDE DEF m, n, r, q
<1>2. s \in Seq(Step) /\ Len(s) = 5 /\ DOMAIN s = 1 .. 5
  BY <1>1
<1>3. s[1] = m /\ s[2] = n /\ s[3] = r /\ s[4] = q /\ s[5] = Save
  OBVIOUS
<1>4. TransferSteps(i, j, x) = s
  BY DEF TransferSteps, m, n, r, q
<1> HIDE DEF s
<1>5. \A k \in DOMAIN s : k = 1 \/ k = 2 \/ k = 3 \/ k = 4 \/ k = 5
  BY <1>2
<1>6. \A k \in DOMAIN s : s[k].do = "save" <=> k = 5
  BY <1>1, <1>3, <1>5
<1>7. \A k \in DOMAIN s : s[k].do = "move" =>
        (k = 1 /\ s[k].by = -x /\ s[k].id = i) \/ (k = 2 /\ s[k].by = x)
  BY <1>1, <1>3, <1>5
<1>8. \A k \in DOMAIN s : s[k].do = "move" /\ s[k].by < 0 => k = 1 /\ s[k].by = -x /\ s[k].id = i
  BY <1>7
<1> QED BY <1>0, <1>2, <1>4, <1>6, <1>8 DEF WellFormed

\* The steps of the interest, at the places where they are.
LEMMA InterestAt ==
  ASSUME NEW s \in Seq(Ids)
  PROVE  LET t == InterestSteps(s)
             n == Len(s)
         IN  /\ n \in Nat /\ t \in Seq(Step) /\ Len(t) = 2 * n + 1 /\ DOMAIN t = 1 .. 2 * n + 1
             /\ t[2 * n + 1] = Save
             /\ \A k \in 1 .. n : /\ t[2 * k - 1] = Move(s[k], 1, "interest")
                                  /\ t[2 * k] = Record(s[k], 1, "interest")
             /\ \A k \in 1 .. 2 * n :
                  \E j \in 1 .. n : \/ k = 2 * j - 1 /\ t[k] = Move(s[j], 1, "interest")
                                    \/ k = 2 * j /\ t[k] = Record(s[j], 1, "interest")
<1> DEFINE n == Len(s)
           t == InterestSteps(s)
           N == 2 * n + 1
<1>1. n \in Nat /\ N \in Nat /\ DOMAIN s = 1 .. n /\ \A k \in 1 .. n : s[k] \in Ids
  OBVIOUS
<1>2. DOMAIN t = 1 .. N
  BY DEF InterestSteps
<1>3. t[N] = Save
  BY <1>1 DEF InterestSteps
<1>4. ASSUME NEW k \in 1 .. n
      PROVE  t[2 * k - 1] = Move(s[k], 1, "interest") /\ t[2 * k] = Record(s[k], 1, "interest")
  <2>1. /\ 2 * k - 1 \in 1 .. N /\ 2 * k \in 1 .. N
        /\ ~ (2 * k - 1 > 2 * n) /\ ~ (2 * k > 2 * n)
    BY <1>1, <1>4
  <2>2. /\ (2 * k - 1) % 2 = 1 /\ ((2 * k - 1) + 1) \div 2 = k
        /\ (2 * k) % 2 # 1 /\ (2 * k) \div 2 = k
    BY <1>1, <1>4
  <2> QED BY <2>1, <2>2 DEF InterestSteps
<1>5. ASSUME NEW k \in 1 .. 2 * n
      PROVE  \E j \in 1 .. n : \/ k = 2 * j - 1 /\ t[k] = Move(s[j], 1, "interest")
                               \/ k = 2 * j /\ t[k] = Record(s[j], 1, "interest")
  <2>1. \E j \in 1 .. n : k = 2 * j - 1 \/ k = 2 * j
    <3>1. CASE k % 2 = 0
      <4>1. k \div 2 \in 1 .. n /\ k = 2 * (k \div 2)
        BY <1>1, <1>5, <3>1
      <4> QED BY <4>1
    <3>2. CASE k % 2 # 0
      <4>1. (k + 1) \div 2 \in 1 .. n /\ k = 2 * ((k + 1) \div 2) - 1
        BY <1>1, <1>5, <3>2
      <4> QED BY <4>1
    <3> QED BY <3>1, <3>2
  <2> HIDE DEF t
  <2> QED BY <1>4, <2>1
<1>6. t \in Seq(Step) /\ Len(t) = N
  <2>1. ASSUME NEW k \in 1 .. N PROVE t[k] \in Step
    <3>1. CASE k = N
      BY <1>3, <3>1, StepTypes
    <3>2. CASE k # N
      <4>1. k \in 1 .. 2 * n
        BY <1>1, <3>2
      <4>2. PICK j \in 1 .. n : \/ t[k] = Move(s[j], 1, "interest")
                                \/ t[k] = Record(s[j], 1, "interest")
        BY <1>5, <4>1
      <4> QED BY <1>1, <4>2, StepTypes DEF Kind
    <3> QED BY <3>1, <3>2
  <2>2. t = [k \in 1 .. N |-> t[k]]
    BY DEF InterestSteps
  <2> HIDE DEF t, N
  <2>3. t \in [1 .. N -> Step]
    BY <2>1, <2>2
  <2> QED BY <1>1, <2>3
<1> HIDE DEF t
<1> QED BY <1>1, <1>2, <1>3, <1>4, <1>5, <1>6 DEF t

\* So are those of the interest run, over any sequence of accounts.
LEMMA InterestWellFormed ==
  ASSUME NEW s \in Seq(Ids)
  PROVE  WellFormed(InterestSteps(s))
<1> DEFINE n == Len(s)
           t == InterestSteps(s)
<1>1. /\ n \in Nat /\ t \in Seq(Step) /\ Len(t) = 2 * n + 1 /\ DOMAIN t = 1 .. 2 * n + 1
      /\ t[2 * n + 1] = Save
      /\ \A k \in 1 .. 2 * n : \E j \in 1 .. n : \/ t[k] = Move(s[j], 1, "interest")
                                                 \/ t[k] = Record(s[j], 1, "interest")
  BY InterestAt
<1>2. \A k \in 1 .. n : s[k] \in Ids
  OBVIOUS
<1> HIDE DEF t, n
<1>3. ASSUME NEW k \in 1 .. 2 * n PROVE t[k].do \in {"move", "record"} /\ t[k].by = 1
  <2>1. PICK j \in 1 .. n : \/ t[k] = Move(s[j], 1, "interest")
                            \/ t[k] = Record(s[j], 1, "interest")
    BY <1>1
  <2>2. s[j] \in Ids /\ 1 \in Int /\ "interest" \in Kind
    BY <1>2 DEF Kind
  <2> QED BY <2>1, <2>2, StepTypes
<1>4. Save.do = "save" /\ Save.by = 0
  BY StepTypes
<1>5. \A k \in DOMAIN t : k \in 1 .. 2 * n \/ k = 2 * n + 1
  BY <1>1
<1>6. \A k \in DOMAIN t : t[k].do = "save" <=> k = Len(t)
  BY <1>1, <1>3, <1>4, <1>5
<1>7. \A k \in DOMAIN t : ~ (t[k].by < 0)
  BY <1>1, <1>3, <1>4, <1>5
<1> QED BY <1>1, <1>6, <1>7 DEF WellFormed, t

\* A save and an end change the fates of the records, and nothing else of them.
LEMMA FatesFields ==
  ASSUME ledger \in Seq(Entry), NEW old, NEW new \in {"pending", "kept", "lost"}
  PROVE  /\ Fates(old, new) \in Seq(Entry)
         /\ DOMAIN Fates(old, new) = DOMAIN ledger
         /\ \A k \in DOMAIN ledger :
              /\ Fates(old, new)[k].id = ledger[k].id
              /\ Fates(old, new)[k].by = ledger[k].by
              /\ Fates(old, new)[k].kind = ledger[k].kind
              /\ Fates(old, new)[k].op = ledger[k].op
              /\ Fates(old, new)[k].fate = IF ledger[k].fate = old THEN new ELSE ledger[k].fate
<1>1. /\ \A k \in DOMAIN ledger : ledger[k] \in Entry
      /\ Len(ledger) \in Nat /\ DOMAIN ledger = 1 .. Len(ledger)
  OBVIOUS
<1> DEFINE e(k) == [ledger[k] EXCEPT !.fate = new]
<1>2. ASSUME NEW k \in DOMAIN ledger
      PROVE  /\ e(k) \in Entry /\ e(k).id = ledger[k].id /\ e(k).by = ledger[k].by
             /\ e(k).kind = ledger[k].kind /\ e(k).op = ledger[k].op /\ e(k).fate = new
  <2>1. ledger[k] \in Entry
    BY <1>1
  <2> QED BY <2>1 DEF Entry
<1>3. /\ DOMAIN Fates(old, new) = DOMAIN ledger
      /\ Fates(old, new) = [k \in 1 .. Len(ledger) |-> Fates(old, new)[k]]
      /\ \A k \in DOMAIN ledger :
           Fates(old, new)[k] = IF ledger[k].fate = old THEN e(k) ELSE ledger[k]
  BY <1>1 DEF Fates
<1> HIDE DEF e
<1>4. \A k \in 1 .. Len(ledger) : Fates(old, new)[k] \in Entry
  BY <1>1, <1>2, <1>3
<1>5. Fates(old, new) \in [1 .. Len(ledger) -> Entry]
  BY <1>3, <1>4
<1>6. Fates(old, new) \in Seq(Entry)
  BY <1>1, <1>5
<1> QED BY <1>2, <1>3, <1>6

\* What is left of the steps when one is done.
LEMMA StepsLeft ==
  ASSUME NEW s \in Seq(Step), s # <<>>
  PROVE  /\ Tail(s) \in Seq(Step) /\ Head(s) = s[1] /\ Head(s) \in Step
         /\ 1 \in DOMAIN s /\ Len(s) \in Nat \ {0}
         /\ Len(Tail(s)) = Len(s) - 1
         /\ \A k \in DOMAIN Tail(s) :
              k \in Nat \ {0} /\ k + 1 \in DOMAIN s /\ Tail(s)[k] = s[k + 1]
OBVIOUS

\* A step of an operation leaves the others in their order, and none that takes money.
LEMMA ControlTail ==
  ASSUME CInv, todo # <<>>, todo' = Tail(todo)
  PROVE  /\ todo' \in Seq(Step)
         /\ up
         /\ SaveIsLast'
         /\ \A k \in DOMAIN todo' : ~ (todo'[k].do = "move" /\ todo'[k].by < 0)
         /\ Records' # {} => Records # {}
<1>1. todo \in Seq(Step) /\ up
  BY DEF CInv, TypeOK, DownIsIdle
<1>2. /\ todo' \in Seq(Step) /\ Len(todo) \in Nat \ {0} /\ Len(todo') = Len(todo) - 1
      /\ \A k \in DOMAIN todo' :
           k \in Nat \ {0} /\ k + 1 \in DOMAIN todo /\ todo'[k] = todo[k + 1]
  BY <1>1, StepsLeft
<1>3. SaveIsLast'
  <2>1. SUFFICES ASSUME NEW k \in DOMAIN todo'
                 PROVE  todo'[k].do = "save" <=> k = Len(todo')
    BY DEF SaveIsLast
  <2>2. todo[k + 1].do = "save" <=> k + 1 = Len(todo)
    BY <1>2 DEF CInv, SaveIsLast
  <2> QED BY <1>2, <2>2
<1>4. ASSUME NEW k \in DOMAIN todo' PROVE ~ (todo'[k].do = "move" /\ todo'[k].by < 0)
  <2>1. k + 1 # 1
    BY <1>2
  <2> QED BY <1>2, <2>1 DEF CInv, DebitIsCovered
<1>5. Records' # {} => Records # {}
  BY <1>2 DEF Records
<1> QED BY <1>1, <1>2, <1>3, <1>4, <1>5

\* The end of the process: memory is gone, and nothing is pending.
LEMMA ControlEnded ==
  ASSUME CInv, Ended, saved' \in [Ids -> Nat],
         NEW new \in {"kept", "lost"}, ledger' = Fates("pending", new)
  PROVE  CInv'
<1>1. /\ ledger' \in Seq(Entry) /\ DOMAIN ledger' = DOMAIN ledger
      /\ \A k \in DOMAIN ledger : ledger'[k].op = ledger[k].op /\ ledger'[k].fate # "pending"
  <2>1. ledger \in Seq(Entry) /\ new \in {"pending", "kept", "lost"}
    BY DEF CInv, TypeOK
  <2> DEFINE l == Fates("pending", new)
  <2>2. /\ l \in Seq(Entry) /\ DOMAIN l = DOMAIN ledger
        /\ \A k \in DOMAIN ledger :
             /\ l[k].op = ledger[k].op
             /\ l[k].fate = IF ledger[k].fate = "pending" THEN new ELSE ledger[k].fate
    BY <2>1, FatesFields
  <2> HIDE DEF l
  <2>3. \A k \in DOMAIN ledger : l[k].fate # "pending"
    BY <2>2
  <2> QED BY <2>2, <2>3 DEF l
<1>2. /\ up' = FALSE /\ todo' = <<>> /\ exiting' = FALSE /\ ops' = ops
      /\ balance' = [i \in Ids |-> 0]
  BY DEF Ended
<1>3. TypeOK'
  <2>1. balance' \in [Ids -> Nat] /\ todo' \in Seq(Step)
    BY <1>2
  <2> QED BY <1>1, <1>2, <2>1 DEF CInv, TypeOK
<1>4. DownIsIdle' /\ ExitSaves' /\ SaveIsLast' /\ DebitIsCovered'
  BY <1>1, <1>2 DEF DownIsIdle, ExitSaves, SaveIsLast, DebitIsCovered, Pending
<1>5. OfOperations'
  BY <1>1, <1>2 DEF CInv, OfOperations, Records
<1> QED BY <1>3, <1>4, <1>5 DEF CInv

\* An operation begins.
LEMMA ControlBegin ==
  ASSUME CInv, Ready, NEW steps, WellFormed(steps), Begin(steps)
  PROVE  CInv'
<1>1. /\ todo' = steps /\ ops' = ops + 1 /\ ops < MaxOps
      /\ UNCHANGED <<up, balance, saved, ledger, exiting>> /\ up /\ todo = <<>>
  BY DEF Begin, Ready
<1>2. ~exiting
  BY <1>1 DEF CInv, ExitSaves
<1>3. TypeOK'
  BY <1>1, BoundsAssumption DEF CInv, TypeOK, WellFormed
<1>4. DownIsIdle' /\ ExitSaves' /\ SaveIsLast' /\ DebitIsCovered'
  BY <1>1, <1>2 DEF DownIsIdle, ExitSaves, SaveIsLast, DebitIsCovered, WellFormed
<1>5. OfOperations'
  <2>1. ops \in Nat
    BY BoundsAssumption DEF CInv, TypeOK
  <2>2. ops' # 0 /\ \A o \in 1 .. ops : o \in 1 .. ops'
    BY <1>1, <2>1
  <2>3. \A k \in DOMAIN ledger : ledger[k].op \in 1 .. ops
    BY DEF CInv, OfOperations
  <2> QED BY <1>1, <2>2, <2>3 DEF OfOperations
<1> QED BY <1>3, <1>4, <1>5 DEF CInv

\* Nothing is left to do but a save, and the end.
LEMMA ControlLastSave ==
  ASSUME CInv, up, todo' = <<Save>>, exiting', UNCHANGED <<up, balance, saved, ledger, ops>>
  PROVE  CInv'
<1>1. WellFormed(todo')
  BY SaveWellFormed
<1>2. TypeOK'
  BY <1>1 DEF CInv, TypeOK, WellFormed
<1>3. DownIsIdle' /\ ExitSaves' /\ SaveIsLast' /\ DebitIsCovered'
  BY <1>1 DEF DownIsIdle, ExitSaves, SaveIsLast, DebitIsCovered, WellFormed
<1>4. OfOperations'
  <2>1. Records' = {}
    BY StepTypes DEF Records
  <2> QED BY <2>1 DEF CInv, OfOperations
<1> QED BY <1>2, <1>3, <1>4 DEF CInv

\* A start of the program keeps what is known of the control state.
LEMMA ControlStart == CInv /\ Start => CInv'
<1>1. SUFFICES ASSUME CInv, Start PROVE CInv'
  OBVIOUS
<1>2. /\ ~up /\ up' /\ balance' = saved /\ UNCHANGED <<saved, ledger, todo, exiting, ops>>
      /\ todo = <<>> /\ ~exiting
  BY <1>1 DEF Start, CInv, DownIsIdle
<1>3. TypeOK'
  BY <1>1, <1>2 DEF Start, CInv, TypeOK
<1>4. DownIsIdle' /\ ExitSaves' /\ SaveIsLast' /\ DebitIsCovered' /\ OfOperations'
  BY <1>1, <1>2
  DEF CInv, DownIsIdle, ExitSaves, SaveIsLast, DebitIsCovered, OfOperations, Records
<1> QED BY <1>3, <1>4 DEF CInv

\* A deposit keeps it: its steps are well formed.
LEMMA ControlDeposit ==
  ASSUME CInv, NEW i \in Ids, NEW x \in Amounts, Deposit(i, x)
  PROVE  CInv'
<1>1. WellFormed(CashSteps(i, x))
  BY CashWellFormed, AmountsAssumption
<1> QED BY <1>1, ControlBegin DEF Deposit

\* A withdrawal keeps it, being no larger than the balance.
LEMMA ControlWithdraw ==
  ASSUME CInv, NEW i \in Ids, NEW x \in Amounts, Withdraw(i, x)
  PROVE  CInv'
<1>1. x \in Nat /\ -x \in Int /\ -(-x) <= balance[i]
  BY AmountsAssumption DEF Withdraw, Covered
<1>2. WellFormed(CashSteps(i, -x))
  BY <1>1, CashWellFormed
<1> QED BY <1>2, ControlBegin DEF Withdraw

\* A transfer keeps it, being no larger than the balance it is taken from.
LEMMA ControlTransfer ==
  ASSUME CInv, NEW i \in Ids, NEW j \in Ids \ {i}, NEW x \in Amounts, Transfer(i, j, x)
  PROVE  CInv'
<1>1. x \in Nat /\ x <= balance[i]
  BY AmountsAssumption DEF Transfer, Covered
<1>2. WellFormed(TransferSteps(i, j, x))
  BY <1>1, TransferWellFormed
<1> QED BY <1>2, ControlBegin DEF Transfer

\* The accounts that earn interest, in some order.
LEMMA InOrder ==
  ASSUME NEW S, S \subseteq Ids
  PROVE  /\ SetToSeq(S) \in Seq(Ids)
         /\ \A i \in S : \E k \in 1 .. Len(SetToSeq(S)) : SetToSeq(S)[k] = i
         /\ \A k \in 1 .. Len(SetToSeq(S)) : SetToSeq(S)[k] \in S
         /\ \A k, l \in 1 .. Len(SetToSeq(S)) : SetToSeq(S)[k] = SetToSeq(S)[l] => k = l
<1> DEFINE n == Cardinality(S)
           f == SetToSeq(S)
<1>1. IsFiniteSet(S)
  BY IdsAssumption, FS_Subset
<1>2. n \in Nat /\ ExistsBijection(1 .. n, S)
  BY <1>1, FS_CardinalityType
<1>3. PICK g : g \in [1 .. n -> S] /\ IsInjective(g)
  BY <1>2 DEF ExistsBijection, Bijection, Injection
<1>4. f \in [1 .. n -> S] /\ IsInjective(f)
  BY <1>3 DEF SetToSeq
<1>5. f \in Injection(1 .. n, S)
  BY <1>4 DEF Injection
<1>6. IsFiniteSet(1 .. n) /\ Cardinality(1 .. n) = n
  BY <1>2, FS_Interval
<1> HIDE DEF f
<1>7. f \in Surjection(1 .. n, S)
  BY <1>1, <1>5, <1>6, FS_Injection
<1>8. f \in Seq(Ids) /\ Len(f) = n
  BY <1>2, <1>4
<1>9. /\ \A i \in S : \E k \in 1 .. n : f[k] = i
      /\ \A k \in 1 .. n : f[k] \in S
      /\ \A k, l \in 1 .. n : f[k] = f[l] => k = l
  BY <1>4, <1>7 DEF Surjection, IsInjective
<1> QED BY <1>8, <1>9 DEF f

\* The interest run keeps it, whatever accounts it is about.
LEMMA ControlInterest ==
  ASSUME CInv, NEW S \in SUBSET Ids, ApplyInterestAll(S)
  PROVE  CInv'
<1>1. WellFormed(InterestSteps(SetToSeq(S)))
  BY InOrder, InterestWellFormed
<1> QED BY <1>1, ControlBegin DEF ApplyInterestAll

\* The choice to exit keeps it.
LEMMA ControlExit == CInv /\ Exit => CInv'
BY ControlLastSave DEF Exit, Ready

\* A change of a balance keeps it: what is left is well formed, and covered.
LEMMA ControlMove == CInv /\ DoMove => CInv'
<1>1. SUFFICES ASSUME CInv, DoMove PROVE CInv'
  OBVIOUS
<1> DEFINE h == Head(todo)
           i == h.id
<1>2. /\ todo # <<>> /\ h.do = "move" /\ todo' = Tail(todo)
      /\ balance' = [balance EXCEPT ![i] = @ + h.by]
      /\ UNCHANGED <<up, saved, ledger, exiting, ops>>
  BY <1>1 DEF DoMove
<1>3. /\ todo' \in Seq(Step) /\ up /\ SaveIsLast'
      /\ \A k \in DOMAIN todo' : ~ (todo'[k].do = "move" /\ todo'[k].by < 0)
      /\ Records' # {} => Records # {}
  BY <1>1, <1>2, ControlTail
<1>4. h \in Step /\ h = todo[1] /\ 1 \in DOMAIN todo
  BY <1>1, <1>2, StepsLeft DEF CInv, TypeOK
<1>5. i \in Ids /\ h.by \in Int
  BY <1>4 DEF Step
<1>6. h.by >= 0 \/ -h.by <= balance[i]
  BY <1>1, <1>2, <1>4, <1>5 DEF CInv, DebitIsCovered
<1>7. balance' \in [Ids -> Nat]
  <2>1. balance \in [Ids -> Nat] /\ balance[i] \in Nat
    BY <1>1, <1>5 DEF CInv, TypeOK
  <2>2. balance[i] + h.by \in Nat
    BY <1>5, <1>6, <2>1
  <2> QED BY <1>2, <2>1, <2>2
<1>8. ~exiting
  <2>1. h = Save => h.do = "save"
    BY StepTypes
  <2>2. exiting => todo = <<Save>>
    BY <1>1 DEF CInv, ExitSaves
  <2> QED BY <1>2, <1>4, <2>1, <2>2
<1>9. TypeOK'
  BY <1>1, <1>2, <1>3, <1>7 DEF CInv, TypeOK
<1>10. DownIsIdle' /\ ExitSaves' /\ DebitIsCovered' /\ OfOperations'
  BY <1>1, <1>2, <1>3, <1>8 DEF CInv, DownIsIdle, ExitSaves, DebitIsCovered, OfOperations
<1> QED BY <1>3, <1>9, <1>10 DEF CInv

\* An append to the log keeps it.
LEMMA ControlRecord == CInv /\ DoRecord => CInv'
<1>1. SUFFICES ASSUME CInv, DoRecord PROVE CInv'
  OBVIOUS
<1> DEFINE h == Head(todo)
<1>w. PICK w \in BOOLEAN :
         ledger' = Append(ledger, [id |-> h.id, by |-> h.by, kind |-> h.kind, op |-> ops,
                                   fate |-> "pending", written |-> w])
  BY <1>1 DEF DoRecord
<1> DEFINE e == [id |-> h.id, by |-> h.by, kind |-> h.kind, op |-> ops, fate |-> "pending",
                 written |-> w]
<1>2. /\ todo # <<>> /\ h.do = "record" /\ todo' = Tail(todo)
      /\ ledger' = Append(ledger, e)
      /\ UNCHANGED <<up, balance, saved, exiting, ops>>
  BY <1>1, <1>w DEF DoRecord
<1>3. /\ todo' \in Seq(Step) /\ up /\ SaveIsLast'
      /\ \A k \in DOMAIN todo' : ~ (todo'[k].do = "move" /\ todo'[k].by < 0)
      /\ Records' # {} => Records # {}
  BY <1>1, <1>2, ControlTail
<1>4. h \in Step /\ h = todo[1] /\ 1 \in DOMAIN todo
  BY <1>1, <1>2, StepsLeft DEF CInv, TypeOK
<1>5. e \in Entry /\ e.op = ops /\ ops \in Nat
  BY <1>1, <1>4, <1>w, BoundsAssumption DEF Step, Entry, CInv, TypeOK
<1>6. ~exiting
  <2>1. h = Save => h.do = "save"
    BY StepTypes
  <2>2. exiting => todo = <<Save>>
    BY <1>1 DEF CInv, ExitSaves
  <2> QED BY <1>2, <1>4, <2>1, <2>2
<1>7. /\ ledger \in Seq(Entry)
      /\ DOMAIN ledger' = DOMAIN ledger \cup {Len(ledger) + 1}
      /\ ledger'[Len(ledger) + 1] = e
      /\ \A k \in DOMAIN ledger : ledger'[k] = ledger[k]
  <2>1. ledger \in Seq(Entry)
    BY <1>1 DEF CInv, TypeOK
  <2> HIDE DEF e
  <2> QED BY <1>2, <1>5, <2>1
<1> HIDE DEF e, h
<1>8. TypeOK'
  BY <1>1, <1>2, <1>3, <1>5, <1>7 DEF CInv, TypeOK
<1>9. DownIsIdle' /\ ExitSaves' /\ DebitIsCovered'
  BY <1>2, <1>3, <1>6 DEF DownIsIdle, ExitSaves, DebitIsCovered
<1>10. OfOperations'
  <2>1. 1 \in Records
    BY <1>2, <1>4 DEF Records
  <2>2. ops # 0
    BY <1>1, <2>1 DEF CInv, OfOperations
  <2>3. ops \in 1 .. ops /\ ops' = ops
    BY <1>2, <1>5, <2>2
  <2>4. \A k \in DOMAIN ledger : ledger[k].op \in 1 .. ops
    BY <1>1 DEF CInv, OfOperations
  <2> QED BY <1>5, <1>7, <2>2, <2>3, <2>4 DEF OfOperations
<1> QED BY <1>3, <1>8, <1>9, <1>10 DEF CInv

\* A save keeps it.
LEMMA ControlSave == CInv /\ DoSave => CInv'
<1>1. SUFFICES ASSUME CInv, DoSave PROVE CInv'
  OBVIOUS
<1>2. /\ todo # <<>> /\ Head(todo).do = "save" /\ ~exiting /\ todo' = Tail(todo)
      /\ UNCHANGED <<up, balance, exiting, ops>>
      /\ \/ saved' = balance /\ ledger' = Fates("pending", "kept")
         \/ saved' = saved /\ ledger' = ledger
  BY <1>1 DEF DoSave
<1>3. /\ todo' \in Seq(Step) /\ up /\ SaveIsLast'
      /\ \A k \in DOMAIN todo' : ~ (todo'[k].do = "move" /\ todo'[k].by < 0)
      /\ Records' # {} => Records # {}
  BY <1>1, <1>2, ControlTail
<1>4. /\ ledger' \in Seq(Entry) /\ DOMAIN ledger' = DOMAIN ledger
      /\ \A k \in DOMAIN ledger : ledger'[k].op = ledger[k].op
  <2>1. ledger \in Seq(Entry)
    BY <1>1 DEF CInv, TypeOK
  <2> QED BY <1>2, <2>1, FatesFields
<1>5. TypeOK'
  BY <1>1, <1>2, <1>3, <1>4 DEF CInv, TypeOK
<1>6. DownIsIdle' /\ ExitSaves' /\ DebitIsCovered'
  BY <1>2, <1>3 DEF DownIsIdle, ExitSaves, DebitIsCovered
<1>7. OfOperations'
  BY <1>1, <1>2, <1>3, <1>4 DEF CInv, OfOperations
<1> QED BY <1>3, <1>5, <1>6, <1>7 DEF CInv

\* The last step of the exit keeps it.
LEMMA ControlDoExit == CInv /\ DoExit => CInv'
<1>1. SUFFICES ASSUME CInv, DoExit PROVE CInv'
  OBVIOUS
<1>2. saved' \in [Ids -> Nat]
  BY <1>1 DEF DoExit, CInv, TypeOK
<1> QED BY <1>1, <1>2, ControlEnded DEF DoExit

\* A crash keeps it: what is up again is what was saved.
LEMMA ControlCrash == CInv /\ Crash => CInv'
<1>1. SUFFICES ASSUME CInv, Crash PROVE CInv'
  OBVIOUS
<1>2. saved' \in [Ids -> Nat]
  BY <1>1 DEF Crash, CInv, TypeOK
<1> QED BY <1>1, <1>2, ControlEnded DEF Crash

\* A signal between operations keeps it.
LEMMA ControlSignal == CInv /\ Signal => CInv'
BY ControlLastSave DEF Signal

\* Every step keeps it.
LEMMA ControlNext == CInv /\ [Next]_vars => CInv'
<1>1. SUFFICES ASSUME CInv, [Next]_vars PROVE CInv'
  OBVIOUS
<1>2. CASE Start
  BY <1>1, <1>2, ControlStart
<1>3. CASE \E i \in Ids, x \in Amounts : Deposit(i, x)
  BY <1>1, <1>3, ControlDeposit
<1>4. CASE \E i \in Ids, x \in Amounts : Withdraw(i, x)
  BY <1>1, <1>4, ControlWithdraw
<1>5. CASE \E i \in Ids, x \in Amounts : \E j \in Ids \ {i} : Transfer(i, j, x)
  BY <1>1, <1>5, ControlTransfer
<1>6. CASE \E S \in SUBSET {i \in Ids : balance[i] > 0} : ApplyInterestAll(S)
  BY <1>1, <1>6, ControlInterest
<1>7. CASE Exit
  BY <1>1, <1>7, ControlExit
<1>8. CASE DoMove
  BY <1>1, <1>8, ControlMove
<1>9. CASE DoRecord
  BY <1>1, <1>9, ControlRecord
<1>10. CASE DoSave
  BY <1>1, <1>10, ControlSave
<1>11. CASE DoExit
  BY <1>1, <1>11, ControlDoExit
<1>12. CASE Crash
  BY <1>1, <1>12, ControlCrash
<1>13. CASE Signal
  BY <1>1, <1>13, ControlSignal
<1>14. CASE UNCHANGED vars
  BY <1>1, <1>14
  DEF vars, CInv, TypeOK, DownIsIdle, ExitSaves, SaveIsLast, DebitIsCovered, OfOperations,
      Records, Pending
<1> QED BY <1>1, <1>2, <1>3, <1>4, <1>5, <1>6, <1>7, <1>8, <1>9, <1>10, <1>11, <1>12, <1>13,
           <1>14 DEF Next

\* It is true at first.
LEMMA ControlInit == Init => CInv
<1>1. SUFFICES ASSUME Init PROVE CInv
  OBVIOUS
<1>2. /\ up = FALSE /\ todo = <<>> /\ exiting = FALSE /\ ledger = <<>> /\ ops = 0
      /\ balance = [i \in Ids |-> 0] /\ saved = [i \in Ids |-> 0]
  BY <1>1 DEF Init
<1>3. balance \in [Ids -> Nat] /\ saved \in [Ids -> Nat] /\ ops \in 0 .. MaxOps
  BY <1>2, BoundsAssumption
<1>4. ledger \in Seq(Entry) /\ todo \in Seq(Step)
  BY <1>2
<1>5. TypeOK
  BY <1>2, <1>3, <1>4 DEF TypeOK
<1>6. DownIsIdle /\ ExitSaves /\ SaveIsLast /\ DebitIsCovered /\ OfOperations
  BY <1>2 DEF DownIsIdle, ExitSaves, SaveIsLast, DebitIsCovered, OfOperations, Records, Pending
<1> QED BY <1>5, <1>6 DEF CInv

\* Whenever signals come: the variables keep their types; above all no balance ever
\* becomes negative, in memory or in the file, whatever step an operation has reached.
THEOREM TypesKept == Spec => []TypeOK
<1>1. CInv => TypeOK
  BY DEF CInv
<1> QED BY <1>1, ControlInit, ControlNext, PTL DEF Spec

-----------------------------------------------------------------------------
(* The money *)

\* What an operation's steps move for account i, and record for it: x; and what they
\* record of a transfer cancels out.
Moving(s, x) ==
  /\ \A i \in Ids : /\ Total(i, s, Doing(s, "move")) = x[i]
                    /\ Total(i, s, Doing(s, "record")) = x[i]
                    /\ x[i] \in Int
  /\ Left(s) = 0

\* One step of a kind for account i.
LEMMA TotalOfOne ==
  ASSUME NEW i, NEW d, NEW s, NEW k \in DOMAIN s, s[k].by \in Int,
         {j \in Doing(s, d) : s[j].id = i} = {k}
  PROVE  Total(i, s, Doing(s, d)) = s[k].by
BY SummedSingle DEF Total

\* None.
LEMMA TotalOfNo ==
  ASSUME NEW i, NEW d, NEW s, {j \in Doing(s, d) : s[j].id = i} = {}
  PROVE  Total(i, s, Doing(s, d)) = 0
BY SummedEmpty DEF Total

\* A save moves and records nothing.
LEMMA SaveMoves == Moving(<<Save>>, [i \in Ids |-> 0])
<1> DEFINE s == <<Save>>
<1>1. \A k \in DOMAIN s : s[k].do # "move" /\ s[k].do # "record"
  BY StepTypes
<1> HIDE DEF s
<1>2. \A i \in Ids : Total(i, s, Doing(s, "move")) = 0 /\ Total(i, s, Doing(s, "record")) = 0
  BY <1>1, TotalOfOthers
<1>3. Left(s) = 0
  BY <1>1, LeftOfOthers
<1> QED BY <1>2, <1>3 DEF Moving, s

\* A deposit or withdrawal records what it moves.
LEMMA CashMoves ==
  ASSUME NEW i \in Ids, NEW x \in Int
  PROVE  Moving(CashSteps(i, x), [a \in Ids |-> IF a = i THEN x ELSE 0])
<1> DEFINE m == Move(i, x, "cash")
           r == Record(i, x, "cash")
           s == <<m, r, Save>>
<1>1. /\ m.do = "move" /\ m.by = x /\ m.id = i
      /\ r.do = "record" /\ r.by = x /\ r.id = i /\ r.kind = "cash"
      /\ Save.do = "save"
  BY StepTypes DEF Kind
<1> HIDE DEF m, r
<1>2. DOMAIN s = {1, 2, 3} /\ s[1] = m /\ s[2] = r /\ s[3] = Save
  OBVIOUS
<1>3. CashSteps(i, x) = s
  BY DEF CashSteps, m, r
<1> HIDE DEF s
<1>4. Doing(s, "move") = {1} /\ Doing(s, "record") = {2}
  BY <1>1, <1>2 DEF Doing
<1>5. ASSUME NEW a \in Ids
      PROVE  LET y == IF a = i THEN x ELSE 0
             IN  Total(a, s, Doing(s, "move")) = y /\ Total(a, s, Doing(s, "record")) = y
  <2>1. CASE a = i
    <3>1. /\ {j \in Doing(s, "move") : s[j].id = a} = {1}
          /\ {j \in Doing(s, "record") : s[j].id = a} = {2}
      BY <1>1, <1>2, <1>4, <2>1
    <3>2. 1 \in DOMAIN s /\ 2 \in DOMAIN s /\ s[1].by = x /\ s[2].by = x
      BY <1>1, <1>2
    <3> QED BY <2>1, <3>1, <3>2, TotalOfOne
  <2>2. CASE a # i
    <3>1. /\ {j \in Doing(s, "move") : s[j].id = a} = {}
          /\ {j \in Doing(s, "record") : s[j].id = a} = {}
      BY <1>1, <1>2, <1>4, <2>2
    <3> QED BY <2>2, <3>1, TotalOfNo
  <2> QED BY <2>1, <2>2
<1>6. Left(s) = 0
  <2>1. \A k \in DOMAIN s : s[k].do = "record" => s[k].kind # "transfer"
    BY <1>1, <1>2
  <2> QED BY <2>1, LeftOfOthers
<1> QED BY <1>3, <1>5, <1>6 DEF Moving

\* A transfer records both its moves.
LEMMA TransferMoves ==
  ASSUME NEW i \in Ids, NEW j \in Ids \ {i}, NEW x \in Nat
  PROVE  Moving(TransferSteps(i, j, x),
                [a \in Ids |-> IF a = i THEN -x ELSE IF a = j THEN x ELSE 0])
<1> DEFINE m == Move(i, -x, "transfer")
           n == Move(j, x, "transfer")
           r == Record(i, -x, "transfer")
           q == Record(j, x, "transfer")
           s == <<m, n, r, q, Save>>
<1>0. -x \in Int /\ x \in Int /\ (-x) + x = 0
  OBVIOUS
<1>1. /\ m.do = "move" /\ m.by = -x /\ m.id = i
      /\ n.do = "move" /\ n.by = x /\ n.id = j
      /\ r.do = "record" /\ r.by = -x /\ r.id = i /\ r.kind = "transfer"
      /\ q.do = "record" /\ q.by = x /\ q.id = j /\ q.kind = "transfer"
      /\ Save.do = "save" /\ Save.by = 0
  BY <1>0, StepTypes DEF Kind
<1>a. m \in Step /\ n \in Step /\ r \in Step /\ q \in Step /\ Save \in Step
  BY <1>0, StepTypes DEF Kind
<1> HIDE DEF m, n, r, q
<1>2. /\ s \in Seq(Step)
      /\ DOMAIN s = {1, 2, 3, 4, 5} /\ s[1] = m /\ s[2] = n /\ s[3] = r /\ s[4] = q /\ s[5] = Save
  BY <1>a
<1>3. TransferSteps(i, j, x) = s
  BY DEF TransferSteps, m, n, r, q
<1> HIDE DEF s
<1>4. Doing(s, "move") = {1, 2} /\ Doing(s, "record") = {3, 4}
  BY <1>1, <1>2 DEF Doing
<1>b. /\ s[1].by = -x /\ s[2].by = x /\ s[3].by = -x /\ s[4].by = x
      /\ s[1].id = i /\ s[2].id = j /\ s[3].id = i /\ s[4].id = j
      /\ 1 \in DOMAIN s /\ 2 \in DOMAIN s /\ 3 \in DOMAIN s /\ 4 \in DOMAIN s
  BY <1>1, <1>2
<1>5. ASSUME NEW a \in Ids
      PROVE  LET y == IF a = i THEN -x ELSE IF a = j THEN x ELSE 0
             IN  Total(a, s, Doing(s, "move")) = y /\ Total(a, s, Doing(s, "record")) = y
  <2>1. CASE a = i
    <3>1. /\ {k \in Doing(s, "move") : s[k].id = a} = {1}
          /\ {k \in Doing(s, "record") : s[k].id = a} = {3}
      BY <1>4, <1>b, <2>1
    <3> QED BY <1>0, <1>b, <2>1, <3>1, TotalOfOne
  <2>2. CASE a = j
    <3>1. /\ {k \in Doing(s, "move") : s[k].id = a} = {2}
          /\ {k \in Doing(s, "record") : s[k].id = a} = {4}
      BY <1>4, <1>b, <2>2
    <3> QED BY <1>0, <1>b, <2>2, <3>1, TotalOfOne
  <2>3. CASE a # i /\ a # j
    <3>1. /\ {k \in Doing(s, "move") : s[k].id = a} = {}
          /\ {k \in Doing(s, "record") : s[k].id = a} = {}
      BY <1>4, <1>b, <2>3
    <3> QED BY <2>3, <3>1, TotalOfNo
  <2> QED BY <2>1, <2>2, <2>3
<1>6. Left(s) = 0
  <2>1. {k \in Doing(s, "record") : s[k].kind = "transfer"} = {3} \cup {4}
    BY <1>1, <1>2, <1>4
  <2>2. Summed(s, {3}) = -x /\ Summed(s, {4}) = x
    BY <1>0, <1>b, SummedSingle
  <2>3. \A k \in DOMAIN s : s[k].by \in Int
    BY <1>2, StepsBy
  <2>4. Summed(s, {3} \cup {4}) = Summed(s, {3}) + Summed(s, {4})
    <3>1. {3} \subseteq DOMAIN s /\ {4} \subseteq DOMAIN s /\ {3} \cap {4} = {}
      BY <1>b
    <3> QED BY <1>2, <2>3, <3>1, SummedDisjoint
  <2> QED BY <1>0, <2>1, <2>2, <2>4 DEF Left
<1> QED BY <1>0, <1>3, <1>5, <1>6 DEF Moving

\* A month's interest records what it credits to each account of S.
LEMMA InterestMoves ==
  ASSUME NEW S, S \subseteq Ids
  PROVE  Moving(InterestSteps(SetToSeq(S)), [a \in Ids |-> IF a \in S THEN 1 ELSE 0])
<1> DEFINE s == SetToSeq(S)
           n == Len(s)
           t == InterestSteps(s)
<1>1. /\ s \in Seq(Ids)
      /\ \A i \in S : \E k \in 1 .. n : s[k] = i
      /\ \A k \in 1 .. n : s[k] \in S
      /\ \A k, l \in 1 .. n : s[k] = s[l] => k = l
  BY InOrder
<1> HIDE DEF s
<1>2. /\ n \in Nat /\ DOMAIN t = 1 .. 2 * n + 1
      /\ t[2 * n + 1] = Save
      /\ \A k \in 1 .. n : /\ t[2 * k - 1] = Move(s[k], 1, "interest")
                           /\ t[2 * k] = Record(s[k], 1, "interest")
      /\ \A k \in 1 .. 2 * n :
           \E j \in 1 .. n : \/ k = 2 * j - 1 /\ t[k] = Move(s[j], 1, "interest")
                             \/ k = 2 * j /\ t[k] = Record(s[j], 1, "interest")
  BY <1>1, InterestAt
<1> HIDE DEF t, n
<1>3. \A k \in 1 .. n : s[k] \in Ids
  BY <1>1
<1>4. ASSUME NEW k \in 1 .. n
      PROVE  /\ 2 * k - 1 \in DOMAIN t /\ 2 * k \in DOMAIN t
             /\ t[2 * k - 1].do = "move" /\ t[2 * k - 1].by = 1 /\ t[2 * k - 1].id = s[k]
             /\ t[2 * k].do = "record" /\ t[2 * k].by = 1 /\ t[2 * k].id = s[k]
             /\ t[2 * k].kind = "interest"
  <2>1. 2 * k - 1 \in DOMAIN t /\ 2 * k \in DOMAIN t
    BY <1>2, <1>4
  <2>2. s[k] \in Ids /\ 1 \in Int /\ "interest" \in Kind
    BY <1>3 DEF Kind
  <2>3. /\ t[2 * k - 1] = Move(s[k], 1, "interest")
        /\ t[2 * k] = Record(s[k], 1, "interest")
    BY <1>2
  <2>4. /\ Move(s[k], 1, "interest").do = "move" /\ Move(s[k], 1, "interest").by = 1
        /\ Move(s[k], 1, "interest").id = s[k]
        /\ Record(s[k], 1, "interest").do = "record" /\ Record(s[k], 1, "interest").by = 1
        /\ Record(s[k], 1, "interest").id = s[k] /\ Record(s[k], 1, "interest").kind = "interest"
    BY <2>2, StepTypes
  <2> QED BY <2>1, <2>3, <2>4
<1>5. ASSUME NEW k \in DOMAIN t
      PROVE  \/ t[k].do = "save"
             \/ \E j \in 1 .. n : k = 2 * j - 1 /\ t[k].do = "move"
             \/ \E j \in 1 .. n : k = 2 * j /\ t[k].do = "record"
  <2>1. k \in 1 .. 2 * n \/ k = 2 * n + 1
    BY <1>2
  <2>2. CASE k = 2 * n + 1
    BY <1>2, <2>2, StepTypes
  <2>3. CASE k \in 1 .. 2 * n
    <3>1. \E j \in 1 .. n : k = 2 * j - 1 \/ k = 2 * j
      BY <1>2, <2>3
    <3> QED BY <1>4, <3>1
  <2> QED BY <2>1, <2>2, <2>3
<1>6. ASSUME NEW a \in Ids
      PROVE  LET y == IF a \in S THEN 1 ELSE 0
             IN  Total(a, t, Doing(t, "move")) = y /\ Total(a, t, Doing(t, "record")) = y
  <2>1. CASE a \in S
    <3>1. PICK k \in 1 .. n : s[k] = a
      BY <1>1, <2>1
    <3>2. {j \in Doing(t, "move") : t[j].id = a} = {2 * k - 1}
      <4>1. 2 * k - 1 \in Doing(t, "move") /\ t[2 * k - 1].id = a
        BY <1>4, <3>1 DEF Doing
      <4>2. ASSUME NEW j \in Doing(t, "move"), t[j].id = a PROVE j = 2 * k - 1
        <5>1. PICK l \in 1 .. n : j = 2 * l - 1
          BY <1>5, <4>2 DEF Doing
        <5>2. s[l] = s[k]
          BY <1>4, <3>1, <4>2, <5>1
        <5> QED BY <1>1, <5>1, <5>2
      <4> QED BY <4>1, <4>2
    <3>3. {j \in Doing(t, "record") : t[j].id = a} = {2 * k}
      <4>1. 2 * k \in Doing(t, "record") /\ t[2 * k].id = a
        BY <1>4, <3>1 DEF Doing
      <4>2. ASSUME NEW j \in Doing(t, "record"), t[j].id = a PROVE j = 2 * k
        <5>1. PICK l \in 1 .. n : j = 2 * l
          BY <1>5, <4>2 DEF Doing
        <5>2. s[l] = s[k]
          BY <1>4, <3>1, <4>2, <5>1
        <5> QED BY <1>1, <5>1, <5>2
      <4> QED BY <4>1, <4>2
    <3>4. /\ 2 * k - 1 \in DOMAIN t /\ 2 * k \in DOMAIN t
          /\ t[2 * k - 1].by = 1 /\ t[2 * k].by = 1
      BY <1>4
    <3>5. Total(a, t, Doing(t, "move")) = 1
      BY <3>2, <3>4, TotalOfOne
    <3>6. Total(a, t, Doing(t, "record")) = 1
      BY <3>3, <3>4, TotalOfOne
    <3> QED BY <2>1, <3>5, <3>6
  <2>2. CASE a \notin S
    <3>1. {j \in Doing(t, "move") : t[j].id = a} = {}
      BY <1>1, <1>4, <1>5, <2>2 DEF Doing
    <3>2. {j \in Doing(t, "record") : t[j].id = a} = {}
      BY <1>1, <1>4, <1>5, <2>2 DEF Doing
    <3> QED BY <2>2, <3>1, <3>2, TotalOfNo
  <2> QED BY <2>1, <2>2
<1>7. Left(t) = 0
  <2>1. \A k \in DOMAIN t : t[k].do = "record" => t[k].kind # "transfer"
    BY <1>4, <1>5
  <2> QED BY <2>1, LeftOfOthers
<1> QED BY <1>6, <1>7 DEF Moving, t, s

\* What the sums of the invariant are made of are integers.
LEMMA StepSumsInt ==
  ASSUME NEW s \in Seq(Step)
  PROVE  /\ \A i, d : Total(i, s, Doing(s, d)) \in Int
         /\ Left(s) \in Int
<1> DEFINE K == {k \in Doing(s, "record") : s[k].kind = "transfer"}
<1>1. /\ \A d : Doing(s, d) \subseteq DOMAIN s
      /\ K \subseteq DOMAIN s /\ \A k \in DOMAIN s : s[k].by \in Int
  BY StepsBy DEF Doing
<1>2. \A i, d : Total(i, s, Doing(s, d)) \in Int
  BY <1>1, TotalInt
<1> HIDE DEF K
<1>3. Summed(s, K) \in Int
  BY <1>1, SummedInt
<1> QED BY <1>2, <1>3 DEF Left, K

\* The sums the properties are about are integers.
LEMMA SumsInt ==
  ASSUME TypeOK
  PROVE  /\ \A i, d : Total(i, todo, Doing(todo, d)) \in Int
         /\ \A i, F : Total(i, ledger, Fated(ledger, F)) \in Int
         /\ \A o, F : LedgerOf(ledger, o, Fated(ledger, F)) \in Int
         /\ Left(todo) \in Int
<1>1. /\ todo \in Seq(Step) /\ ledger \in Seq(Entry)
      /\ \A F : Fated(ledger, F) \subseteq DOMAIN ledger
  BY DEF TypeOK, Fated
<1>2. \A i, F : Total(i, ledger, Fated(ledger, F)) \in Int
  BY <1>1, TotalInt
<1>3. \A o, F : LedgerOf(ledger, o, Fated(ledger, F)) \in Int
  BY <1>1, LedgerOfInt
<1> QED BY <1>1, <1>2, <1>3, StepSumsInt

\* With nothing to do, nothing will be moved or recorded.
LEMMA NothingToDo ==
  /\ \A i, d : Total(i, <<>>, Doing(<<>>, d)) = 0
  /\ Left(<<>>) = 0
<1>1. \A k \in DOMAIN <<>> : <<>>[k].do = "record" => <<>>[k].kind # "transfer"
  OBVIOUS
<1> QED BY <1>1, TotalOfNone, LeftOfOthers

\* An operation begins: it will record what it will have moved.
LEMMA MoneyBegin ==
  ASSUME IInv, Ready, NEW steps, NEW x, Moving(steps, x), Begin(steps)
  PROVE  Accounted' /\ SavedExplained' /\ TransfersWhole'
<1>1. /\ todo' = steps /\ ops' = ops + 1 /\ up /\ todo = <<>>
      /\ UNCHANGED <<up, balance, saved, ledger, exiting>>
      /\ ops \in Nat /\ balance \in [Ids -> Nat]
  BY BoundsAssumption DEF Begin, Ready, IInv, CInv, TypeOK
<1>2. Accounted'
  <2>1. SUFFICES ASSUME NEW i \in Ids
                 PROVE  balance[i] + Total(i, steps, Doing(steps, "move")) =
                          Total(i, ledger, Fated(ledger, {"kept", "pending"}))
                          + Total(i, steps, Doing(steps, "record"))
    BY <1>1 DEF Accounted
  <2>2. balance[i] + 0 = Total(i, ledger, Fated(ledger, {"kept", "pending"})) + 0
    BY <1>1, NothingToDo DEF IInv, Accounted
  <2>3. /\ balance[i] \in Int
        /\ Total(i, ledger, Fated(ledger, {"kept", "pending"})) \in Int
    BY <1>1, SumsInt DEF IInv, CInv
  <2>4. /\ Total(i, steps, Doing(steps, "move")) = x[i]
        /\ Total(i, steps, Doing(steps, "record")) = x[i] /\ x[i] \in Int
    BY DEF Moving
  <2> QED BY <2>2, <2>3, <2>4
<1>3. SavedExplained'
  BY <1>1 DEF IInv, SavedExplained
<1>4. TransfersWhole'
  <2>1. SUFFICES ASSUME NEW o \in 1 .. ops + 1
                 PROVE  /\ LedgerOf(ledger, o, Fated(ledger, {"kept"})) = 0
                        /\ LedgerOf(ledger, o, Fated(ledger, {"pending"}))
                           + (IF o = ops + 1 THEN Left(steps) ELSE 0) = 0
    BY <1>1 DEF TransfersWhole
  <2>2. Left(steps) = 0
    BY DEF Moving
  <2>3. CASE o = ops + 1
    <3>1. \A k \in DOMAIN ledger : ledger[k].op # o
      BY <1>1, <2>3 DEF IInv, CInv, OfOperations
    <3>2. \A F : LedgerOf(ledger, o, Fated(ledger, F)) = 0
      BY <3>1, LedgerOfNone DEF Fated
    <3> QED BY <2>2, <2>3, <3>2
  <2>4. CASE o # ops + 1
    <3>1. o \in 1 .. ops
      BY <1>1, <2>4
    <3>2. /\ LedgerOf(ledger, o, Fated(ledger, {"kept"})) = 0
          /\ LedgerOf(ledger, o, Fated(ledger, {"pending"})) + (IF o = ops THEN 0 ELSE 0) = 0
      BY <1>1, <3>1, NothingToDo DEF IInv, TransfersWhole
    <3> QED BY <2>4, <3>2
  <2> QED BY <2>3, <2>4
<1> QED BY <1>2, <1>3, <1>4

\* What is left to do is to save: nothing changes but that.
LEMMA MoneyLastSave ==
  ASSUME IInv, up, \A k \in DOMAIN todo : todo[k].do = "save", todo' = <<Save>>,
         UNCHANGED <<up, balance, saved, ledger, ops>>
  PROVE  Accounted' /\ SavedExplained' /\ TransfersWhole'
<1>1. /\ \A i : /\ Total(i, todo, Doing(todo, "move")) = 0
                /\ Total(i, todo, Doing(todo, "record")) = 0
      /\ Left(todo) = 0
  <2>1. \A k \in DOMAIN todo : todo[k].do # "move" /\ todo[k].do # "record"
    OBVIOUS
  <2> QED BY <2>1, TotalOfOthers, LeftOfOthers
<1>2. /\ \A i \in Ids : /\ Total(i, <<Save>>, Doing(<<Save>>, "move")) = 0
                        /\ Total(i, <<Save>>, Doing(<<Save>>, "record")) = 0
      /\ Left(<<Save>>) = 0
  BY SaveMoves DEF Moving
<1>3. Accounted'
  BY <1>1, <1>2 DEF IInv, Accounted
<1>4. SavedExplained'
  BY DEF IInv, SavedExplained
<1>5. TransfersWhole'
  BY <1>1, <1>2 DEF IInv, TransfersWhole
<1> QED BY <1>3, <1>4, <1>5

\* A save keeps what is pending.
LEMMA MoneyKept ==
  ASSUME IInv, up, \A k \in DOMAIN todo : todo[k].do = "save",
         saved' = balance, ledger' = Fates("pending", "kept"), todo' = <<>>, ops' = ops
  PROVE  /\ SavedExplained' /\ TransfersWhole'
         /\ \A i \in Ids : balance[i] = Total(i, ledger', Fated(ledger', {"kept", "pending"}))
<1>1. /\ ledger \in Seq(Entry) /\ balance \in [Ids -> Nat]
      /\ DOMAIN ledger' = DOMAIN ledger
      /\ \A k \in DOMAIN ledger :
           /\ ledger'[k].id = ledger[k].id /\ ledger'[k].by = ledger[k].by
           /\ ledger'[k].op = ledger[k].op /\ ledger'[k].kind = ledger[k].kind
           /\ ledger'[k].fate = IF ledger[k].fate = "pending" THEN "kept" ELSE ledger[k].fate
  BY FatesFields DEF IInv, CInv, TypeOK
<1> DEFINE K == Fated(ledger, {"kept", "pending"})
<1>2. /\ Fated(ledger', {"kept"}) = K /\ Fated(ledger', {"kept", "pending"}) = K
      /\ Fated(ledger', {"pending"}) = {} /\ K \subseteq DOMAIN ledger
  BY <1>1 DEF Fated
<1>3. \A i : Total(i, ledger', K) = Total(i, ledger, K)
  BY <1>1, <1>2, TotalSame
<1>4. \A o : LedgerOf(ledger', o, K) = LedgerOf(ledger, o, K)
  BY <1>1, <1>2, LedgerOfSame
<1>5. /\ \A i : /\ Total(i, todo, Doing(todo, "move")) = 0
                /\ Total(i, todo, Doing(todo, "record")) = 0
      /\ Left(todo) = 0
  <2>1. \A k \in DOMAIN todo : todo[k].do # "move" /\ todo[k].do # "record"
    OBVIOUS
  <2> QED BY <2>1, TotalOfOthers, LeftOfOthers
<1>6. ASSUME NEW i \in Ids PROVE balance[i] = Total(i, ledger, K)
  <2>1. balance[i] + 0 = Total(i, ledger, K) + 0
    BY <1>5 DEF IInv, Accounted
  <2>2. balance[i] \in Int /\ Total(i, ledger, K) \in Int
    BY <1>1, SumsInt DEF IInv, CInv
  <2> QED BY <2>1, <2>2
<1>7. ASSUME NEW o \in 1 .. ops PROVE LedgerOf(ledger, o, K) = 0
  <2>1. /\ LedgerOf(ledger, o, Fated(ledger, {"kept"})) = 0
        /\ LedgerOf(ledger, o, Fated(ledger, {"pending"})) + (IF o = ops THEN 0 ELSE 0) = 0
    BY <1>5 DEF IInv, TransfersWhole
  <2>2. LedgerOf(ledger, o, Fated(ledger, {"pending"})) \in Int
    BY SumsInt DEF IInv, CInv
  <2>3. LedgerOf(ledger, o, K) = LedgerOf(ledger, o, Fated(ledger, {"kept"}))
                                 + LedgerOf(ledger, o, Fated(ledger, {"pending"}))
    BY <1>1, LedgerOfBoth
  <2> QED BY <2>1, <2>2, <2>3
<1> HIDE DEF K
<1>8. SavedExplained'
  BY <1>2, <1>3, <1>6 DEF SavedExplained
<1>9. \A o : LedgerOf(ledger', o, {}) = 0
  BY LedgerOfNone
<1>10. TransfersWhole'
  <2>1. SUFFICES ASSUME NEW o \in 1 .. ops
                 PROVE  /\ LedgerOf(ledger', o, Fated(ledger', {"kept"})) = 0
                        /\ LedgerOf(ledger', o, Fated(ledger', {"pending"}))
                           + (IF o = ops THEN Left(<<>>) ELSE 0) = 0
    BY DEF TransfersWhole
  <2>2. Left(<<>>) = 0
    BY NothingToDo
  <2>3. LedgerOf(ledger', o, Fated(ledger', {"pending"})) = 0
    BY <1>2, <1>9
  <2>4. LedgerOf(ledger', o, Fated(ledger', {"kept"})) = LedgerOf(ledger, o, K)
    BY <1>2, <1>4
  <2>5. LedgerOf(ledger, o, K) = 0
    BY <1>7
  <2> HIDE DEF K
  <2> QED BY <2>2, <2>3, <2>4, <2>5
<1> QED BY <1>2, <1>3, <1>6, <1>8, <1>10

\* An end loses what is pending.
LEMMA MoneyLost ==
  ASSUME IInv, saved' = saved, ledger' = Fates("pending", "lost"), todo' = <<>>, ops' = ops
  PROVE  SavedExplained' /\ TransfersWhole'
<1>1. /\ ledger \in Seq(Entry)
      /\ DOMAIN ledger' = DOMAIN ledger
      /\ \A k \in DOMAIN ledger :
           /\ ledger'[k].id = ledger[k].id /\ ledger'[k].by = ledger[k].by
           /\ ledger'[k].op = ledger[k].op /\ ledger'[k].kind = ledger[k].kind
           /\ ledger'[k].fate = IF ledger[k].fate = "pending" THEN "lost" ELSE ledger[k].fate
  BY FatesFields DEF IInv, CInv, TypeOK
<1> DEFINE K == Fated(ledger, {"kept"})
<1>2. /\ Fated(ledger', {"kept"}) = K /\ K \subseteq DOMAIN ledger
      /\ Fated(ledger', {"pending"}) = {}
  BY <1>1 DEF Fated
<1>3. \A i : Total(i, ledger', K) = Total(i, ledger, K)
  BY <1>1, <1>2, TotalSame
<1>4. \A o : LedgerOf(ledger', o, K) = LedgerOf(ledger, o, K)
  BY <1>1, <1>2, LedgerOfSame
<1>5. SavedExplained'
  BY <1>2, <1>3 DEF IInv, SavedExplained
<1>6. \A o : LedgerOf(ledger', o, {}) = 0
  BY LedgerOfNone
<1>7. TransfersWhole'
  <2>1. SUFFICES ASSUME NEW o \in 1 .. ops
                 PROVE  /\ LedgerOf(ledger', o, Fated(ledger', {"kept"})) = 0
                        /\ LedgerOf(ledger', o, Fated(ledger', {"pending"}))
                           + (IF o = ops THEN Left(<<>>) ELSE 0) = 0
    BY DEF TransfersWhole
  <2>2. Left(<<>>) = 0
    BY NothingToDo
  <2>3. LedgerOf(ledger', o, Fated(ledger', {"pending"})) = 0
    BY <1>2, <1>6
  <2>4. LedgerOf(ledger', o, Fated(ledger', {"kept"})) = LedgerOf(ledger, o, K)
    BY <1>2, <1>4
  <2>5. LedgerOf(ledger, o, K) = 0
    BY DEF IInv, TransfersWhole
  <2> HIDE DEF K
  <2> QED BY <2>2, <2>3, <2>4, <2>5
<1> QED BY <1>5, <1>7

\* A move changes memory by what no longer is to be moved.
LEMMA MoneyMove == IInv /\ DoMove => Accounted' /\ SavedExplained' /\ TransfersWhole'
<1>1. SUFFICES ASSUME IInv, DoMove PROVE Accounted' /\ SavedExplained' /\ TransfersWhole'
  OBVIOUS
<1> DEFINE h == Head(todo)
<1>2. /\ todo # <<>> /\ h.do = "move" /\ todo' = Tail(todo)
      /\ balance' = [balance EXCEPT ![h.id] = @ + h.by]
      /\ UNCHANGED <<up, saved, ledger, exiting, ops>>
      /\ todo \in Seq(Step) /\ balance \in [Ids -> Nat]
  BY <1>1 DEF DoMove, IInv, CInv, TypeOK
<1>3. h \in Step /\ h.id \in Ids /\ h.by \in Int
  <2>1. h \in Step
    BY <1>2, StepsLeft
  <2> QED BY <2>1 DEF Step
<1>4. \A i : Total(i, todo, Doing(todo, "move")) =
               (IF h.id = i THEN h.by ELSE 0) + Total(i, todo', Doing(todo', "move"))
  BY <1>2, TotalOfTail
<1>5. \A i : Total(i, todo, Doing(todo, "record")) = 0 + Total(i, todo', Doing(todo', "record"))
  <2>1. h.do # "record"
    BY <1>2
  <2> QED BY <1>2, <2>1, TotalOfTail
<1>6. Left(todo) = 0 + Left(todo')
  <2>1. h.do # "record"
    BY <1>2
  <2> QED BY <1>2, <2>1, LeftOfTail
<1>7. /\ \A i, d : Total(i, todo', Doing(todo', d)) \in Int
      /\ \A i, F : Total(i, ledger, Fated(ledger, F)) \in Int
      /\ Left(todo') \in Int
  <2>1. todo' \in Seq(Step)
    BY <1>2, StepsLeft
  <2> QED BY <1>1, <2>1, StepSumsInt, SumsInt DEF IInv, CInv
<1> HIDE DEF h
<1>8. Accounted'
  <2>1. SUFFICES ASSUME up, NEW i \in Ids
                 PROVE  balance'[i] + Total(i, todo', Doing(todo', "move")) =
                          Total(i, ledger, Fated(ledger, {"kept", "pending"}))
                          + Total(i, todo', Doing(todo', "record"))
    BY <1>2 DEF Accounted
  <2>2. balance[i] + Total(i, todo, Doing(todo, "move")) =
          Total(i, ledger, Fated(ledger, {"kept", "pending"}))
          + Total(i, todo, Doing(todo, "record"))
    BY <1>1, <2>1 DEF IInv, Accounted
  <2>3. balance'[i] = balance[i] + (IF h.id = i THEN h.by ELSE 0) /\ balance[i] \in Int
    BY <1>2, <1>3
  <2>4. /\ Total(i, todo', Doing(todo', "move")) \in Int
        /\ Total(i, todo', Doing(todo', "record")) \in Int
        /\ Total(i, ledger, Fated(ledger, {"kept", "pending"})) \in Int
    BY <1>7
  <2> QED BY <1>3, <1>4, <1>5, <2>2, <2>3, <2>4
<1>9. SavedExplained'
  BY <1>1, <1>2 DEF IInv, SavedExplained
<1>10. TransfersWhole'
  <2>1. Left(todo') = Left(todo)
    BY <1>6, <1>7
  <2> QED BY <1>1, <1>2, <2>1 DEF IInv, TransfersWhole
<1> QED BY <1>8, <1>9, <1>10

\* A record says what no longer is to be recorded.
LEMMA MoneyRecord == IInv /\ DoRecord => Accounted' /\ SavedExplained' /\ TransfersWhole'
<1>1. SUFFICES ASSUME IInv, DoRecord PROVE Accounted' /\ SavedExplained' /\ TransfersWhole'
  OBVIOUS
<1> DEFINE h == Head(todo)
<1>w. PICK w \in BOOLEAN :
         ledger' = Append(ledger, [id |-> h.id, by |-> h.by, kind |-> h.kind, op |-> ops,
                                   fate |-> "pending", written |-> w])
  BY <1>1 DEF DoRecord
<1> DEFINE e == [id |-> h.id, by |-> h.by, kind |-> h.kind, op |-> ops, fate |-> "pending",
                 written |-> w]
           n == Len(ledger) + 1
<1>2. /\ todo # <<>> /\ h.do = "record" /\ todo' = Tail(todo)
      /\ ledger' = Append(ledger, e)
      /\ UNCHANGED <<up, balance, saved, exiting, ops>>
      /\ todo \in Seq(Step) /\ ledger \in Seq(Entry) /\ balance \in [Ids -> Nat] /\ ops \in Nat
  BY <1>1, <1>w, BoundsAssumption DEF DoRecord, IInv, CInv, TypeOK
<1>3. h \in Step /\ h.id \in Ids /\ h.by \in Int /\ h.kind \in Kind
  <2>1. h \in Step
    BY <1>2, StepsLeft
  <2> QED BY <2>1 DEF Step
<1>4. /\ e \in Entry /\ e.id = h.id /\ e.by = h.by /\ e.kind = h.kind /\ e.op = ops
      /\ e.fate = "pending"
  BY <1>2, <1>3, <1>w DEF Entry
<1> HIDE DEF e
<1>5. \A i : Total(i, todo, Doing(todo, "record")) =
               (IF h.id = i THEN h.by ELSE 0) + Total(i, todo', Doing(todo', "record"))
  BY <1>2, TotalOfTail
<1>6. \A i : Total(i, todo, Doing(todo, "move")) = 0 + Total(i, todo', Doing(todo', "move"))
  <2>1. h.do # "move"
    BY <1>2
  <2> QED BY <1>2, <2>1, TotalOfTail
<1>7. Left(todo) = (IF h.kind = "transfer" THEN h.by ELSE 0) + Left(todo')
  BY <1>2, LeftOfTail
<1>8. /\ Fated(ledger', {"kept"}) = Fated(ledger, {"kept"})
      /\ Fated(ledger', {"pending"}) = Fated(ledger, {"pending"}) \cup {n}
      /\ Fated(ledger', {"kept", "pending"}) = Fated(ledger, {"kept", "pending"}) \cup {n}
      /\ \A F : Fated(ledger, F) \subseteq DOMAIN ledger
  <2>1. /\ DOMAIN ledger' = DOMAIN ledger \cup {n} /\ n \notin DOMAIN ledger
        /\ ledger'[n] = e /\ \A k \in DOMAIN ledger : ledger'[k] = ledger[k]
    BY <1>2, <1>4
  <2> HIDE DEF n
  <2> QED BY <1>4, <2>1 DEF Fated
<1>9. \A i : /\ Total(i, ledger', Fated(ledger', {"kept"})) = Total(i, ledger, Fated(ledger, {"kept"}))
             /\ Total(i, ledger', Fated(ledger', {"kept", "pending"})) =
                  Total(i, ledger, Fated(ledger, {"kept", "pending"}))
                  + (IF h.id = i THEN h.by ELSE 0)
  <2>1. ASSUME NEW i, NEW K \in SUBSET DOMAIN ledger
        PROVE  /\ Total(i, ledger', K) = Total(i, ledger, K)
               /\ Total(i, ledger', K \cup {n}) =
                    Total(i, ledger, K) + (IF h.id = i THEN h.by ELSE 0)
    <3>1. /\ Total(i, ledger', K) = Total(i, ledger, K)
          /\ Total(i, ledger', K \cup {n}) =
               Total(i, ledger, K) + (IF e.id = i THEN e.by ELSE 0)
      <4>1. Appended(ledger, e, ledger', n)
        BY <1>2, <1>4 DEF Appended
      <4> HIDE DEF n
      <4> QED BY <4>1, TotalOfAppend
    <3> QED BY <1>2, <1>4, <3>1
  <2> HIDE DEF n
  <2> QED BY <1>8, <2>1
<1>10. \A o : /\ LedgerOf(ledger', o, Fated(ledger', {"kept"})) =
                   LedgerOf(ledger, o, Fated(ledger, {"kept"}))
              /\ LedgerOf(ledger', o, Fated(ledger', {"pending"})) =
                   LedgerOf(ledger, o, Fated(ledger, {"pending"}))
                   + (IF ops = o /\ h.kind = "transfer" THEN h.by ELSE 0)
  <2>1. ASSUME NEW o, NEW K \in SUBSET DOMAIN ledger
        PROVE  /\ LedgerOf(ledger', o, K) = LedgerOf(ledger, o, K)
               /\ LedgerOf(ledger', o, K \cup {n}) =
                    LedgerOf(ledger, o, K)
                    + (IF ops = o /\ h.kind = "transfer" THEN h.by ELSE 0)
    <3>1. /\ LedgerOf(ledger', o, K) = LedgerOf(ledger, o, K)
          /\ LedgerOf(ledger', o, K \cup {n}) =
               LedgerOf(ledger, o, K) + (IF e.op = o /\ e.kind = "transfer" THEN e.by ELSE 0)
      <4>1. Appended(ledger, e, ledger', n)
        BY <1>2, <1>4 DEF Appended
      <4> HIDE DEF n
      <4> QED BY <4>1, LedgerOfAppend
    <3> QED BY <1>2, <1>4, <3>1
  <2> HIDE DEF n
  <2> QED BY <1>8, <2>1
<1>11. /\ \A i, d : Total(i, todo', Doing(todo', d)) \in Int
       /\ \A i, F : Total(i, ledger, Fated(ledger, F)) \in Int
       /\ \A o, F : LedgerOf(ledger, o, Fated(ledger, F)) \in Int
       /\ Left(todo') \in Int
  <2>1. todo' \in Seq(Step)
    BY <1>2, StepsLeft
  <2> QED BY <1>1, <2>1, StepSumsInt, SumsInt DEF IInv, CInv
<1> HIDE DEF h
<1>12. Accounted'
  <2>1. SUFFICES ASSUME up, NEW i \in Ids
                 PROVE  balance[i] + Total(i, todo', Doing(todo', "move")) =
                          Total(i, ledger', Fated(ledger', {"kept", "pending"}))
                          + Total(i, todo', Doing(todo', "record"))
    BY <1>2 DEF Accounted
  <2>2. balance[i] + Total(i, todo, Doing(todo, "move")) =
          Total(i, ledger, Fated(ledger, {"kept", "pending"}))
          + Total(i, todo, Doing(todo, "record"))
    BY <1>1, <2>1 DEF IInv, Accounted
  <2>3. /\ Total(i, todo', Doing(todo', "move")) \in Int
        /\ Total(i, todo', Doing(todo', "record")) \in Int
        /\ Total(i, ledger, Fated(ledger, {"kept", "pending"})) \in Int
        /\ balance[i] \in Int
    BY <1>2, <1>11
  <2> QED BY <1>3, <1>5, <1>6, <1>9, <2>2, <2>3
<1>13. SavedExplained'
  BY <1>1, <1>2, <1>9 DEF IInv, SavedExplained
<1>14. TransfersWhole'
  <2>1. SUFFICES ASSUME NEW o \in 1 .. ops
                 PROVE  /\ LedgerOf(ledger', o, Fated(ledger', {"kept"})) = 0
                        /\ LedgerOf(ledger', o, Fated(ledger', {"pending"}))
                           + (IF o = ops THEN Left(todo') ELSE 0) = 0
    BY <1>2 DEF TransfersWhole
  <2>2. /\ LedgerOf(ledger, o, Fated(ledger, {"kept"})) = 0
        /\ LedgerOf(ledger, o, Fated(ledger, {"pending"})) + (IF o = ops THEN Left(todo) ELSE 0) = 0
    BY <1>1 DEF IInv, TransfersWhole
  <2>3. LedgerOf(ledger, o, Fated(ledger, {"pending"})) \in Int /\ Left(todo') \in Int
    BY <1>11
  <2> QED BY <1>3, <1>7, <1>10, <2>2, <2>3
<1> QED BY <1>12, <1>13, <1>14

\* A save is the last step of its operation.
LEMMA SaveAlone ==
  ASSUME CInv, todo # <<>>, Head(todo).do = "save"
  PROVE  Tail(todo) = <<>> /\ \A k \in DOMAIN todo : todo[k].do = "save"
<1>1. /\ todo \in Seq(Step) /\ Head(todo) = todo[1] /\ 1 \in DOMAIN todo
      /\ \A k \in DOMAIN todo : todo[k].do = "save" <=> k = Len(todo)
  BY StepsLeft DEF CInv, TypeOK, SaveIsLast
<1>2. Len(todo) = 1
  BY <1>1
<1>3. DOMAIN todo = {1}
  BY <1>1, <1>2
<1>4. Tail(todo) = <<>>
  <2> DEFINE t == Tail(todo)
  <2>1. t \in Seq(Step) /\ Len(t) = 0
    BY <1>1, <1>2, StepsLeft
  <2> HIDE DEF t
  <2>2. t = <<>>
    BY <2>1
  <2> QED BY <2>2 DEF t
<1> QED BY <1>1, <1>2, <1>3, <1>4

\* A save makes the saved balances the ones the log explains.
LEMMA MoneySave == IInv /\ DoSave => Accounted' /\ SavedExplained' /\ TransfersWhole'
<1>1. SUFFICES ASSUME IInv, DoSave PROVE Accounted' /\ SavedExplained' /\ TransfersWhole'
  OBVIOUS
<1>2. /\ todo # <<>> /\ todo' = Tail(todo) /\ Head(todo).do = "save"
      /\ UNCHANGED <<up, balance, exiting, ops>>
      /\ up
  BY <1>1 DEF DoSave, IInv, CInv, DownIsIdle
<1>3. todo' = <<>> /\ \A k \in DOMAIN todo : todo[k].do = "save"
  BY <1>1, <1>2, SaveAlone DEF IInv
<1>4. CASE saved' = balance /\ ledger' = Fates("pending", "kept")
  <2>1. /\ SavedExplained' /\ TransfersWhole'
        /\ \A i \in Ids : balance[i] = Total(i, ledger', Fated(ledger', {"kept", "pending"}))
    BY <1>1, <1>2, <1>3, <1>4, MoneyKept
  <2>2. \A i \in Ids : balance[i] \in Int
    BY <1>1 DEF IInv, CInv, TypeOK
  <2>3. Accounted'
    <3>1. SUFFICES ASSUME NEW i \in Ids
                   PROVE  balance[i] + Total(i, <<>>, Doing(<<>>, "move")) =
                            Total(i, ledger', Fated(ledger', {"kept", "pending"}))
                            + Total(i, <<>>, Doing(<<>>, "record"))
      BY <1>2, <1>3 DEF Accounted
    <3>2. /\ Total(i, <<>>, Doing(<<>>, "move")) = 0
          /\ Total(i, <<>>, Doing(<<>>, "record")) = 0
      BY NothingToDo
    <3> QED BY <2>1, <2>2, <3>2
  <2> QED BY <2>1, <2>3
<1>5. CASE UNCHANGED <<saved, ledger>>
  <2>1. /\ \A i : /\ Total(i, todo, Doing(todo, "move")) = 0
                  /\ Total(i, todo, Doing(todo, "record")) = 0
        /\ Left(todo) = 0
    <3>1. \A k \in DOMAIN todo : todo[k].do # "move" /\ todo[k].do # "record"
      BY <1>3
    <3> QED BY <3>1, TotalOfOthers, LeftOfOthers
  <2>2. /\ \A i : /\ Total(i, todo', Doing(todo', "move")) = 0
                  /\ Total(i, todo', Doing(todo', "record")) = 0
        /\ Left(todo') = 0
    BY <1>3, NothingToDo
  <2>3. Accounted'
    BY <1>1, <1>2, <1>5, <2>1, <2>2 DEF IInv, Accounted
  <2>4. SavedExplained'
    BY <1>1, <1>5 DEF IInv, SavedExplained
  <2>5. TransfersWhole'
    BY <1>1, <1>2, <1>5, <2>1, <2>2 DEF IInv, TransfersWhole
  <2> QED BY <2>3, <2>4, <2>5
<1> QED BY <1>1, <1>4, <1>5 DEF DoSave

\* An operation that may leave only its save to be done is saved, or lost, whole.
LEMMA MoneyDoExit == IInv /\ DoExit => Accounted' /\ SavedExplained' /\ TransfersWhole'
<1>1. SUFFICES ASSUME IInv, DoExit PROVE Accounted' /\ SavedExplained' /\ TransfersWhole'
  OBVIOUS
<1>2. up /\ todo = <<Save>>
  BY <1>1 DEF DoExit, IInv, CInv, ExitSaves
<1>3. \A k \in DOMAIN todo : todo[k].do = "save"
  BY <1>2, StepTypes
<1>4. up' = FALSE /\ todo' = <<>> /\ ops' = ops
  BY <1>1 DEF DoExit, Ended
<1>5. Accounted'
  BY <1>4 DEF Accounted
<1>6. SavedExplained' /\ TransfersWhole'
  <2>1. CASE saved' = balance /\ ledger' = Fates("pending", "kept")
    BY <1>1, <1>2, <1>3, <1>4, <2>1, MoneyKept
  <2>2. CASE saved' = saved /\ ledger' = Fates("pending", "lost")
    BY <1>1, <1>4, <2>2, MoneyLost
  <2> QED BY <1>1, <2>1, <2>2 DEF DoExit
<1> QED BY <1>5, <1>6

\* A crash leaves what was saved, and what explains it; the steps it cuts off go to the fate of their operation.
LEMMA MoneyCrash == IInv /\ Crash => Accounted' /\ SavedExplained' /\ TransfersWhole'
<1>1. SUFFICES ASSUME IInv, Crash PROVE Accounted' /\ SavedExplained' /\ TransfersWhole'
  OBVIOUS
<1>2. /\ up' = FALSE /\ todo' = <<>> /\ ops' = ops /\ saved' = saved
      /\ ledger' = Fates("pending", "lost")
  BY <1>1 DEF Crash, Ended
<1>3. SavedExplained' /\ TransfersWhole'
  BY <1>1, <1>2, MoneyLost
<1> QED BY <1>2, <1>3 DEF Accounted

\* A start takes up the saved balances, which the log explains.
LEMMA MoneyStart == IInv /\ Start => Accounted' /\ SavedExplained' /\ TransfersWhole'
<1>1. SUFFICES ASSUME IInv, Start PROVE Accounted' /\ SavedExplained' /\ TransfersWhole'
  OBVIOUS
<1>2. /\ balance' = saved /\ UNCHANGED <<saved, ledger, todo, exiting, ops>>
      /\ todo = <<>> /\ Pending = {} /\ saved \in [Ids -> Nat]
  BY <1>1 DEF Start, IInv, CInv, DownIsIdle, TypeOK
<1>3. Fated(ledger, {"kept", "pending"}) = Fated(ledger, {"kept"})
  BY <1>2 DEF Fated, Pending
<1>4. Accounted'
  <2>1. SUFFICES ASSUME NEW i \in Ids
                 PROVE  saved[i] + Total(i, <<>>, Doing(<<>>, "move")) =
                          Total(i, ledger, Fated(ledger, {"kept"}))
                          + Total(i, <<>>, Doing(<<>>, "record"))
    BY <1>2, <1>3 DEF Accounted
  <2>2. saved[i] = Total(i, ledger, Fated(ledger, {"kept"})) /\ saved[i] \in Int
    BY <1>1, <1>2 DEF IInv, SavedExplained
  <2>3. /\ Total(i, <<>>, Doing(<<>>, "move")) = 0
        /\ Total(i, <<>>, Doing(<<>>, "record")) = 0
    BY NothingToDo
  <2> QED BY <2>2, <2>3
<1>5. SavedExplained' /\ TransfersWhole'
  BY <1>1, <1>2 DEF IInv, SavedExplained, TransfersWhole
<1> QED BY <1>4, <1>5

\* Signals that come between operations only find nothing to do, or a save.
LEMMA MoneyNext == SignalMidway = FALSE => (IInv /\ [Next]_vars => IInv')
<1> SUFFICES ASSUME SignalMidway = FALSE, IInv, [Next]_vars PROVE IInv'
  OBVIOUS
<1>1. CInv'
  BY ControlNext DEF IInv
<1>2. Accounted' /\ SavedExplained' /\ TransfersWhole'
  <2>1. CASE Start
    BY <2>1, MoneyStart
  <2>2. ASSUME NEW i \in Ids, NEW x \in Amounts, Deposit(i, x)
        PROVE  Accounted' /\ SavedExplained' /\ TransfersWhole'
    <3>1. x \in Int
      BY AmountsAssumption
    <3>2. Moving(CashSteps(i, x), [a \in Ids |-> IF a = i THEN x ELSE 0])
      BY <3>1, CashMoves
    <3> QED BY <2>2, <3>2, MoneyBegin DEF Deposit
  <2>3. ASSUME NEW i \in Ids, NEW x \in Amounts, Withdraw(i, x)
        PROVE  Accounted' /\ SavedExplained' /\ TransfersWhole'
    <3>1. -x \in Int
      BY AmountsAssumption
    <3>2. Moving(CashSteps(i, -x), [a \in Ids |-> IF a = i THEN -x ELSE 0])
      BY <3>1, CashMoves
    <3> QED BY <2>3, <3>2, MoneyBegin DEF Withdraw
  <2>4. ASSUME NEW i \in Ids, NEW x \in Amounts, NEW j \in Ids \ {i}, Transfer(i, j, x)
        PROVE  Accounted' /\ SavedExplained' /\ TransfersWhole'
    <3>1. x \in Nat
      BY AmountsAssumption
    <3>2. Moving(TransferSteps(i, j, x),
                 [a \in Ids |-> IF a = i THEN -x ELSE IF a = j THEN x ELSE 0])
      BY <3>1, TransferMoves
    <3> QED BY <2>4, <3>2, MoneyBegin DEF Transfer
  <2>5. ASSUME NEW S \in SUBSET {i \in Ids : balance[i] > 0}, ApplyInterestAll(S)
        PROVE  Accounted' /\ SavedExplained' /\ TransfersWhole'
    <3>1. Moving(InterestSteps(SetToSeq(S)), [a \in Ids |-> IF a \in S THEN 1 ELSE 0])
      BY InterestMoves
    <3> QED BY <2>5, <3>1, MoneyBegin DEF ApplyInterestAll
  <2>6. CASE Exit
    BY <2>6, MoneyLastSave DEF Exit, Ready
  <2>7. CASE Signal
    BY <2>7, MoneyLastSave DEF Signal
  <2>8. CASE UNCHANGED vars
    BY <2>8 DEF vars, IInv, Accounted, SavedExplained, TransfersWhole
  <2> QED BY <2>1, <2>2, <2>3, <2>4, <2>5, <2>6, <2>7, <2>8, MoneyMove, MoneyRecord, MoneySave,
             MoneyDoExit, MoneyCrash DEF Next
<1> QED BY <1>1, <1>2 DEF IInv

\* The invariant is true at first.
LEMMA MoneyInit == Init => IInv
<1>1. SUFFICES ASSUME Init PROVE IInv
  OBVIOUS
<1>2. /\ up = FALSE /\ ledger = <<>> /\ ops = 0 /\ saved = [i \in Ids |-> 0]
  BY <1>1 DEF Init
<1>3. Accounted /\ TransfersWhole
  BY <1>2 DEF Accounted, TransfersWhole
<1>4. \A i : {k \in Fated(<<>>, {"kept"}) : <<>>[k].id = i} = {}
  BY DEF Fated
<1>5. SavedExplained
  BY <1>2, <1>4, SummedEmpty DEF SavedExplained, Total
<1> QED BY <1>1, <1>3, <1>5, ControlInit DEF IInv

\* README:313 and main.c:460, for any number of accounts, operations, stops, failed saves
\* and failed appends, as long as signals find the program between two operations: the
\* saved balances, and at a prompt those in memory, are what the ledger file says of what
\* is kept, or not lost, and what its failed appends would have said, to the last rupee.
THEOREM LedgerExplains ==
  ASSUME SignalMidway = FALSE
  PROVE  Spec => []LedgerExplainsBalances
<1>1. ASSUME IInv PROVE LedgerExplainsBalances
  <2> DEFINE Live == DOMAIN ledger \ Lost
  <2>1. /\ Kept = Fated(ledger, {"kept"}) /\ Live = Fated(ledger, {"kept", "pending"})
        /\ Kept \subseteq DOMAIN ledger /\ Live \subseteq DOMAIN ledger
        /\ InFile \ Lost = Live \cap InFile
    <3>1. \A k \in DOMAIN ledger : ledger[k].fate \in {"pending", "kept", "lost"}
      BY <1>1, EntriesBy DEF IInv, CInv, TypeOK, Entry
    <3> QED BY <3>1 DEF Kept, Lost, Fated, InFile
  <2>2. ledger \in Seq(Entry) /\ \A i \in Ids : saved[i] \in Int /\ balance[i] \in Int
    BY <1>1 DEF IInv, CInv, TypeOK
  <2>3. ASSUME Ready, NEW i \in Ids
        PROVE  balance[i] = Total(i, ledger, Live)
    <3>1. balance[i] + Total(i, <<>>, Doing(<<>>, "move")) =
            Total(i, ledger, Fated(ledger, {"kept", "pending"}))
            + Total(i, <<>>, Doing(<<>>, "record"))
      BY <1>1, <2>3 DEF IInv, Accounted, Ready
    <3>2. /\ Total(i, <<>>, Doing(<<>>, "move")) = 0
          /\ Total(i, <<>>, Doing(<<>>, "record")) = 0
      BY NothingToDo
    <3>3. /\ balance[i] \in Int
          /\ Total(i, ledger, Fated(ledger, {"kept", "pending"})) \in Int
      BY <1>1, SumsInt DEF IInv, CInv, TypeOK
    <3>4. balance[i] = Total(i, ledger, Fated(ledger, {"kept", "pending"}))
      BY <3>1, <3>2, <3>3
    <3> QED BY <2>1, <3>4
  <2> HIDE DEF Live
  <2>4. ASSUME NEW i \in Ids
        PROVE  saved[i] - Total(i, ledger, Kept \cap InFile) = Gap(i, Kept)
    <3>1. saved[i] = Total(i, ledger, Kept)
      BY <1>1, <2>1 DEF IInv, SavedExplained
    <3>2. AddsTo(Total(i, ledger, Kept), Total(i, ledger, Kept \cap InFile),
               Total(i, ledger, Kept \ InFile))
      BY <2>1, <2>2, TotalSplit
    <3> QED BY <3>1, <3>2 DEF Gap, AddsTo
  <2>5. ASSUME Ready, NEW i \in Ids
        PROVE  balance[i] - Total(i, ledger, InFile \ Lost) = Gap(i, Live)
    <3>1. AddsTo(Total(i, ledger, Live), Total(i, ledger, Live \cap InFile),
               Total(i, ledger, Live \ InFile))
      BY <2>1, <2>2, TotalSplit
    <3>2. balance[i] = Total(i, ledger, Live)
      BY <2>3, <2>5
    <3>3. Total(i, ledger, InFile \ Lost) = Total(i, ledger, Live \cap InFile)
      BY <2>1
    <3>4. balance[i] - Total(i, ledger, Live \cap InFile) = Total(i, ledger, Live \ InFile)
      BY <3>1, <3>2 DEF AddsTo
    <3> QED BY <3>3, <3>4 DEF Gap
  <2> QED BY <2>4, <2>5 DEF LedgerExplainsBalances, Live
<1>2. IInv /\ [Next]_vars => IInv'
  BY MoneyNext
<1>3. IInv => LedgerExplainsBalances
  BY <1>1
<1> QED BY <1>2, <1>3, MoneyInit, PTL DEF Spec

\* account.c:205-213, likewise: what of a kept transfer is in the ledger file and what of
\* it a failed append left out cancel out, so that one half is without the other only
\* where an append failed.
THEOREM TransfersWholeKept ==
  ASSUME SignalMidway = FALSE
  PROVE  Spec => []TransfersKeptWhole
<1>1. ASSUME IInv PROVE TransfersKeptWhole
  <2>1. /\ Kept = Fated(ledger, {"kept"}) /\ Kept \subseteq DOMAIN ledger
        /\ ledger \in Seq(Entry)
    BY <1>1 DEF Kept, Fated, IInv, CInv, TypeOK
  <2>2. ASSUME NEW o \in 1 .. ops
        PROVE  OfTransfer(o, Kept \cap InFile) = -OfTransfer(o, Kept \ InFile)
    <3>1. LedgerOf(ledger, o, Kept) = 0
      BY <1>1, <2>1 DEF IInv, TransfersWhole
    <3>2. AddsTo(LedgerOf(ledger, o, Kept), LedgerOf(ledger, o, Kept \cap InFile),
               LedgerOf(ledger, o, Kept \ InFile))
      BY <2>1, LedgerOfSplit
    <3>3. \A K : OfTransfer(o, K) = LedgerOf(ledger, o, K)
      BY DEF OfTransfer, LedgerOf
    <3>4. LedgerOf(ledger, o, Kept \cap InFile) = -LedgerOf(ledger, o, Kept \ InFile)
      BY <3>1, <3>2 DEF AddsTo
    <3> QED BY <3>3, <3>4
  <2> QED BY <2>2 DEF TransfersKeptWhole
<1>2. IInv /\ [Next]_vars => IInv'
  BY MoneyNext
<1>3. IInv => TransfersKeptWhole
  BY <1>1
<1> QED BY <1>2, <1>3, MoneyInit, PTL DEF Spec

-----------------------------------------------------------------------------
(* An operation is saved as a whole or not at all *)

\* What the abstract bank holds.
Current == [i \in Ids |-> IF up THEN Settled(i) ELSE saved[i]]

\* Where nothing is left to move, the bank holds what memory holds.
LEMMA SavesMoveNothing ==
  ASSUME NEW s, \A k \in DOMAIN s : s[k].do = "save"
  PROVE  \A i : Total(i, s, Doing(s, "move")) = 0
<1>1. \A k \in DOMAIN s : s[k].do # "move" /\ s[k].do # "record"
  OBVIOUS
<1> QED BY <1>1, TotalOfOthers

\* Once only a save is left to do, the effect of the operation is in the balances.
LEMMA CurrentIsBalance ==
  ASSUME TypeOK, up, \A k \in DOMAIN todo : todo[k].do = "save"
  PROVE  Current = balance
<1>1. balance \in [Ids -> Nat] /\ Moves = Doing(todo, "move")
  BY DEF TypeOK, Moves, Doing
<1>2. \A i : Total(i, todo, Doing(todo, "move")) = 0
  BY SavesMoveNothing
<1>3. \A i \in Ids : Settled(i) = balance[i]
  BY <1>1, <1>2 DEF Settled
<1> QED BY <1>1, <1>3 DEF Current

\* And so it does after a step that leaves nothing to move.
LEMMA CurrentStaysBalance ==
  ASSUME TypeOK', up', \A k \in DOMAIN todo' : todo'[k].do = "save"
  PROVE  Current' = balance'
<1>1. balance' \in [Ids -> Nat] /\ Moves' = Doing(todo', "move")
  BY DEF TypeOK, Moves, Doing
<1>2. \A i : Total(i, todo', Doing(todo', "move")) = 0
  BY SavesMoveNothing
<1>3. \A i \in Ids : Settled(i)' = balance'[i]
  BY <1>1, <1>2 DEF Settled
<1> QED BY <1>1, <1>3 DEF Current

\* While the program does not run, it holds what is saved.
LEMMA CurrentIsSaved ==
  ASSUME saved \in [Ids -> Nat], ~up
  PROVE  Current = saved
BY DEF Current

\* An operation that begins has, for the abstract bank, already moved its money.
LEMMA CurrentBegins ==
  ASSUME TypeOK, Ready, NEW steps, NEW x, Moving(steps, x), Begin(steps)
  PROVE  Current' = [i \in Ids |-> balance[i] + x[i]] /\ ops' = ops + 1 /\ UNCHANGED saved
<1>1. /\ todo' = steps /\ up' /\ UNCHANGED <<balance, saved>> /\ ops' = ops + 1
  BY DEF Begin, Ready
<1>2. Moves' = Doing(steps, "move")
  BY <1>1 DEF Moves, Doing
<1>3. \A i \in Ids : Total(i, steps, Doing(steps, "move")) = x[i]
  BY DEF Moving
<1>4. \A i \in Ids : Settled(i)' = balance[i] + x[i]
  BY <1>1, <1>2, <1>3 DEF Settled
<1> QED BY <1>1, <1>4 DEF Current

\* Carrying out a move, or a record, is not seen.
LEMMA CurrentMoves ==
  ASSUME CInv, DoMove
  PROVE  Current' = Current
<1> DEFINE h == Head(todo)
<1>1. /\ todo # <<>> /\ h.do = "move" /\ todo' = Tail(todo) /\ todo \in Seq(Step)
      /\ balance' = [balance EXCEPT ![h.id] = @ + h.by]
      /\ UNCHANGED <<up, saved>> /\ balance \in [Ids -> Nat]
  BY DEF DoMove, CInv, TypeOK
<1>2. h \in Step /\ h.id \in Ids /\ h.by \in Int /\ todo' \in Seq(Step)
  <2>1. h \in Step /\ todo' \in Seq(Step)
    BY <1>1, StepsLeft
  <2> QED BY <2>1 DEF Step
<1>3. \A i : Total(i, todo, Doing(todo, "move")) =
               (IF h.id = i THEN h.by ELSE 0) + Total(i, todo', Doing(todo', "move"))
  BY <1>1, TotalOfTail
<1>4. \A i \in Ids : balance'[i] = balance[i] + (IF h.id = i THEN h.by ELSE 0)
  BY <1>1, <1>2
<1>5. \A i \in Ids : /\ Total(i, todo', Doing(todo', "move")) \in Int
                     /\ balance[i] \in Int
  <2>1. \A i : Total(i, todo', Doing(todo', "move")) \in Int
    BY <1>2, StepSumsInt
  <2> QED BY <1>1, <2>1
<1> HIDE DEF h
<1>6. \A i \in Ids : Settled(i)' = Settled(i)
  <2>1. TAKE i \in Ids
  <2>2. Moves = Doing(todo, "move") /\ Moves' = Doing(todo', "move")
    BY DEF Moves, Doing
  <2>3. balance'[i] + Total(i, todo', Doing(todo', "move")) =
          balance[i] + Total(i, todo, Doing(todo, "move"))
    BY <1>2, <1>3, <1>4, <1>5
  <2> QED BY <2>2, <2>3 DEF Settled
<1> QED BY <1>1, <1>6 DEF Current

\* An append to the log leaves the balances the operation leads to alone.
LEMMA CurrentRecords ==
  ASSUME CInv, DoRecord
  PROVE  Current' = Current
<1> DEFINE h == Head(todo)
<1>1. /\ todo # <<>> /\ h.do = "record" /\ todo' = Tail(todo) /\ todo \in Seq(Step)
      /\ UNCHANGED <<up, saved, balance>>
  BY DEF DoRecord, CInv, TypeOK
<1>2. \A i : Total(i, todo, Doing(todo, "move")) = 0 + Total(i, todo', Doing(todo', "move"))
  <2>1. h.do # "move"
    BY <1>1
  <2> QED BY <1>1, <2>1, TotalOfTail
<1>3. \A i \in Ids : Total(i, todo', Doing(todo', "move")) \in Int
  <2>1. todo' \in Seq(Step)
    BY <1>1, StepsLeft
  <2> QED BY <2>1, StepSumsInt
<1>4. \A i \in Ids : Settled(i)' = Settled(i)
  <2>1. TAKE i \in Ids
  <2>2. Moves = Doing(todo, "move") /\ Moves' = Doing(todo', "move")
    BY DEF Moves, Doing
  <2>3. Total(i, todo', Doing(todo', "move")) = Total(i, todo, Doing(todo, "move"))
    BY <1>2, <1>3
  <2> QED BY <1>1, <2>2, <2>3 DEF Settled
<1> QED BY <1>1, <1>4 DEF Current

\* Every operation is one of the abstract bank's.
LEMMA AtomicOperations ==
  ASSUME CInv, NEW steps, NEW x, Moving(steps, x), Ready, Begin(steps)
  PROVE  /\ Current = balance /\ balance \in [Ids -> Nat]
         /\ Current' = [i \in Ids |-> balance[i] + x[i]]
         /\ ops' = ops + 1 /\ UNCHANGED saved
<1>1. TypeOK /\ up /\ \A k \in DOMAIN todo : todo[k].do = "save"
  BY DEF CInv, Ready
<1>2. Current = balance
  BY <1>1, CurrentIsBalance
<1> QED BY <1>1, <1>2, CurrentBegins DEF TypeOK

\* A deposit is one operation of the abstract bank.
LEMMA AtomicDeposit ==
  ASSUME CInv, NEW i \in Ids, NEW x \in Amounts, Deposit(i, x)
  PROVE  AllOrNothing!Operation
<1>1. x \in Int
  BY AmountsAssumption
<1>2. Ready /\ Begin(CashSteps(i, x))
  BY DEF Deposit
<1>3. Moving(CashSteps(i, x), [a \in Ids |-> IF a = i THEN x ELSE 0])
  BY <1>1, CashMoves
<1>4. /\ Current = balance /\ balance \in [Ids -> Nat]
      /\ Current' = [a \in Ids |-> balance[a] + [b \in Ids |-> IF b = i THEN x ELSE 0][a]]
      /\ ops' = ops + 1 /\ UNCHANGED saved
  BY <1>2, <1>3, AtomicOperations
<1>5. Current' = [balance EXCEPT ![i] = @ + x]
  <2>1. \A a \in Ids : balance[a] + [b \in Ids |-> IF b = i THEN x ELSE 0][a] =
                         [balance EXCEPT ![i] = @ + x][a]
    BY <1>1, <1>4
  <2> QED BY <1>4, <2>1
<1>6. AllOrNothing!Deposit(i, x)
  BY <1>4, <1>5 DEF AllOrNothing!Deposit, Current
<1> QED BY <1>4, <1>6 DEF AllOrNothing!Operation

\* A withdrawal is one, no larger than the balance.
LEMMA AtomicWithdraw ==
  ASSUME CInv, NEW i \in Ids, NEW x \in Amounts, Withdraw(i, x)
  PROVE  AllOrNothing!Operation
<1>1. x \in Int /\ -x \in Int
  BY AmountsAssumption
<1>2. Ready /\ Begin(CashSteps(i, -x)) /\ x <= balance[i]
  BY DEF Withdraw, Covered
<1>3. Moving(CashSteps(i, -x), [a \in Ids |-> IF a = i THEN -x ELSE 0])
  BY <1>1, CashMoves
<1>4. /\ Current = balance /\ balance \in [Ids -> Nat]
      /\ Current' = [a \in Ids |-> balance[a] + [b \in Ids |-> IF b = i THEN -x ELSE 0][a]]
      /\ ops' = ops + 1 /\ UNCHANGED saved
  BY <1>2, <1>3, AtomicOperations
<1>5. Current' = [balance EXCEPT ![i] = @ - x]
  <2>1. \A a \in Ids : balance[a] + [b \in Ids |-> IF b = i THEN -x ELSE 0][a] =
                         [balance EXCEPT ![i] = @ - x][a]
    BY <1>1, <1>4
  <2> QED BY <1>4, <2>1
<1>6. AllOrNothing!Withdraw(i, x)
  BY <1>2, <1>4, <1>5 DEF AllOrNothing!Withdraw, Current
<1> QED BY <1>4, <1>6 DEF AllOrNothing!Operation

\* A transfer is one: what is taken from one account is put on the other.
LEMMA AtomicTransfer ==
  ASSUME CInv, NEW i \in Ids, NEW x \in Amounts, NEW j \in Ids \ {i}, Transfer(i, j, x)
  PROVE  AllOrNothing!Operation
<1>1. x \in Nat
  BY AmountsAssumption
<1>2. Ready /\ Begin(TransferSteps(i, j, x)) /\ x <= balance[i]
  BY DEF Transfer, Covered
<1>3. Moving(TransferSteps(i, j, x),
             [a \in Ids |-> IF a = i THEN -x ELSE IF a = j THEN x ELSE 0])
  BY <1>1, TransferMoves
<1>4. /\ Current = balance /\ balance \in [Ids -> Nat]
      /\ Current' = [a \in Ids |-> balance[a] +
                      [b \in Ids |-> IF b = i THEN -x ELSE IF b = j THEN x ELSE 0][a]]
      /\ ops' = ops + 1 /\ UNCHANGED saved
  BY <1>2, <1>3, AtomicOperations
<1>5. Current' = [balance EXCEPT ![i] = @ - x, ![j] = @ + x]
  <2>1. \A a \in Ids :
          balance[a] + [b \in Ids |-> IF b = i THEN -x ELSE IF b = j THEN x ELSE 0][a] =
            [balance EXCEPT ![i] = @ - x, ![j] = @ + x][a]
    BY <1>1, <1>4
  <2> QED BY <1>4, <2>1
<1>6. AllOrNothing!Transfer(i, j, x)
  BY <1>2, <1>4, <1>5 DEF AllOrNothing!Transfer, Current
<1> QED BY <1>4, <1>6 DEF AllOrNothing!Operation

\* The interest run is one operation, for all of its accounts.
LEMMA AtomicInterest ==
  ASSUME CInv, NEW S \in SUBSET {i \in Ids : balance[i] > 0}, ApplyInterestAll(S)
  PROVE  AllOrNothing!Operation
<1>1. Ready /\ Begin(InterestSteps(SetToSeq(S))) /\ S \subseteq Ids
  BY DEF ApplyInterestAll
<1>2. Moving(InterestSteps(SetToSeq(S)), [a \in Ids |-> IF a \in S THEN 1 ELSE 0])
  BY <1>1, InterestMoves
<1>3. /\ Current = balance /\ balance \in [Ids -> Nat]
      /\ Current' = [a \in Ids |-> balance[a] + [b \in Ids |-> IF b \in S THEN 1 ELSE 0][a]]
      /\ ops' = ops + 1 /\ UNCHANGED saved
  BY <1>1, <1>2, AtomicOperations
<1>4. /\ S \in SUBSET {i \in Ids : Current[i] > 0}
      /\ Current' = [a \in Ids |-> IF a \in S THEN Current[a] + 1 ELSE Current[a]]
  BY <1>3
<1> QED BY <1>3, <1>4 DEF AllOrNothing!Operation, AllOrNothing!Interest, Current

\* Every save that is made is the abstract bank's, and every other is not seen.
LEMMA AtomicSave ==
  ASSUME CInv, DoSave
  PROVE  AllOrNothing!Save \/ UNCHANGED <<Current, saved, ops>>
<1>1. /\ todo # <<>> /\ Head(todo).do = "save" /\ todo' = Tail(todo)
      /\ UNCHANGED <<up, balance, ops>> /\ up
  BY DEF DoSave, CInv, DownIsIdle
<1>2. /\ \A k \in DOMAIN todo : todo[k].do = "save"
      /\ \A k \in DOMAIN todo' : todo'[k].do = "save"
  BY <1>1, SaveAlone
<1>3. TypeOK /\ TypeOK'
  BY ControlSave DEF CInv
<1>4. Current = balance
  BY <1>1, <1>2, <1>3, CurrentIsBalance
<1>5. Current' = balance
  BY <1>1, <1>2, <1>3, CurrentStaysBalance
<1>6. saved' = balance \/ UNCHANGED saved
  BY DEF DoSave
<1> QED BY <1>1, <1>4, <1>5, <1>6 DEF AllOrNothing!Save, Current

\* The last one too; without it the bank is what was saved before.
LEMMA AtomicExit ==
  ASSUME CInv, DoExit
  PROVE  AllOrNothing!Save \/ AllOrNothing!Stop
<1>1. /\ up /\ todo = <<Save>> /\ ~up' /\ UNCHANGED ops
      /\ saved' = balance \/ UNCHANGED saved
  BY DEF DoExit, Ended, CInv, ExitSaves
<1>2. \A k \in DOMAIN todo : todo[k].do = "save"
  <2>1. Save.do = "save"
    BY StepTypes
  <2> QED BY <1>1, <2>1
<1>3. TypeOK /\ saved' \in [Ids -> Nat]
  BY ControlDoExit DEF CInv, TypeOK
<1>4. Current = balance
  BY <1>1, <1>2, <1>3, CurrentIsBalance
<1>5. Current' = saved'
  BY <1>1, <1>3 DEF Current
<1> QED BY <1>1, <1>4, <1>5 DEF AllOrNothing!Save, AllOrNothing!Stop, Current

\* A killed process leaves what was saved, and a start begins with it.
LEMMA AtomicCrash ==
  ASSUME CInv, Crash
  PROVE  AllOrNothing!Stop
<1>1. ~up' /\ UNCHANGED <<saved, ops>> /\ saved' \in [Ids -> Nat]
  BY DEF Crash, Ended, CInv, TypeOK
<1>2. Current' = saved'
  BY <1>1 DEF Current
<1> QED BY <1>1, <1>2 DEF AllOrNothing!Stop, Current

\* A start is a stutter of the abstract bank.
LEMMA AtomicStart ==
  ASSUME CInv, Start
  PROVE  UNCHANGED <<Current, saved, ops>>
<1>1. /\ ~up /\ up' /\ balance' = saved /\ todo' = todo /\ todo = <<>>
      /\ UNCHANGED <<saved, ops>> /\ saved \in [Ids -> Nat]
  BY DEF Start, CInv, DownIsIdle, TypeOK
<1>2. TypeOK'
  BY ControlStart DEF CInv
<1>3. Current = saved
  BY <1>1, CurrentIsSaved
<1>4. \A k \in DOMAIN todo' : todo'[k].do = "save"
  BY <1>1
<1>5. Current' = saved
  BY <1>1, <1>2, <1>4, CurrentStaysBalance
<1> QED BY <1>1, <1>3, <1>5

\* A last save that replaces nothing but a save is not seen.
LEMMA AtomicLastSave ==
  ASSUME CInv, CInv', up, \A k \in DOMAIN todo : todo[k].do = "save", todo' = <<Save>>,
         UNCHANGED <<up, balance, saved, ops>>
  PROVE  UNCHANGED <<Current, saved, ops>>
<1>1. \A k \in DOMAIN todo' : todo'[k].do = "save"
  <2>1. Save.do = "save"
    BY StepTypes
  <2> QED BY <2>1
<1>2. Current = balance
  BY CurrentIsBalance DEF CInv
<1>3. Current' = balance
  BY <1>1, CurrentStaysBalance DEF CInv
<1> QED BY <1>2, <1>3

\* Every step is one of the abstract bank's, or is not seen.
LEMMA AtomicNext ==
  SignalMidway = FALSE =>
    (CInv /\ CInv' /\ [Next]_vars => [AllOrNothing!Next]_(AllOrNothing!vars))
<1> SUFFICES ASSUME SignalMidway = FALSE, CInv, CInv', [Next]_vars
             PROVE  AllOrNothing!Next \/ UNCHANGED <<Current, saved, ops>>
  BY DEF AllOrNothing!vars, Current
<1> USE DEF AllOrNothing!Next
<1>1. CASE Start
  BY <1>1, AtomicStart
<1>2. ASSUME NEW i \in Ids, NEW x \in Amounts, Deposit(i, x) PROVE AllOrNothing!Next
  BY <1>2, AtomicDeposit
<1>3. ASSUME NEW i \in Ids, NEW x \in Amounts, Withdraw(i, x) PROVE AllOrNothing!Next
  BY <1>3, AtomicWithdraw
<1>4. ASSUME NEW i \in Ids, NEW x \in Amounts, NEW j \in Ids \ {i}, Transfer(i, j, x)
      PROVE  AllOrNothing!Next
  BY <1>4, AtomicTransfer
<1>5. ASSUME NEW S \in SUBSET {i \in Ids : balance[i] > 0}, ApplyInterestAll(S)
      PROVE  AllOrNothing!Next
  BY <1>5, AtomicInterest
<1>6. CASE Exit
  <2>1. /\ up /\ todo' = <<Save>> /\ UNCHANGED <<up, balance, saved, ops>>
        /\ \A k \in DOMAIN todo : todo[k].do = "save"
    BY <1>6 DEF Exit, Ready
  <2> QED BY <2>1, AtomicLastSave
<1>7. CASE Signal
  <2>1. /\ up /\ todo' = <<Save>> /\ UNCHANGED <<up, balance, saved, ops>>
        /\ \A k \in DOMAIN todo : todo[k].do = "save"
    BY <1>7 DEF Signal
  <2> QED BY <2>1, AtomicLastSave
<1>8. CASE DoMove
  BY <1>8, CurrentMoves DEF DoMove
<1>9. CASE DoRecord
  BY <1>9, CurrentRecords DEF DoRecord
<1>10. CASE UNCHANGED vars
  <2>1. Current' = Current
    BY <1>10 DEF vars, Current, Settled, Moves, Total, Summed
  <2> QED BY <1>10, <2>1 DEF vars
<1> QED BY <1>1, <1>2, <1>3, <1>4, <1>5, <1>6, <1>7, <1>8, <1>9, <1>10,
           AtomicSave, AtomicExit, AtomicCrash DEF Next

\* README:99, "in one atomic operation", for any number of accounts and whatever is
\* killed and whichever saves fail: as long as signals find the program between two
\* operations, the bank implements AtomicBank.
THEOREM OperationsAreAtomic ==
  ASSUME SignalMidway = FALSE
  PROVE  Spec => Atomic
<1>1. Init => AllOrNothing!Init
  BY DEF Init, AllOrNothing!Init
<1>2. CInv /\ [Next]_vars => CInv'
  BY ControlNext
<1>3. CInv /\ CInv' /\ [Next]_vars => [AllOrNothing!Next]_(AllOrNothing!vars)
  BY AtomicNext
<1> QED BY <1>1, <1>2, <1>3, ControlInit, PTL DEF Spec, Atomic, AllOrNothing!Spec
=============================================================================
