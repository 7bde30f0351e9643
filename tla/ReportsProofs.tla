--------------------------- MODULE ReportsProofs ---------------------------
(* Proofs about Reports: the sorted listing, the search and the end of the log, for any number of *)
(* accounts, lines and results.                                                                   *)
EXTENDS Reports, FiniteSetTheorems, TLAPS

\* The administrator's account is never deleted, so there is one to list.
AdminInv == \E k \in DOMAIN book : book[k].id = AdminId

\* acct_sort_by_balance: what lies before i is in its place, and max_idx is the richest of what has
\* been looked at behind it.
SortInv ==
  job = "list" =>
    /\ i \in Nat /\ j \in Nat /\ max_idx \in Nat
    /\ i \in 1 .. Len(arr) /\ j \in i + 1 .. Len(arr) + 1 /\ max_idx \in i .. Len(arr)
    /\ Len(arr) = Len(book) /\ ToSet(arr) = ToSet(book)
    /\ \A k, l \in DOMAIN arr : k < i /\ k < l => arr[k].balance >= arr[l].balance
    /\ \A l \in DOMAIN arr : i <= l /\ l < j => arr[max_idx].balance >= arr[l].balance

\* acct_find_by_name: the matches among the accounts gone through are in out.
FindInv ==
  job = "find" =>
    /\ pos \in 0 .. Len(book)
    /\ out \in Seq(Entry) /\ Len(out) = Rank(pos) /\ Len(out) <= MaxResults
    /\ \A k \in Matches(pos) : Rank(k) \in 1 .. Len(out) /\ out[Rank(k)] = book[k]

\* log_print_audit_tail: before head the newest lines, from head on, once the ring is full, the
\* oldest that are kept.
TailInv ==
  job = "tail" =>
    /\ ring \in Seq(Nat) /\ Len(ring) \in Nat \ {0}
    /\ \A k \in DOMAIN ring : ring[k] \in 0 .. lines
    /\ pos \in 0 .. lines
    /\ head \in 1 .. Len(ring)
    /\ count = IF pos < Len(ring) THEN pos ELSE Len(ring)
    /\ pos < Len(ring) => head = pos + 1
    /\ \A k \in 1 .. Len(ring) :
         /\ k < head => ring[k] = pos - head + 1 + k
         /\ k >= head /\ pos >= Len(ring) => ring[k] = pos - Len(ring) - head + 1 + k

Base ==
  /\ book \in Seq(Entry) /\ lines \in Nat
  /\ job \in {"idle", "list", "find", "tail"}
  /\ arr \in Seq(Entry)
  /\ pos \in Nat /\ wanted \subseteq Names

IInv == Base /\ AdminInv /\ SortInv /\ FindInv /\ TailInv

\* The invariant implies the types.
LEMMA InvTypes ==
  ASSUME IInv
  PROVE  TypeOK
<1>1. job = "list" =>
        /\ i \in 1 .. Len(arr) /\ j \in i + 1 .. Len(arr) + 1 /\ max_idx \in i .. Len(arr)
  BY DEF IInv, SortInv
<1>2. job = "tail" =>
        /\ DOMAIN ring # {} /\ \A k \in DOMAIN ring : ring[k] \in 0 .. lines
        /\ head \in DOMAIN ring /\ count \in 0 .. Len(ring)
  BY DEF IInv, TailInv
<1>3. job = "find" => Len(out) <= MaxResults
  BY DEF IInv, FindInv
<1> QED BY <1>1, <1>2, <1>3 DEF TypeOK, IInv, Base

-----------------------------------------------------------------------------
(* Between two reports *)

\* Between two reports nothing but the base invariant is left to show.
LEMMA IdleStep ==
  ASSUME Base', AdminInv', job' = "idle"
  PROVE  IInv'
BY DEF IInv, SortInv, FindInv, TailInv

\* A new account keeps the invariant.
LEMMA OpenStep ==
  ASSUME IInv, NEW a \in Entry, Open(a)
  PROVE  IInv'
<1>1. book \in Seq(Entry) /\ job = "idle"
  BY DEF IInv, Base, Open, Free, Idle
<1>2. /\ book' \in Seq(Entry) /\ DOMAIN book' = 1 .. Len(book) + 1
      /\ \A k \in DOMAIN book : k \in DOMAIN book' /\ book'[k] = book[k]
  BY <1>1 DEF Open
<1>3. AdminInv'
  BY <1>2 DEF IInv, AdminInv
<1>4. Base'
  BY <1>2 DEF IInv, Base, Open, Logged, loops
<1>5. job' = "idle"
  BY <1>1 DEF Open
<1> QED BY <1>3, <1>4, <1>5, IdleStep

\* An account that is taken out of the array.
LEMMA Removed ==
  ASSUME NEW S, NEW s \in Seq(S), NEW k \in DOMAIN s, NEW t, t = RemoveAt(s, k)
  PROVE  /\ t \in Seq(S) /\ Len(t) = Len(s) - 1
         /\ \A l \in 1 .. k - 1 : t[l] = s[l]
         /\ \A l \in k .. Len(s) - 1 : t[l] = s[l + 1]
<1> DEFINE u == SubSeq(s, 1, k - 1)
           v == SubSeq(s, k + 1, Len(s))
<1>1. k \in 1 .. Len(s) /\ Len(s) \in Nat
  OBVIOUS
<1>2. u \in Seq(S) /\ Len(u) = k - 1 /\ \A l \in 1 .. k - 1 : u[l] = s[l]
  BY <1>1
<1>3. v \in Seq(S) /\ Len(v) = Len(s) - k /\ \A l \in 1 .. Len(s) - k : v[l] = s[k + l]
  BY <1>1
<1>4. t = u \o v
  BY DEF RemoveAt
<1> HIDE DEF u, v
<1>5. t \in Seq(S) /\ Len(t) = Len(s) - 1
  BY <1>1, <1>2, <1>3, <1>4
<1>6. \A l \in 1 .. k - 1 : t[l] = s[l]
  BY <1>1, <1>2, <1>3, <1>4
<1>7. \A l \in k .. Len(s) - 1 : t[l] = s[l + 1]
  <2> SUFFICES ASSUME NEW l \in k .. Len(s) - 1 PROVE t[l] = s[l + 1]
    OBVIOUS
  <2>1. t[l] = v[l - (k - 1)]
    BY <1>1, <1>2, <1>3, <1>4
  <2>2. l - (k - 1) \in 1 .. Len(s) - k /\ k + (l - (k - 1)) = l + 1
    BY <1>1
  <2> QED BY <1>3, <2>1, <2>2
<1> QED BY <1>5, <1>6, <1>7

\* A deletion keeps it: the administrator is not deleted.
LEMMA DeleteStep ==
  ASSUME IInv, NEW k \in DOMAIN book, Delete(k)
  PROVE  IInv'
<1>1. book \in Seq(Entry) /\ job = "idle"
  BY DEF IInv, Base, Delete, Free, Idle
<1>2. /\ book' \in Seq(Entry) /\ Len(book') = Len(book) - 1
      /\ \A l \in 1 .. k - 1 : book'[l] = book[l]
      /\ \A l \in k .. Len(book) - 1 : book'[l] = book[l + 1]
  BY <1>1, Removed DEF Delete
<1>3. PICK l \in DOMAIN book : book[l].id = AdminId
  BY DEF IInv, AdminInv
<1>4. l # k
  BY <1>3 DEF Delete
<1>5. AdminInv'
  <2>1. CASE l < k
    <3>1. l \in DOMAIN book' /\ book'[l] = book[l]
      BY <1>1, <1>2, <2>1
    <3> QED BY <1>3, <3>1 DEF AdminInv
  <2>2. CASE l > k
    <3>1. l - 1 \in DOMAIN book' /\ l - 1 \in k .. Len(book) - 1 /\ (l - 1) + 1 = l
      BY <1>1, <1>2, <2>2
    <3>2. book'[l - 1] = book[l]
      BY <1>2, <3>1
    <3> QED BY <1>3, <3>1, <3>2 DEF AdminInv
  <2> QED BY <1>1, <1>4, <2>1, <2>2
<1>6. Base'
  BY <1>2 DEF IInv, Base, Delete, Logged, loops
<1>7. job' = "idle"
  BY <1>1 DEF Delete
<1> QED BY <1>5, <1>6, <1>7, IdleStep

\* A payment keeps it.
LEMMA PayStep ==
  ASSUME IInv, NEW k \in DOMAIN book, NEW b \in Balances, Pay(k, b)
  PROVE  IInv'
<1>1. book \in Seq(Entry) /\ job = "idle"
  BY DEF IInv, Base, Pay, Free, Idle
<1> DEFINE a == [book[k] EXCEPT !.balance = b]
<1>2. book[k] \in Entry
  BY <1>1
<1>3. a \in Entry /\ a.id = book[k].id
  BY <1>2 DEF Entry
<1>4. book' = [book EXCEPT ![k] = a]
  BY DEF Pay
<1> HIDE DEF a
<1>5. /\ book' \in Seq(Entry) /\ DOMAIN book' = DOMAIN book
      /\ \A l \in DOMAIN book : book'[l].id = book[l].id
  BY <1>1, <1>3, <1>4
<1>6. AdminInv'
  BY <1>5 DEF IInv, AdminInv
<1>7. Base'
  BY <1>5 DEF IInv, Base, Pay, Logged, loops
<1>8. job' = "idle"
  BY <1>1 DEF Pay
<1> QED BY <1>6, <1>7, <1>8, IdleStep

\* The end of a report.
LEMMA ResetStep ==
  ASSUME IInv, Reset, Logged, UNCHANGED book
  PROVE  IInv'
<1>1. Base'
  BY DEF IInv, Base, Reset, Logged
<1>2. AdminInv' /\ job' = "idle"
  BY DEF IInv, AdminInv, Reset
<1> QED BY <1>1, <1>2, IdleStep

-----------------------------------------------------------------------------
(* The listing *)

\* The start of a sorted list keeps it: the order is all the accounts, in the order of the book.
LEMMA ListStep ==
  ASSUME IInv, List
  PROVE  IInv'
<1>1. /\ book \in Seq(Entry) /\ book' = book /\ arr' = book /\ job' = "list"
      /\ i' = 1 /\ j' = 2 /\ max_idx' = 1
  BY DEF IInv, Base, List
<1>2. Len(book) \in Nat /\ Len(book) >= 1
  BY <1>1 DEF IInv, AdminInv
<1>3. SortInv'
  <2>1. \A l \in DOMAIN book : 1 <= l /\ l < 2 => l = 1
    BY <1>1
  <2>2. book[1].balance \in Nat
    <3>1. book[1] \in Entry
      BY <1>1, <1>2
    <3> QED BY <3>1, AccountsAssumption DEF Entry
  <2>3. \A l \in DOMAIN book : 1 <= l /\ l < 2 => book[1].balance >= book[l].balance
    BY <2>1, <2>2
  <2>4. \A k, l \in DOMAIN book : k < 1 /\ k < l => book[k].balance >= book[l].balance
    BY <1>1
  <2>5. ToSet(arr') = ToSet(book')
    BY <1>1
  <2> QED BY <1>1, <1>2, <2>3, <2>4, <2>5 DEF SortInv
<1>4. Base' /\ AdminInv' /\ FindInv' /\ TailInv'
  BY <1>1 DEF IInv, Base, AdminInv, FindInv, TailInv, List
<1> QED BY <1>3, <1>4 DEF IInv

\* Balances can be compared.
LEMMA BalancesAreNumbers ==
  ASSUME NEW s \in Seq(Entry)
  PROVE  \A k \in DOMAIN s : s[k].balance \in Nat
<1>1. ASSUME NEW k \in DOMAIN s PROVE s[k].balance \in Nat
  <2>1. s[k] \in Entry
    OBVIOUS
  <2> QED BY <2>1, AccountsAssumption DEF Entry
<1> QED BY <1>1

\* A comparison of two neighbours keeps it.
LEMMA CompareStep ==
  ASSUME IInv, Compare
  PROVE  IInv'
<1>1. /\ arr \in Seq(Entry) /\ job = "list" /\ job' = "list" /\ book' = book /\ arr' = arr /\ i' = i
      /\ j' = j + 1 /\ j <= Len(arr)
      /\ max_idx' = IF arr[j].balance > arr[max_idx].balance THEN j ELSE max_idx
  BY DEF IInv, Base, Compare, Larger
<1>2. /\ i \in Nat /\ j \in Nat /\ max_idx \in Nat
      /\ i \in 1 .. Len(arr) /\ j \in i + 1 .. Len(arr) + 1 /\ max_idx \in i .. Len(arr)
      /\ \A l \in DOMAIN arr : i <= l /\ l < j => arr[max_idx].balance >= arr[l].balance
  BY <1>1 DEF IInv, SortInv
<1>3. /\ j' \in Nat /\ j' \in i + 1 .. Len(arr) + 1
      /\ max_idx' \in Nat /\ max_idx' \in i .. Len(arr)
  BY <1>1, <1>2
<1>4. \A l \in DOMAIN arr : i <= l /\ l < j' => arr[max_idx'].balance >= arr[l].balance
  <2> DEFINE b(k) == arr[k].balance
  <2>1. /\ \A k \in DOMAIN arr : b(k) \in Nat
        /\ \A l \in DOMAIN arr : i <= l /\ l < j => b(max_idx) >= b(l)
        /\ max_idx' = IF b(j) > b(max_idx) THEN j ELSE max_idx
    BY <1>1, <1>2, BalancesAreNumbers
  <2>2. DOMAIN arr = 1 .. Len(arr) /\ Len(arr) \in Nat
    BY <1>1
  <2> HIDE DEF b
  <2>3. \A l \in DOMAIN arr : i <= l /\ l < j + 1 => b(max_idx') >= b(l)
    BY <1>1, <1>2, <2>1, <2>2
  <2> QED BY <1>1, <2>3 DEF b
<1>5. SortInv'
  BY <1>1, <1>2, <1>3, <1>4 DEF IInv, SortInv
<1>6. Base' /\ AdminInv' /\ FindInv' /\ TailInv'
  BY <1>1 DEF IInv, Base, AdminInv, FindInv, TailInv, Compare
<1> QED BY <1>5, <1>6 DEF IInv

\* An exchange moves two accounts and loses none.
LEMMA ExchangeKeeps ==
  ASSUME NEW s \in Seq(Entry), NEW k \in DOMAIN s, NEW l \in DOMAIN s,
         NEW t, t = Exchanged(s, k, l)
  PROVE  /\ t \in Seq(Entry) /\ Len(t) = Len(s) /\ DOMAIN t = DOMAIN s /\ ToSet(t) = ToSet(s)
         /\ t[k] = s[l] /\ t[l] = s[k]
         /\ \A m \in DOMAIN s \ {k, l} : t[m] = s[m]
<1>1. s[k] \in Entry /\ s[l] \in Entry
  OBVIOUS
<1>2. /\ t \in Seq(Entry) /\ Len(t) = Len(s) /\ DOMAIN t = DOMAIN s
      /\ t[k] = s[l] /\ t[l] = s[k]
      /\ \A m \in DOMAIN s \ {k, l} : t[m] = s[m]
  BY <1>1 DEF Exchanged
<1>3. \A m \in DOMAIN s : \E p \in DOMAIN s : t[p] = s[m]
  BY <1>2
<1>4. \A m \in DOMAIN s : \E p \in DOMAIN s : t[m] = s[p]
  BY <1>2
<1>5. ToSet(t) = ToSet(s)
  <2>1. ToSet(t) \subseteq ToSet(s)
    BY <1>2, <1>4 DEF ToSet
  <2>2. ToSet(s) \subseteq ToSet(t)
    BY <1>2, <1>3 DEF ToSet
  <2> QED BY <2>1, <2>2
<1> QED BY <1>2, <1>5

\* The exchange of two neighbours keeps it: the order is still all the accounts.
LEMMA ExchangeStep ==
  ASSUME IInv, Exchange
  PROVE  IInv'
<1>1. /\ arr \in Seq(Entry) /\ job = "list" /\ job' = "list" /\ book' = book
      /\ arr' = Exchanged(arr, i, max_idx) /\ i < Len(arr) /\ j > Len(arr)
      /\ i' = i + 1 /\ j' = i + 2 /\ max_idx' = i + 1
  BY DEF IInv, Base, Exchange
<1>2. /\ i \in Nat /\ j \in Nat /\ max_idx \in Nat
      /\ i \in 1 .. Len(arr) /\ j \in i + 1 .. Len(arr) + 1 /\ max_idx \in i .. Len(arr)
      /\ Len(arr) = Len(book) /\ ToSet(arr) = ToSet(book)
      /\ \A k, l \in DOMAIN arr : k < i /\ k < l => arr[k].balance >= arr[l].balance
      /\ \A l \in DOMAIN arr : i <= l /\ l < j => arr[max_idx].balance >= arr[l].balance
  BY <1>1 DEF IInv, SortInv
<1>3. i \in DOMAIN arr /\ max_idx \in DOMAIN arr
  BY <1>1, <1>2
<1>4. /\ arr' \in Seq(Entry) /\ Len(arr') = Len(arr) /\ DOMAIN arr' = DOMAIN arr
      /\ ToSet(arr') = ToSet(arr)
      /\ arr'[i] = arr[max_idx] /\ arr'[max_idx] = arr[i]
      /\ \A m \in DOMAIN arr \ {i, max_idx} : arr'[m] = arr[m]
  BY <1>1, <1>3, ExchangeKeeps
<1>5. DOMAIN arr = 1 .. Len(arr) /\ Len(arr) \in Nat
  BY <1>1
<1> DEFINE b(k) == arr[k].balance
           c(k) == arr'[k].balance
<1>6. /\ \A k \in DOMAIN arr : b(k) \in Nat /\ c(k) \in Nat
      /\ c(i) = b(max_idx) /\ c(max_idx) = b(i)
      /\ \A m \in DOMAIN arr \ {i, max_idx} : c(m) = b(m)
      /\ \A k, l \in DOMAIN arr : k < i /\ k < l => b(k) >= b(l)
      /\ \A l \in DOMAIN arr : i <= l /\ l < j => b(max_idx) >= b(l)
  BY <1>1, <1>2, <1>4, BalancesAreNumbers
<1> HIDE DEF b, c
<1>7. ASSUME NEW k \in DOMAIN arr, NEW l \in DOMAIN arr, k < i + 1, k < l
      PROVE  c(k) >= c(l)
  <2>1. CASE k = i
    <3>1. c(k) = b(max_idx) /\ l > i
      BY <1>6, <1>7, <2>1
    <3>2. CASE l = max_idx
      <4>1. c(l) = b(i) /\ b(max_idx) >= b(i)
        BY <1>1, <1>2, <1>3, <1>5, <1>6, <3>2
      <4> QED BY <3>1, <4>1
    <3>3. CASE l # max_idx
      <4>1. c(l) = b(l) /\ i <= l /\ l < j
        BY <1>1, <1>2, <1>5, <1>6, <3>1, <3>3
      <4> QED BY <1>6, <3>1, <4>1
    <3> QED BY <3>2, <3>3
  <2>2. CASE k < i
    <3>1. k # max_idx /\ k # i /\ c(k) = b(k)
      BY <1>2, <1>5, <1>6, <2>2
    <3>2. CASE l = i
      <4>1. c(l) = b(max_idx) /\ k < max_idx
        BY <1>2, <1>6, <2>2, <3>2
      <4> QED BY <1>3, <1>6, <2>2, <3>1, <4>1
    <3>3. CASE l = max_idx
      <4>1. c(l) = b(i)
        BY <1>6, <3>3
      <4> QED BY <1>3, <1>6, <2>2, <3>1, <4>1
    <3>4. CASE l # i /\ l # max_idx
      <4>1. c(l) = b(l)
        BY <1>6, <3>4
      <4> QED BY <1>6, <1>7, <2>2, <3>1, <4>1
    <3> QED BY <3>2, <3>3, <3>4
  <2> QED BY <1>2, <1>5, <1>7, <2>1, <2>2
<1>8. /\ i' \in Nat /\ j' \in Nat /\ max_idx' \in Nat
      /\ i' \in 1 .. Len(arr) /\ j' \in i' + 1 .. Len(arr) + 1 /\ max_idx' \in i' .. Len(arr)
      /\ \A l \in DOMAIN arr : i' <= l /\ l < j' => l = max_idx'
  BY <1>1, <1>2, <1>5
<1>9. /\ \A k, l \in DOMAIN arr' : k < i' /\ k < l => arr'[k].balance >= arr'[l].balance
      /\ \A l \in DOMAIN arr' : i' <= l /\ l < j' => arr'[max_idx'].balance >= arr'[l].balance
  <2>1. \A k, l \in DOMAIN arr : k < i' /\ k < l => c(k) >= c(l)
    BY <1>1, <1>7
  <2>2. \A l \in DOMAIN arr : c(l) >= c(l)
    BY <1>6
  <2> QED BY <1>4, <1>8, <2>1, <2>2 DEF c
<1>10. SortInv'
  BY <1>1, <1>2, <1>4, <1>8, <1>9 DEF SortInv
<1>11. Base' /\ AdminInv' /\ FindInv' /\ TailInv'
  BY <1>1, <1>4 DEF IInv, Base, AdminInv, FindInv, TailInv, Exchange
<1> QED BY <1>10, <1>11 DEF IInv

\* What is printed, when i has come to the end.
LEMMA PrintListSorted ==
  ASSUME IInv, PrintList
  PROVE  /\ \A k \in 1 .. Len(out') - 1 : out'[k].balance >= out'[k + 1].balance
         /\ Len(out') = Len(book) /\ ToSet(out') = ToSet(book)
<1>1. out' = arr /\ arr \in Seq(Entry) /\ job = "list" /\ i = Len(arr)
  BY DEF IInv, Base, PrintList, Sorted
<1>2. /\ Len(arr) = Len(book) /\ ToSet(arr) = ToSet(book)
      /\ \A k, l \in DOMAIN arr : k < i /\ k < l => arr[k].balance >= arr[l].balance
  BY <1>1 DEF IInv, SortInv
<1>3. \A k \in 1 .. Len(arr) - 1 : k \in DOMAIN arr /\ k + 1 \in DOMAIN arr /\ k < Len(arr) /\ k < k + 1
  BY <1>1
<1> QED BY <1>1, <1>2, <1>3

-----------------------------------------------------------------------------
(* The search by name *)

\* The accounts that match up to a place are finitely many.
LEMMA MatchesFinite ==
  ASSUME book \in Seq(Entry), NEW m
  PROVE  /\ IsFiniteSet(Matches(m)) /\ Rank(m) \in Nat
         /\ Matches(m) \subseteq 1 .. Len(book)
<1>1. Len(book) \in Int /\ 1 \in Int /\ DOMAIN book = 1 .. Len(book)
  OBVIOUS
<1>2. IsFiniteSet(1 .. Len(book))
  BY <1>1, FS_Interval
<1>3. Matches(m) \in SUBSET (1 .. Len(book))
  BY <1>1 DEF Matches
<1>4. IsFiniteSet(Matches(m))
  BY <1>2, <1>3, FS_Subset
<1> QED BY <1>3, <1>4, FS_CardinalityType DEF Rank

\* One account more: it matches, or it does not.
LEMMA RankStep ==
  ASSUME book \in Seq(Entry), NEW m \in 0 .. Len(book), m < Len(book)
  PROVE  /\ Matches(m + 1) = IF book[m + 1].name \in wanted THEN Matches(m) \cup {m + 1} ELSE Matches(m)
         /\ Rank(m + 1) = IF book[m + 1].name \in wanted THEN Rank(m) + 1 ELSE Rank(m)
         /\ m + 1 \notin Matches(m)
<1>1. /\ DOMAIN book = 1 .. Len(book) /\ Len(book) \in Nat /\ m + 1 \in DOMAIN book
      /\ \A k \in DOMAIN book : k <= m + 1 <=> k <= m \/ k = m + 1
  OBVIOUS
<1>2. Matches(m + 1) = IF book[m + 1].name \in wanted THEN Matches(m) \cup {m + 1} ELSE Matches(m)
  BY <1>1 DEF Matches
<1>3. m + 1 \notin Matches(m)
  BY DEF Matches
<1>4. Cardinality(Matches(m) \cup {m + 1}) = Cardinality(Matches(m)) + 1
  BY <1>3, MatchesFinite, FS_AddElement
<1> QED BY <1>2, <1>3, <1>4 DEF Rank

\* The rank grows along the array, at an account that matches.
LEMMA RankGrows ==
  ASSUME book \in Seq(Entry), NEW m \in Nat, NEW k \in Matches(Len(book)), m < k
  PROVE  Rank(m) < Rank(k)
<1>1. k \in DOMAIN book /\ k \in Nat /\ k \in Matches(k) /\ k \notin Matches(m)
  BY MatchesFinite DEF Matches
<1>2. Matches(m) \in SUBSET Matches(k)
  BY <1>1, MatchesFinite DEF Matches
<1>3. Rank(m) <= Rank(k) /\ Rank(m) # Rank(k)
  BY <1>1, <1>2, MatchesFinite, FS_Subset DEF Rank
<1> QED BY <1>3, MatchesFinite

\* The start of a search keeps it.
LEMMA FindStep ==
  ASSUME IInv, NEW N \in SUBSET Names, Find(N)
  PROVE  IInv'
<1>1. /\ job' = "find" /\ pos' = 0 /\ out' = <<>> /\ book' = book /\ book \in Seq(Entry)
  BY DEF Find, IInv, Base
<1>2. Matches(pos)' = {}
  BY <1>1 DEF Matches
<1>3. Rank(pos)' = 0
  BY <1>2, FS_EmptySet DEF Rank
<1>4. out' \in Seq(Entry) /\ Len(out') = 0 /\ pos' \in 0 .. Len(book') /\ 0 <= MaxResults
  BY <1>1, SizesAssumption
<1>5. FindInv'
  BY <1>2, <1>3, <1>4 DEF FindInv
<1>6. Base' /\ AdminInv' /\ SortInv' /\ TailInv'
  BY <1>1 DEF IInv, Base, AdminInv, SortInv, TailInv, Find
<1> QED BY <1>5, <1>6 DEF IInv

\* The examination of one account keeps it: the rank of a match is one more than that of the match before it.
LEMMA ExamineStep ==
  ASSUME IInv, Examine
  PROVE  IInv'
<1>1. /\ job = "find" /\ job' = "find" /\ book' = book /\ wanted' = wanted /\ pos' = pos + 1
      /\ pos < Len(book) /\ Len(out) < MaxResults /\ book \in Seq(Entry)
      /\ out' = IF book[pos + 1].name \in wanted THEN Append(out, book[pos + 1]) ELSE out
  BY DEF IInv, Base, Examine, HasRoom
<1>2. /\ pos \in 0 .. Len(book) /\ out \in Seq(Entry) /\ Len(out) = Rank(pos)
      /\ \A k \in Matches(pos) : Rank(k) \in 1 .. Len(out) /\ out[Rank(k)] = book[k]
  BY <1>1 DEF IInv, FindInv
<1>3. /\ Matches(pos + 1) = IF book[pos + 1].name \in wanted THEN Matches(pos) \cup {pos + 1} ELSE Matches(pos)
      /\ Rank(pos + 1) = IF book[pos + 1].name \in wanted THEN Rank(pos) + 1 ELSE Rank(pos)
  BY <1>1, <1>2, RankStep
<1> DEFINE e == book[pos + 1]
<1>4. e \in Entry /\ pos + 1 \in 0 .. Len(book)
  BY <1>1, <1>2
<1> HIDE DEF e
<1>5. /\ out' \in Seq(Entry) /\ Len(out') = Rank(pos + 1) /\ Len(out') <= MaxResults
      /\ \A k \in Matches(pos + 1) : Rank(k) \in 1 .. Len(out') /\ out'[Rank(k)] = book[k]
  <2>1. CASE book[pos + 1].name \in wanted
    <3>1. /\ out' = Append(out, e) /\ Matches(pos + 1) = Matches(pos) \cup {pos + 1}
          /\ Rank(pos + 1) = Len(out) + 1
      BY <1>1, <1>2, <1>3, <2>1 DEF e
    <3>2. /\ out' \in Seq(Entry) /\ Len(out') = Len(out) + 1 /\ out'[Len(out) + 1] = e
          /\ \A l \in 1 .. Len(out) : l \in 1 .. Len(out') /\ out'[l] = out[l]
          /\ Len(out) + 1 \in 1 .. Len(out') /\ Len(out) \in Nat
      BY <1>2, <1>4, <3>1
    <3>3. ASSUME NEW k \in Matches(pos + 1)
          PROVE  Rank(k) \in 1 .. Len(out') /\ out'[Rank(k)] = book[k]
      <4>1. CASE k \in Matches(pos)
        BY <1>2, <3>2, <4>1
      <4>2. CASE k = pos + 1
        BY <3>1, <3>2, <4>2 DEF e
      <4> QED BY <3>1, <3>3, <4>1, <4>2
    <3> QED BY <1>1, <1>2, <3>1, <3>2, <3>3, SizesAssumption
  <2>2. CASE book[pos + 1].name \notin wanted
    BY <1>1, <1>2, <1>3, <2>2, SizesAssumption
  <2> QED BY <2>1, <2>2
<1>6. Matches(pos)' = Matches(pos + 1) /\ Rank(pos)' = Rank(pos + 1)
  BY <1>1 DEF Matches, Rank
<1>7. \A k : Rank(k)' = Rank(k)
  BY <1>1 DEF Matches, Rank
<1>8. FindInv'
  BY <1>1, <1>4, <1>5, <1>6, <1>7 DEF FindInv
<1>9. Base' /\ AdminInv' /\ SortInv' /\ TailInv'
  <2>1. pos' \in Nat
    BY <1>1 DEF IInv, Base
  <2> QED BY <1>1, <2>1 DEF IInv, Base, AdminInv, SortInv, TailInv, Examine
<1> QED BY <1>8, <1>9 DEF IInv

\* What a search prints: the first matches, as many as there is room for.
LEMMA PrintFoundExact ==
  ASSUME IInv, PrintFound
  PROVE  /\ Len(out') = IF Rank(Len(book)) < MaxResults THEN Rank(Len(book)) ELSE MaxResults
         /\ \A k \in Matches(Len(book)) : Rank(k) <= MaxResults => out'[Rank(k)] = book[k]
<1>1. /\ job = "find" /\ out' = out /\ book \in Seq(Entry)
      /\ pos = Len(book) \/ ~(Len(out) < MaxResults)
  BY DEF IInv, Base, PrintFound, HasRoom
<1>2. /\ pos \in 0 .. Len(book) /\ out \in Seq(Entry) /\ Len(out) = Rank(pos) /\ Len(out) <= MaxResults
      /\ \A k \in Matches(pos) : Rank(k) \in 1 .. Len(out) /\ out[Rank(k)] = book[k]
  BY <1>1 DEF IInv, FindInv
<1>3. CASE pos = Len(book)
  <2>1. Len(out) \in Nat
    BY <1>2
  <2> QED BY <1>1, <1>2, <1>3, <2>1, SizesAssumption
<1>4. CASE ~(Len(out) < MaxResults)
  <2>1. Len(out) = MaxResults /\ Rank(pos) = MaxResults
    BY <1>2, <1>4, SizesAssumption
  <2>2. Matches(pos) \in SUBSET Matches(Len(book))
    BY <1>1, <1>2, MatchesFinite DEF Matches
  <2>3. Rank(pos) <= Rank(Len(book))
    BY <1>1, <2>2, MatchesFinite, FS_Subset DEF Rank
  <2>4. ASSUME NEW k \in Matches(Len(book)), Rank(k) <= MaxResults
        PROVE  out[Rank(k)] = book[k]
    <3>1. CASE k <= pos
      <4>1. k \in Matches(pos)
        BY <2>4, <3>1 DEF Matches
      <4> QED BY <1>2, <4>1
    <3>2. CASE ~(k <= pos)
      <4>1. pos \in Nat /\ pos < k
        BY <1>1, <1>2, <3>2, MatchesFinite
      <4>2. Rank(pos) < Rank(k) /\ Rank(k) \in Nat
        BY <1>1, <4>1, RankGrows, MatchesFinite
      <4> QED BY <2>1, <2>4, <4>2, SizesAssumption
    <3> QED BY <3>1, <3>2
  <2>5. Rank(Len(book)) \in Nat
    BY <1>1, MatchesFinite
  <2> QED BY <1>1, <2>1, <2>3, <2>4, <2>5, SizesAssumption
<1> QED BY <1>1, <1>3, <1>4

-----------------------------------------------------------------------------
(* The end of the audit log *)

\* The remainder of a number below twice the divisor.
LEMMA Remainder ==
  ASSUME NEW m \in Nat \ {0}, NEW x \in 0 .. 2 * m - 1
  PROVE  x % m = IF x < m THEN x ELSE x - m
OBVIOUS

\* The start of the end of the log keeps it.
LEMMA ViewTailStep ==
  ASSUME IInv, NEW x \in 0 .. High + 1, ViewTail(x)
  PROVE  IInv'
<1>1. /\ job' = "tail" /\ ring' = [k \in 1 .. LinesFor(x) |-> 0] /\ head' = 1 /\ count' = 0
      /\ pos' = 0 /\ lines' = lines /\ lines \in Nat
  BY DEF ViewTail, IInv, Base
<1>2. LinesFor(x) \in Nat \ {0}
  BY SizesAssumption DEF LinesFor, ReadInt
<1> DEFINE L == LinesFor(x)
<1> HIDE DEF L
<1>3. ring' = [k \in 1 .. L |-> 0] /\ L \in Nat \ {0}
  BY <1>1, <1>2 DEF L
<1>4. ring' \in Seq(Nat) /\ Len(ring') = L /\ DOMAIN ring' = 1 .. L /\ \A k \in 1 .. L : ring'[k] = 0
  BY <1>3
<1>5. TailInv'
  <2>0. head' = 1 /\ pos' = 0 /\ count' = 0 /\ lines' \in Nat /\ L \in Nat /\ L > 0
    BY <1>1, <1>3
  <2>1. \A k \in DOMAIN ring' : ring'[k] \in 0 .. lines'
    BY <1>1, <1>4
  <2>2. pos' \in 0 .. lines' /\ head' \in 1 .. Len(ring') /\ pos' < Len(ring') /\ head' = pos' + 1
    BY <1>4, <2>0
  <2>3. \A k \in 1 .. Len(ring') : ~(k < head') /\ ~(pos' >= Len(ring'))
    BY <1>4, <2>0
  <2>4. ring' \in Seq(Nat) /\ Len(ring') \in Nat \ {0} /\ count' = pos'
    BY <1>1, <1>3, <1>4
  <2> QED BY <2>1, <2>2, <2>3, <2>4 DEF TailInv
<1>6. Base' /\ AdminInv' /\ SortInv' /\ FindInv'
  BY <1>1 DEF IInv, Base, AdminInv, SortInv, FindInv, ViewTail
<1> QED BY <1>5, <1>6 DEF IInv

\* The reading of a line keeps it: the ring holds the last lines read.
LEMMA ReadLineStep ==
  ASSUME IInv, ReadLine
  PROVE  IInv'
<1>1. /\ job = "tail" /\ job' = "tail" /\ lines' = lines /\ pos < lines /\ pos' = pos + 1
      /\ ring' = [ring EXCEPT ![head] = pos + 1]
      /\ head' = (head % Len(ring)) + 1
      /\ count' = IF count < Len(ring) THEN count + 1 ELSE count
  BY DEF ReadLine
<1>2. /\ ring \in Seq(Nat) /\ Len(ring) \in Nat \ {0}
      /\ \A k \in DOMAIN ring : ring[k] \in 0 .. lines
      /\ pos \in 0 .. lines /\ lines \in Nat
      /\ head \in 1 .. Len(ring)
      /\ count = IF pos < Len(ring) THEN pos ELSE Len(ring)
      /\ pos < Len(ring) => head = pos + 1
      /\ \A k \in 1 .. Len(ring) :
           /\ k < head => ring[k] = pos - head + 1 + k
           /\ k >= head /\ pos >= Len(ring) => ring[k] = pos - Len(ring) - head + 1 + k
  BY <1>1 DEF IInv, Base, TailInv
<1> DEFINE L == Len(ring)
<1>3. /\ ring' \in Seq(Nat) /\ Len(ring') = L /\ DOMAIN ring' = 1 .. L /\ DOMAIN ring = 1 .. L
      /\ ring'[head] = pos + 1 /\ \A k \in 1 .. L \ {head} : ring'[k] = ring[k]
  BY <1>1, <1>2
<1>4. head' = IF head < L THEN head + 1 ELSE 1
  <2>1. head \in 0 .. 2 * L - 1 /\ L \in Nat \ {0} /\ head \in 1 .. L /\ head' = (head % L) + 1
    BY <1>1, <1>2
  <2> HIDE DEF L
  <2>2. head % L = IF head < L THEN head ELSE head - L
    BY <2>1, Remainder
  <2> QED BY <2>1, <2>2
<1> HIDE DEF L
<1>5. \A k \in DOMAIN ring' : ring'[k] \in 0 .. lines
  <2> SUFFICES ASSUME NEW k \in DOMAIN ring' PROVE ring'[k] \in 0 .. lines
    OBVIOUS
  <2>1. CASE k = head
    BY <1>1, <1>2, <1>3, <2>1
  <2>2. CASE k # head
    BY <1>2, <1>3, <2>2
  <2> QED BY <2>1, <2>2
<1>6. /\ L \in Nat \ {0} /\ head \in 1 .. L /\ pos \in Nat
      /\ pos < L => head = pos + 1
      /\ count = IF pos < L THEN pos ELSE L
      /\ \A k \in 1 .. L :
           /\ k < head => ring[k] = pos - head + 1 + k
           /\ k >= head /\ pos >= L => ring[k] = pos - L - head + 1 + k
  BY <1>2 DEF L
<1>7. /\ head' \in 1 .. L
      /\ pos + 1 < L => head' = pos + 2
      /\ count' = IF pos + 1 < L THEN pos + 1 ELSE L
  BY <1>1, <1>4, <1>6 DEF L
<1>8. \A k \in 1 .. L :
        /\ k < head' => ring'[k] = pos + 1 - head' + 1 + k
        /\ k >= head' /\ pos + 1 >= L => ring'[k] = pos + 1 - L - head' + 1 + k
  <2> SUFFICES ASSUME NEW k \in 1 .. L
               PROVE  /\ k < head' => ring'[k] = pos + 1 - head' + 1 + k
                      /\ k >= head' /\ pos + 1 >= L => ring'[k] = pos + 1 - L - head' + 1 + k
    OBVIOUS
  <2>1. CASE head < L
    BY <1>3, <1>4, <1>6, <2>1
  <2>2. CASE head = L
    BY <1>3, <1>4, <1>6, <2>2
  <2> QED BY <1>6, <2>1, <2>2
<1>9. TailInv'
  <2>1. /\ pos' \in 0 .. lines' /\ \A k \in DOMAIN ring' : ring'[k] \in 0 .. lines'
        /\ ring' \in Seq(Nat) /\ Len(ring') \in Nat \ {0} /\ head' \in 1 .. Len(ring')
    BY <1>1, <1>2, <1>3, <1>5, <1>6, <1>7
  <2>2. /\ pos' < Len(ring') => head' = pos' + 1
        /\ count' = IF pos' < Len(ring') THEN pos' ELSE Len(ring')
    BY <1>1, <1>2, <1>3, <1>7
  <2>3. \A k \in 1 .. Len(ring') :
          /\ k < head' => ring'[k] = pos' - head' + 1 + k
          /\ k >= head' /\ pos' >= Len(ring') => ring'[k] = pos' - Len(ring') - head' + 1 + k
    <3> DEFINE p == pos'
               M == Len(ring')
    <3>1. M = L /\ p = pos + 1 /\ pos \in Nat /\ L \in Nat /\ head' \in 1 .. L
      BY <1>1, <1>3, <1>6, <1>7
    <3> HIDE DEF p, M
    <3>2. \A k \in 1 .. M :
            /\ k < head' => ring'[k] = p - head' + 1 + k
            /\ k >= head' /\ p >= M => ring'[k] = p - M - head' + 1 + k
      BY <1>8, <3>1
    <3> QED BY <3>2 DEF p, M
  <2> QED BY <2>1, <2>2, <2>3 DEF TailInv
<1>10. Base' /\ AdminInv' /\ SortInv' /\ FindInv'
  <2>1. pos' \in Nat
    BY <1>1, <1>2
  <2> QED BY <1>1, <2>1 DEF IInv, Base, AdminInv, SortInv, FindInv, ReadLine
<1> QED BY <1>9, <1>10 DEF IInv

\* What the end of the log prints: its newest lines, in order.
LEMMA PrintTailExact ==
  ASSUME IInv, PrintTail
  PROVE  LET n == IF lines < Len(ring) THEN lines ELSE Len(ring)
         IN  out' = [k \in 1 .. n |-> lines - n + k]
<1> DEFINE L == Len(ring)
           n == IF lines < L THEN lines ELSE L
<1>1. /\ job = "tail" /\ pos = lines
      /\ out' = [k \in 1 .. count |-> ring[((First + k - 2) % L) + 1]]
      /\ First = IF count < L THEN 1 ELSE head
  BY DEF PrintTail, First
<1>2. /\ L \in Nat \ {0} /\ pos \in Nat /\ head \in 1 .. L
      /\ count = IF pos < L THEN pos ELSE L
      /\ pos < L => head = pos + 1
      /\ \A k \in 1 .. L :
           /\ k < head => ring[k] = pos - head + 1 + k
           /\ k >= head /\ pos >= L => ring[k] = pos - L - head + 1 + k
  BY <1>1 DEF IInv, Base, TailInv
<1> HIDE DEF L
<1>3. count = n
  BY <1>1, <1>2
<1>4. ASSUME NEW k \in 1 .. n
      PROVE  ring[((First + k - 2) % L) + 1] = lines - n + k
  <2>1. First + k - 2 \in 0 .. 2 * L - 1
    BY <1>1, <1>2, <1>3, <1>4
  <2> DEFINE y == First + k - 2
  <2> HIDE DEF y
  <2>2. y % L = IF y < L THEN y ELSE y - L
    BY <1>2, <2>1, Remainder DEF y
  <2>0. First \in Nat /\ y = First + k - 2 /\ y \in Int
    BY <1>1, <1>2, <2>1 DEF y
  <2>3. CASE lines < L
    <3>1. n = lines /\ First = 1 /\ head = lines + 1 /\ k \in 1 .. L /\ k < head
      BY <1>1, <1>2, <1>3, <1>4, <2>3
    <3>2. (y % L) + 1 = k
      BY <1>2, <2>0, <2>2, <3>1
    <3>3. ring[k] = pos - head + 1 + k
      BY <1>2, <3>1
    <3> QED BY <1>1, <1>2, <3>1, <3>2, <3>3 DEF y
  <2>4. CASE lines >= L
    <3>1. n = L /\ First = head
      BY <1>1, <1>2, <1>3, <2>4
    <3>2. CASE head + k - 2 < L
      <4>1. (y % L) + 1 = head + k - 1
        BY <1>2, <1>4, <2>0, <2>2, <3>1, <3>2
      <4>2. head + k - 1 \in 1 .. L /\ head + k - 1 >= head
        BY <1>2, <1>4, <3>1, <3>2
      <4>3. ring[head + k - 1] = pos - L - head + 1 + (head + k - 1)
        BY <1>1, <1>2, <2>4, <4>2
      <4>4. pos - L - head + 1 + (head + k - 1) = lines - n + k
          BY <1>1, <1>2, <1>4, <3>1
        <4> QED BY <4>1, <4>3, <4>4 DEF y
    <3>3. CASE ~(head + k - 2 < L)
      <4>1. (y % L) + 1 = head + k - 1 - L
        BY <1>2, <1>4, <2>0, <2>2, <3>1, <3>3
      <4>2. head + k - 1 - L \in 1 .. L /\ head + k - 1 - L < head
        BY <1>2, <1>4, <3>1, <3>3
      <4>3. ring[head + k - 1 - L] = pos - head + 1 + (head + k - 1 - L)
        BY <1>2, <4>2
      <4>4. pos - head + 1 + (head + k - 1 - L) = lines - n + k
          BY <1>1, <1>2, <1>4, <3>1
        <4> QED BY <4>1, <4>3, <4>4 DEF y
    <3> QED BY <3>2, <3>3
  <2> QED BY <1>1, <1>2, <2>3, <2>4
<1>5. out' = [k \in 1 .. n |-> lines - n + k]
  BY <1>1, <1>3, <1>4
<1> QED BY <1>5 DEF L

-----------------------------------------------------------------------------
\* Every step keeps it.
LEMMA StepKeeps ==
  ASSUME IInv, [Next]_vars
  PROVE  IInv'
<1>1. CASE UNCHANGED vars
  BY <1>1 DEF vars, loops, IInv, Base, AdminInv, SortInv, FindInv, TailInv, Matches, Rank
<1>2. CASE PrintList \/ PrintFound \/ PrintTail
  BY <1>2, ResetStep DEF PrintList, PrintFound, PrintTail
<1> QED BY <1>1, <1>2, OpenStep, DeleteStep, PayStep, ListStep, CompareStep, ExchangeStep,
       FindStep, ExamineStep, ViewTailStep, ReadLineStep DEF Next, Step

\* It is true at first.
LEMMA InitKeeps ==
  ASSUME Init
  PROVE  IInv
<1>1. PICK n \in Names : book = <<[id |-> AdminId, balance |-> 0, name |-> n]>>
  BY DEF Init
<1> DEFINE e == [id |-> AdminId, balance |-> 0, name |-> n]
<1>2. e \in Entry
  BY AccountsAssumption DEF Entry
<1>3. e.id = AdminId
  OBVIOUS
<1> HIDE DEF e
<1>4. book = <<e>>
  BY <1>1 DEF e
<1>5. AdminInv /\ book \in Seq(Entry)
  BY <1>2, <1>3, <1>4 DEF AdminInv
<1>6. job = "idle" /\ Base
  BY <1>5 DEF Init, Base
<1> QED BY <1>5, <1>6 DEF IInv, SortInv, FindInv, TailInv

\* Only a report's last step prints.
LEMMA WhoPrints ==
  ASSUME IInv, [Next]_vars, job' = "idle", job # "idle"
  PROVE  /\ job = "list" => PrintList
         /\ job = "find" => PrintFound
         /\ job = "tail" => PrintTail
BY DEF Next, Step, vars, Open, Delete, Pay, List, Find, ViewTail, Compare, Exchange, Examine,
   ReadLine, PrintList, PrintFound, PrintTail, Free, Idle

\* No index of a report leaves its array, for any number of accounts, lines and results.
THEOREM IndexesInside == Spec => []TypeOK
<1>1. Init => IInv
  BY InitKeeps
<1>2. IInv /\ [Next]_vars => IInv'
  BY StepKeeps
<1>3. IInv => TypeOK
  BY InvTypes
<1> QED BY <1>1, <1>2, <1>3, PTL DEF Spec

\* The listing shows every account once, the richest first.
THEOREM ListIsSorted == Spec => ListingIsSorted
<1>1. Init => IInv
  BY InitKeeps
<1>2. IInv /\ [Next]_vars => IInv'
  BY StepKeeps
<1>3. IInv /\ [Next]_vars =>
        [Prints("list") =>
           /\ \A k \in 1 .. Len(out') - 1 : out'[k].balance >= out'[k + 1].balance
           /\ Len(out') = Len(book) /\ ToSet(out') = ToSet(book)]_vars
  <2> SUFFICES ASSUME IInv, [Next]_vars, Prints("list")
               PROVE  /\ \A k \in 1 .. Len(out') - 1 : out'[k].balance >= out'[k + 1].balance
                      /\ Len(out') = Len(book) /\ ToSet(out') = ToSet(book)
    OBVIOUS
  <2>1. PrintList
    BY WhoPrints DEF Prints
  <2> QED BY <2>1, PrintListSorted
<1> QED BY <1>1, <1>2, <1>3, PTL DEF Spec, ListingIsSorted

\* The search prints the first matches there is room for, and the end of the audit log its newest
\* lines in order, wherever the ring's head has come to.
THEOREM PrintsAreExact == Spec => PrintedIsExact
<1> DEFINE Found ==
             Prints("find") =>
               /\ Len(out') = IF Rank(Len(book)) < MaxResults THEN Rank(Len(book)) ELSE MaxResults
               /\ \A k \in Matches(Len(book)) : Rank(k) <= MaxResults => out'[Rank(k)] = book[k]
           Tailed ==
             Prints("tail") =>
               LET n == IF lines < Len(ring) THEN lines ELSE Len(ring)
               IN  out' = [k \in 1 .. n |-> lines - n + k]
<1>1. Init => IInv
  BY InitKeeps
<1>2. IInv /\ [Next]_vars => IInv'
  BY StepKeeps
<1>3. IInv /\ [Next]_vars => [Found /\ Tailed]_vars
  <2>1. ASSUME IInv, [Next]_vars PROVE Found
    <3> SUFFICES ASSUME Prints("find")
                 PROVE  /\ Len(out') = IF Rank(Len(book)) < MaxResults THEN Rank(Len(book)) ELSE MaxResults
                        /\ \A k \in Matches(Len(book)) : Rank(k) <= MaxResults => out'[Rank(k)] = book[k]
      OBVIOUS
    <3>1. PrintFound
      BY <2>1, WhoPrints DEF Prints
    <3> QED BY <2>1, <3>1, PrintFoundExact
  <2>2. ASSUME IInv, [Next]_vars PROVE Tailed
    <3> SUFFICES ASSUME Prints("tail")
                 PROVE  LET n == IF lines < Len(ring) THEN lines ELSE Len(ring)
                        IN  out' = [k \in 1 .. n |-> lines - n + k]
      OBVIOUS
    <3>1. PrintTail
      BY <2>2, WhoPrints DEF Prints
    <3> QED BY <2>2, <3>1, PrintTailExact
  <2> QED BY <2>1, <2>2
<1> QED BY <1>1, <1>2, <1>3, PTL DEF Spec, PrintedIsExact

=============================================================================
