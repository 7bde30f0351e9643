------------------------------- MODULE Reports -------------------------------
(***************************************************************************)
(* The administrator's reports, loop by loop: the listing sorted by balance  *)
(* (account.c), the search by name (account.c) and the end of the audit log  *)
(* (logger.c).  Between two reports the accounts change as other requests    *)
(* and the array operations of account.c leave them, and every request adds  *)
(* a line to the audit log.                                                  *)
(*                                                                          *)
(*   book      g_accounts: the accounts, in the order of the array          *)
(*   lines     the number of lines of data/audit.log                        *)
(*   job       the report under way                                         *)
(*   arr       the copy being sorted, and i, j, max_idx of its two loops    *)
(*   ring      the lines kept of the log, with its head and count           *)
(*   pos       the accounts, or lines, gone through                         *)
(*   wanted    the names that match the search                              *)
(*   out       what the last report printed, or prints                      *)
(*                                                                          *)
(* A line of the log is its number; array indexes are 1-based.               *)
(***************************************************************************)
EXTENDS Naturals, Sequences, FiniteSets, SequencesExt

CONSTANTS Ids, AdminId, Balances, Names,
          Low, High, Default,      \* 10, 200 and 50: the lines one may ask for
          MaxResults,              \* 20: the room for accounts found by name
          MaxAccounts, MaxLines    \* bounds

ASSUME SizesAssumption ==
  Low \in Nat \ {0} /\ High \in Nat /\ Low <= High /\ Default \in Nat \ {0} /\ MaxResults \in Nat
ASSUME AccountsAssumption == AdminId \in Ids /\ 0 \in Balances /\ Balances \subseteq Nat

VARIABLES book, lines, job, arr, i, j, max_idx, ring, head, count, pos, wanted, out
loops == <<arr, i, j, max_idx, ring, head, count, pos, wanted>>
vars  == <<book, lines, job, loops, out>>

Entry == [id : Ids, balance : Balances, name : Names]

TypeOK ==
  /\ book \in Seq(Entry) /\ lines \in Nat
  /\ job \in {"idle", "list", "find", "tail"}
  /\ arr \in Seq(Entry)
  /\ job = "list" =>
       /\ i \in 1 .. Len(arr) /\ j \in i + 1 .. Len(arr) + 1 /\ max_idx \in i .. Len(arr)
  /\ job = "tail" =>
       /\ DOMAIN ring # {} /\ \A k \in DOMAIN ring : ring[k] \in 0 .. lines
       /\ head \in DOMAIN ring /\ count \in 0 .. Len(ring)
  /\ pos \in Nat /\ wanted \subseteq Names
  /\ job = "find" => Len(out) <= MaxResults

Idle == job = "idle"

Reset ==
  /\ job' = "idle"
  /\ arr' = <<>> /\ i' = 0 /\ j' = 0 /\ max_idx' = 0
  /\ ring' = <<>> /\ head' = 0 /\ count' = 0
  /\ pos' = 0 /\ wanted' = {}

Init ==
  /\ \E n \in Names : book = <<[id |-> AdminId, balance |-> 0, name |-> n]>>
  /\ lines = 1    \* the administrator has logged in
  /\ job = "idle"
  /\ arr = <<>> /\ i = 0 /\ j = 0 /\ max_idx = 0
  /\ ring = <<>> /\ head = 0 /\ count = 0
  /\ pos = 0 /\ wanted = {}
  /\ out = <<>>

-----------------------------------------------------------------------------
(* Other requests; each is logged. *)

Logged == lines' = lines + 1

Free == Idle /\ lines < MaxLines

\* acct_create.
Open(a) ==
  /\ Free /\ Logged
  /\ Len(book) < MaxAccounts
  /\ \A k \in DOMAIN book : book[k].id # a.id
  /\ book' = Append(book, a)
  /\ UNCHANGED <<job, loops, out>>

\* acct_delete: those behind move up.  The administrator stays.
Delete(k) ==
  /\ Free /\ Logged
  /\ book[k].id # AdminId
  /\ book' = RemoveAt(book, k)
  /\ UNCHANGED <<job, loops, out>>

\* A balance changes.
Pay(k, b) ==
  /\ Free /\ Logged
  /\ b # book[k].balance
  /\ book' = [book EXCEPT ![k].balance = b]
  /\ UNCHANGED <<job, loops, out>>

-----------------------------------------------------------------------------
(* admin_list_all_accounts and acct_sort_by_balance. *)

List ==
  /\ Free
  /\ job' = "list"
  /\ arr' = book
  /\ i' = 1 /\ j' = 2 /\ max_idx' = 1
  /\ out' = <<>>
  /\ UNCHANGED <<book, lines, ring, head, count, pos, wanted>>

Larger(k) == arr[k].balance > arr[max_idx].balance

Compare ==
  /\ job = "list"
  /\ i < Len(arr) /\ j <= Len(arr)
  /\ max_idx' = IF Larger(j) THEN j ELSE max_idx
  /\ j' = j + 1
  /\ UNCHANGED <<book, lines, job, arr, i, ring, head, count, pos, wanted, out>>

\* Mutant: one of the two accounts is overwritten.
Exchanged_Loses(s, k, l) == [s EXCEPT ![k] = s[l]]

Exchanged(s, k, l) == [s EXCEPT ![k] = s[l], ![l] = s[k]]

Exchange ==
  /\ job = "list"
  /\ i < Len(arr) /\ j > Len(arr)
  /\ arr' = Exchanged(arr, i, max_idx)
  /\ i' = i + 1 /\ j' = i + 2 /\ max_idx' = i + 1
  /\ UNCHANGED <<book, lines, job, ring, head, count, pos, wanted, out>>

Sorted(k) == k = Len(arr)

PrintList ==
  /\ job = "list"
  /\ Sorted(i)
  /\ out' = arr
  /\ Logged
  /\ Reset
  /\ UNCHANGED book

-----------------------------------------------------------------------------
(* acct_find_by_name, for a search that N's names contain. *)

Find(N) ==
  /\ Free
  /\ job' = "find"
  /\ wanted' = N
  /\ pos' = 0
  /\ out' = <<>>
  /\ UNCHANGED <<book, lines, arr, i, j, max_idx, ring, head, count>>

\* Mutant: the results may be one more than fit.
HasRoom_OneMore(s) == Len(s) <= MaxResults

HasRoom(s) == Len(s) < MaxResults

Examine ==
  /\ job = "find"
  /\ pos < Len(book) /\ HasRoom(out)
  /\ pos' = pos + 1
  /\ out' = IF book[pos + 1].name \in wanted THEN Append(out, book[pos + 1]) ELSE out
  /\ UNCHANGED <<book, lines, job, arr, i, j, max_idx, ring, head, count, wanted>>

PrintFound ==
  /\ job = "find"
  /\ pos = Len(book) \/ ~HasRoom(out)
  /\ Logged
  /\ Reset
  /\ UNCHANGED <<book, out>>

-----------------------------------------------------------------------------
(* admin_view_audit_log and log_print_audit_tail. *)

\* read_int yields Low - 1 for any other answer; only what is not positive becomes
\* the default.
ReadInt(x) == IF x \in Low .. High THEN x ELSE Low - 1

LinesFor(x) == IF ReadInt(x) > 0 THEN ReadInt(x) ELSE Default

ViewTail(x) ==
  /\ Free
  /\ job' = "tail"
  /\ ring' = [k \in 1 .. LinesFor(x) |-> 0]
  /\ head' = 1 /\ count' = 0 /\ pos' = 0
  /\ out' = <<>>
  /\ UNCHANGED <<book, lines, arr, i, j, max_idx, wanted>>

ReadLine ==
  /\ job = "tail"
  /\ pos < lines
  /\ ring' = [ring EXCEPT ![head] = pos + 1]
  /\ head' = (head % Len(ring)) + 1
  /\ count' = IF count < Len(ring) THEN count + 1 ELSE count
  /\ pos' = pos + 1
  /\ UNCHANGED <<book, lines, job, arr, i, j, max_idx, wanted, out>>

\* Mutant: always from the first.
First_One == 1

First == IF count < Len(ring) THEN 1 ELSE head

PrintTail ==
  /\ job = "tail"
  /\ pos = lines
  /\ out' = [k \in 1 .. count |-> ring[((First + k - 2) % Len(ring)) + 1]]
  /\ Logged
  /\ Reset
  /\ UNCHANGED book

-----------------------------------------------------------------------------
Step == Compare \/ Exchange \/ PrintList \/ Examine \/ PrintFound \/ ReadLine \/ PrintTail

Next ==
  \/ \E a \in Entry : Open(a)
  \/ \E k \in DOMAIN book : Delete(k)
  \/ \E k \in DOMAIN book, b \in Balances : Pay(k, b)
  \/ List
  \/ \E N \in SUBSET Names : Find(N)
  \/ \E x \in 0 .. High + 1 : ViewTail(x)
  \/ Step

Spec == Init /\ [][Next]_vars

-----------------------------------------------------------------------------
(* Properties *)

Prints(what) == job = what /\ job' = "idle"

\* README:138, "selection sort by balance descending": the listing shows every
\* account once, the richest first, whatever the order and the ties.
ListingIsSorted ==
  [][Prints("list") =>
       /\ \A k \in 1 .. Len(out') - 1 : out'[k].balance >= out'[k + 1].balance
       /\ Len(out') = Len(book) /\ ToSet(out') = ToSet(book)]_vars

\* Among the first m accounts of the array, those that match, and how many.
Matches(m) == {k \in DOMAIN book : k <= m /\ book[k].name \in wanted}
Rank(m) == Cardinality(Matches(m))

\* The search by name prints the first accounts in the array that match, as many as
\* its results have room for; the audit tail, README:101, "Tail N most recent
\* entries", the newest lines in the order they were logged, all if they are fewer.
PrintedIsExact ==
  [][/\ Prints("find") =>
          /\ Len(out') = IF Rank(Len(book)) < MaxResults THEN Rank(Len(book)) ELSE MaxResults
          /\ \A k \in Matches(Len(book)) : Rank(k) <= MaxResults => out'[Rank(k)] = book[k]
     /\ Prints("tail") =>
          LET n == IF lines < Len(ring) THEN lines ELSE Len(ring)
          IN  out' = [k \in 1 .. n |-> lines - n + k]]_vars

\* admin.c:444 offers Low to High lines: a log that has so many shows no fewer.
\* Any other answer, an empty one too, becomes Low - 1, and the default that
\* admin.c:446 has for it is never taken (violated).
ShowsAsOffered == [][Prints("tail") /\ lines >= Low => Len(out') \in Low .. High]_vars
=============================================================================
