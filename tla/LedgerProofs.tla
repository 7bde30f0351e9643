---------------------------- MODULE LedgerProofs ----------------------------
(***************************************************************************)
(* Proofs about Ledger, for records of any size, logs of any length and a    *)
(* disk that fails at any append.                                            *)
(***************************************************************************)
EXTENDS Ledger, WellFoundedInduction, TLAPS

-----------------------------------------------------------------------------
(* Loops: what a recursive function over the members of a sequence computes *)

\* Induction, as it can be used for a set: a nonempty set of numbers has a least one.
LEMMA LeastNumber ==
  ASSUME NEW B \in SUBSET Nat, B # {}
  PROVE  \E m \in B : \A k \in B : m <= k
<1>1. PICK m \in B : \A k \in B : ~(<<k, m>> \in OpToRel(<, Nat))
  BY NatLessThanWellFounded, WFMin
<1>2. ASSUME NEW k \in B PROVE m <= k
  <2>1. ~(k < m)
    BY <1>1 DEF OpToRel
  <2> QED BY <2>1
<1> QED BY <1>2

\* One round of a loop over a sequence: of the mini statement's (window), or of one that collects
\* the members of S.
Round(t, x, S, window) ==
  IF window THEN Kept(t, x) ELSE IF x \in S THEN Append(t, x) ELSE t

Loop(g, s, S, window, n) ==
  g = [k \in 0 .. n |-> IF k = 0 THEN <<>> ELSE Round(g[k - 1], s[k], S, window)]

\* The loop has a result, however long it runs.
LEMMA LoopExists ==
  ASSUME NEW s, NEW S, NEW window, NEW n \in Nat
  PROVE  \E g : Loop(g, s, S, window, n)
<1> DEFINE B == {m \in Nat : ~ \E g : Loop(g, s, S, window, m)}
<1>1. SUFFICES ASSUME B # {} PROVE FALSE
  OBVIOUS
<1>2. B \in SUBSET Nat
  OBVIOUS
<1> HIDE DEF B
<1>3. PICK m \in B : \A k \in B : m <= k
  BY <1>1, <1>2, LeastNumber
<1>4. m \in Nat /\ ~ \E g : Loop(g, s, S, window, m)
  BY <1>3 DEF B
<1>5. CASE m = 0
  <2> DEFINE g == [k \in 0 .. 0 |-> <<>>]
  <2>1. Loop(g, s, S, window, 0)
    BY DEF Loop
  <2> QED BY <1>4, <1>5, <2>1
<1>6. CASE m # 0
  <2>1. m - 1 \in Nat /\ m - 1 \notin B
    BY <1>3, <1>4, <1>6
  <2>2. PICK h : Loop(h, s, S, window, m - 1)
    BY <2>1 DEF B
  <2> DEFINE g == [k \in 0 .. m |-> IF k = 0 THEN <<>> ELSE Round(h[k - 1], s[k], S, window)]
  <2>3. \A k \in 0 .. m - 1 : g[k] = h[k]
    BY <1>4, <2>2 DEF Loop
  <2>4. \A k \in 0 .. m : k # 0 => g[k - 1] = h[k - 1]
    BY <1>4, <2>3
  <2>5. g = [k \in 0 .. m |-> IF k = 0 THEN <<>> ELSE Round(g[k - 1], s[k], S, window)]
    BY <2>4
  <2> HIDE DEF g
  <2>6. Loop(g, s, S, window, m)
    BY <2>5 DEF Loop
  <2> QED BY <1>4, <2>6
<1> QED BY <1>5, <1>6

Rounds(g, s, S, window, n) ==
  g[0] = <<>> /\ \A k \in 0 .. n - 1 : g[k + 1] = Round(g[k], s[k + 1], S, window)

\* Every value of a loop is the round of the one before it.
LEMMA LoopRounds ==
  ASSUME NEW s, NEW S, NEW window, NEW n \in Nat, NEW g, Loop(g, s, S, window, n)
  PROVE  Rounds(g, s, S, window, n)
<1>1. \A k \in 0 .. n : g[k] = IF k = 0 THEN <<>> ELSE Round(g[k - 1], s[k], S, window)
  BY DEF Loop
<1>2. 0 \in 0 .. n
  OBVIOUS
<1>3. ASSUME NEW k \in 0 .. n - 1 PROVE g[k + 1] = Round(g[k], s[k + 1], S, window)
  <2>1. k + 1 \in 0 .. n /\ k + 1 # 0 /\ (k + 1) - 1 = k
    OBVIOUS
  <2> QED BY <1>1, <2>1
<1> QED BY <1>1, <1>2, <1>3 DEF Rounds

\* Those is the result of such a loop.
LEMMA ThoseIsLoop ==
  ASSUME NEW s, NEW S, Len(s) \in Nat
  PROVE  \E g : Loop(g, s, S, FALSE, Len(s)) /\ Those(s, S) = g[Len(s)]
<1> DEFINE P(g) == g = [k \in 0 .. Len(s) |->
                          IF k = 0 THEN <<>>
                          ELSE IF s[k] \in S THEN Append(g[k - 1], s[k]) ELSE g[k - 1]]
           h == CHOOSE g : P(g)
<1>1. \A g : P(g) <=> Loop(g, s, S, FALSE, Len(s))
  BY DEF Loop, Round
<1>2. \E g : P(g)
  BY <1>1, LoopExists
<1>3. P(h)
  BY <1>2
<1>4. Those(s, S) = h[Len(s)]
  BY DEF Those
<1> QED BY <1>1, <1>3, <1>4

MiniLoop(i, h) == Loop(h, AllFor(i), {}, TRUE, Len(AllFor(i)))

\* The mini statement is what such a loop leaves in the buffer.
LEMMA MiniIsLoop ==
  ASSUME NEW i, Len(AllFor(i)) \in Nat
  PROVE  \E h : MiniLoop(i, h) /\ MiniStatement(i) = LastLines(h[Len(AllFor(i))])
<1> DEFINE s == AllFor(i)
           P(g) == g = [k \in 0 .. Len(s) |-> IF k = 0 THEN <<>> ELSE Kept(g[k - 1], s[k])]
           h == CHOOSE g : P(g)
<1>1. \A g : P(g) <=> MiniLoop(i, g)
  BY DEF Loop, Round, MiniLoop
<1>2. \E g : P(g)
  BY <1>1, LoopExists DEF MiniLoop
<1>3. P(h)
  BY <1>2
<1>4. MiniStatement(i) = LastLines(h[Len(s)])
  BY DEF MiniStatement
<1> QED BY <1>1, <1>3, <1>4

-----------------------------------------------------------------------------
(* What the readers collect *)

\* t holds those of the first k members of s that are in S, each of them, and in their order.
Collected(t, s, S, k) ==
  /\ t \in Seq(S)
  /\ \A l \in 1 .. Len(t) : \E a \in 1 .. k : t[l] = s[a]
  /\ \A l, m \in 1 .. Len(t) : l < m => \E a, b \in 1 .. k : a < b /\ t[l] = s[a] /\ t[m] = s[b]
  /\ \A a \in 1 .. k : s[a] \in S => \E l \in 1 .. Len(t) : t[l] = s[a]

\* One round of the collecting loop.
LEMMA CollectedStep ==
  ASSUME NEW t, NEW s, NEW S, NEW k \in Nat, Collected(t, s, S, k), NEW u,
         u = IF s[k + 1] \in S THEN Append(t, s[k + 1]) ELSE t
  PROVE  Collected(u, s, S, k + 1)
<1>1. /\ t \in Seq(S) /\ Len(t) \in Nat
      /\ \A l \in 1 .. Len(t) : \E a \in 1 .. k : t[l] = s[a]
      /\ \A l, m \in 1 .. Len(t) : l < m => \E a, b \in 1 .. k : a < b /\ t[l] = s[a] /\ t[m] = s[b]
      /\ \A a \in 1 .. k : s[a] \in S => \E l \in 1 .. Len(t) : t[l] = s[a]
  BY DEF Collected
<1>2. \A a : a \in 1 .. k + 1 <=> a \in 1 .. k \/ a = k + 1
  OBVIOUS
<1>3. CASE s[k + 1] \notin S
  BY <1>1, <1>2, <1>3 DEF Collected
<1>4. CASE s[k + 1] \in S
  <2> DEFINE n == Len(t)
             x == s[k + 1]
  <2>1. u \in Seq(S) /\ Len(u) = n + 1 /\ u[n + 1] = x /\ \A l \in 1 .. n : u[l] = t[l]
    BY <1>1, <1>4
  <2>2. \A l : l \in 1 .. n + 1 <=> l \in 1 .. n \/ l = n + 1
    BY <1>1
  <2> HIDE DEF n, x
  <2>3. ASSUME NEW l \in 1 .. n + 1 PROVE \E a \in 1 .. k + 1 : u[l] = s[a]
    BY <1>1, <1>2, <2>1, <2>2 DEF n, x
  <2>4. ASSUME NEW l \in 1 .. n + 1, NEW m \in 1 .. n + 1, l < m
        PROVE  \E a, b \in 1 .. k + 1 : a < b /\ u[l] = s[a] /\ u[m] = s[b]
    <3>1. CASE m \in 1 .. n
      <4>1. l \in 1 .. n
        BY <2>4, <3>1 DEF n
      <4> QED BY <1>1, <1>2, <2>1, <3>1, <4>1, <2>4 DEF n
    <3>2. CASE m = n + 1
      <4>1. l \in 1 .. n
        BY <2>2, <2>4, <3>2 DEF n
      <4>2. PICK a \in 1 .. k : t[l] = s[a]
        BY <1>1, <4>1 DEF n
      <4>3. a < k + 1 /\ u[l] = s[a] /\ u[m] = s[k + 1]
        BY <2>1, <3>2, <4>1, <4>2 DEF x
      <4> QED BY <1>2, <4>3
    <3> QED BY <2>2, <3>1, <3>2
  <2>5. ASSUME NEW a \in 1 .. k + 1, s[a] \in S PROVE \E l \in 1 .. n + 1 : u[l] = s[a]
    BY <1>1, <1>2, <2>1, <2>2, <2>5 DEF n, x
  <2>6. \A l \in 1 .. Len(u) : \E a \in 1 .. k + 1 : u[l] = s[a]
    BY <2>1, <2>3
  <2>7. \A l, m \in 1 .. Len(u) : l < m => \E a, b \in 1 .. k + 1 : a < b /\ u[l] = s[a] /\ u[m] = s[b]
    <3> DEFINE InOrder(l, m) == \E a, b \in 1 .. k + 1 : a < b /\ u[l] = s[a] /\ u[m] = s[b]
    <3>1. \A l, m \in 1 .. n + 1 : l < m => InOrder(l, m)
      BY <2>4
    <3>2. Len(u) = n + 1
      BY <2>1
    <3> HIDE DEF InOrder
    <3>3. \A l, m \in 1 .. Len(u) : l < m => InOrder(l, m)
      BY <3>1, <3>2
    <3> QED BY <3>3 DEF InOrder
  <2>8. \A a \in 1 .. k + 1 : s[a] \in S => \E l \in 1 .. Len(u) : u[l] = s[a]
    BY <2>1, <2>5
  <2> QED BY <2>1, <2>6, <2>7, <2>8 DEF Collected
<1> QED BY <1>3, <1>4

\* What the loop collects: the members that are in S, in their order, and all of them.
LEMMA ThoseCollects ==
  ASSUME NEW s, NEW S, Len(s) \in Nat
  PROVE  Collected(Those(s, S), s, S, Len(s))
<1> DEFINE n == Len(s)
<1>1. PICK g : Loop(g, s, S, FALSE, n) /\ Those(s, S) = g[n]
  BY ThoseIsLoop
<1> HIDE DEF n
<1>2. n \in Nat
  BY DEF n
<1>3. g[0] = <<>> /\ \A k \in 0 .. n - 1 : g[k + 1] = Round(g[k], s[k + 1], S, FALSE)
  <2>1. Rounds(g, s, S, FALSE, n)
    BY <1>1, <1>2, LoopRounds
  <2> QED BY <2>1 DEF Rounds
<1> DEFINE B == {k \in 0 .. n : ~Collected(g[k], s, S, k)}
<1>4. SUFFICES ASSUME B # {} PROVE FALSE
  BY <1>1, <1>2 DEF n
<1>5. B \in SUBSET Nat
  BY <1>2
<1> HIDE DEF B
<1>6. PICK k \in B : \A j \in B : k <= j
  BY <1>4, <1>5, LeastNumber
<1>7. k \in 0 .. n /\ ~Collected(g[k], s, S, k)
  BY <1>6 DEF B
<1>8. k # 0
  <2>1. Collected(<<>>, s, S, 0)
    BY DEF Collected
  <2> QED BY <1>3, <1>7, <2>1
<1>9. k - 1 \in 0 .. n - 1 /\ k - 1 \in 0 .. n /\ k - 1 \in Nat /\ (k - 1) + 1 = k
  BY <1>2, <1>7, <1>8
<1>10. Collected(g[k - 1], s, S, k - 1)
  <2>1. k - 1 \notin B
    BY <1>6, <1>9
  <2> QED BY <1>9, <2>1 DEF B
<1>11. g[k] = IF s[k] \in S THEN Append(g[k - 1], s[k]) ELSE g[k - 1]
  BY <1>3, <1>9 DEF Round
<1>12. Collected(g[k], s, S, k)
  <2> DEFINE j == k - 1
  <2>1. j \in Nat /\ j + 1 = k /\ Collected(g[j], s, S, j)
    BY <1>9, <1>10
  <2>2. g[k] = IF s[j + 1] \in S THEN Append(g[j], s[j + 1]) ELSE g[j]
    BY <1>9, <1>11
  <2> HIDE DEF j
  <2>3. Collected(g[k], s, S, j + 1)
    BY <2>1, <2>2, CollectedStep
  <2> QED BY <2>1, <2>3
<1> QED BY <1>7, <1>12

\* The records as they are read.
Rec(a) == SubSeq(file, (a - 1) * Cells + 1, a * Cells)
Recs   == Len(file) \div Cells

\* What is read for an account: the records with its id, each of them, and in their order.
AllForIs(i, t) ==
  /\ Len(t) \in Nat /\ DOMAIN t = 1 .. Len(t) /\ t \in Seq({Rec(a) : a \in 1 .. Recs})
  /\ \A l \in 1 .. Len(t) : OwnRecord(t[l], i) /\ \E a \in 1 .. Recs : t[l] = Rec(a)
  /\ \A l, m \in 1 .. Len(t) : l < m => \E a, b \in 1 .. Recs : a < b /\ t[l] = Rec(a) /\ t[m] = Rec(b)
  /\ \A a \in 1 .. Recs : OwnRecord(Rec(a), i) => \E l \in 1 .. Len(t) : t[l] = Rec(a)

\* The records that are read, one for each whole record's size of the file.
LEMMA ReadsAre ==
  ASSUME Len(file) \in Nat
  PROVE  /\ Recs \in Nat /\ Len(Reads) = Recs /\ DOMAIN Reads = 1 .. Recs
         /\ \A a \in 1 .. Recs : Reads[a] = Rec(a)
<1>1. Cells \in Nat \ {0}
  BY SizesAssumption
<1>2. Recs \in Nat
  BY <1>1 DEF Recs
<1>3. Reads = [a \in 1 .. Recs |-> Rec(a)]
  BY DEF Reads, Rec, Recs
<1> QED BY <1>2, <1>3

\* What is read for an account: its own records of them, in their order.
LEMMA AllForCollects ==
  ASSUME Len(file) \in Nat, NEW i
  PROVE  AllForIs(i, AllFor(i))
<1> DEFINE s == Reads
           S == {r \in Range(Reads) : OwnRecord(r, i)}
           n == Recs
           t == AllFor(i)
<1>1. n \in Nat /\ Len(s) = n /\ DOMAIN s = 1 .. n /\ \A a \in 1 .. n : s[a] = Rec(a)
  BY ReadsAre
<1>2. t = Those(s, S)
  BY DEF AllFor
<1>3. \A a \in 1 .. n : s[a] \in Range(s)
  BY <1>1 DEF Range
<1>4. \A r \in S : r \in Range(s) /\ OwnRecord(r, i)
  OBVIOUS
<1>5. \A r \in Range(s) : OwnRecord(r, i) => r \in S
  OBVIOUS
<1>6. \A r \in Range(s) : \E a \in 1 .. n : r = Rec(a)
  BY <1>1 DEF Range
<1> HIDE DEF s, S, n, t
<1>7. Collected(t, s, S, n)
  BY <1>1, <1>2, ThoseCollects
<1>8. /\ t \in Seq(S)
      /\ \A l \in 1 .. Len(t) : \E a \in 1 .. n : t[l] = s[a]
      /\ \A l, m \in 1 .. Len(t) : l < m => \E a, b \in 1 .. n : a < b /\ t[l] = s[a] /\ t[m] = s[b]
      /\ \A a \in 1 .. n : s[a] \in S => \E l \in 1 .. Len(t) : t[l] = s[a]
  BY <1>7 DEF Collected
<1>9. Len(t) \in Nat /\ DOMAIN t = 1 .. Len(t) /\ \A l \in 1 .. Len(t) : t[l] \in S
  BY <1>8
<1>10. t \in Seq({Rec(a) : a \in 1 .. n})
  <2> DEFINE R == {Rec(a) : a \in 1 .. n}
  <2>1. S \subseteq R
    BY <1>4, <1>6
  <2> HIDE DEF R
  <2>2. t \in Seq(R)
    BY <1>8, <2>1
  <2> QED BY <2>2 DEF R
<1>11. \A l \in 1 .. Len(t) : OwnRecord(t[l], i) /\ \E a \in 1 .. n : t[l] = Rec(a)
  BY <1>1, <1>4, <1>8, <1>9
<1>12. \A l, m \in 1 .. Len(t) : l < m => \E a, b \in 1 .. n : a < b /\ t[l] = Rec(a) /\ t[m] = Rec(b)
  <2> SUFFICES ASSUME NEW l \in 1 .. Len(t), NEW m \in 1 .. Len(t), l < m
               PROVE  \E a, b \in 1 .. n : a < b /\ t[l] = Rec(a) /\ t[m] = Rec(b)
    OBVIOUS
  <2>1. PICK a \in 1 .. n, b \in 1 .. n : a < b /\ t[l] = s[a] /\ t[m] = s[b]
    BY <1>8
  <2>2. s[a] = Rec(a) /\ s[b] = Rec(b)
    BY <1>1
  <2> QED BY <2>1, <2>2
<1>13. \A a \in 1 .. n : OwnRecord(Rec(a), i) => \E l \in 1 .. Len(t) : t[l] = Rec(a)
  <2> SUFFICES ASSUME NEW a \in 1 .. n, OwnRecord(Rec(a), i) PROVE \E l \in 1 .. Len(t) : t[l] = Rec(a)
    OBVIOUS
  <2>1. s[a] = Rec(a)
    BY <1>1
  <2>2. Rec(a) \in Range(s)
    BY <1>3, <2>1
  <2>3. s[a] \in S
    BY <1>5, <2>1, <2>2
  <2> QED BY <1>8, <2>1, <2>3
<1> QED BY <1>9, <1>10, <1>11, <1>12, <1>13 DEF AllForIs, n, t

-----------------------------------------------------------------------------
(* The window of the mini statement *)

\* t is the end of the first k members of s, as much of it as the buffer has room for.
IsWindow(t, s, R, k) ==
  /\ t \in Seq(R)
  /\ Len(t) = IF k < Buffer THEN k ELSE Buffer
  /\ \A l \in 1 .. Len(t) : t[l] = s[k - Len(t) + l]

\* One round of the shifting buffer: it holds the end of what it was given.
LEMMA WindowStep ==
  ASSUME NEW R, NEW s \in Seq(R), NEW k \in Nat, k < Len(s), NEW t, IsWindow(t, s, R, k)
  PROVE  IsWindow(Kept(t, s[k + 1]), s, R, k + 1)
<1> DEFINE x == s[k + 1]
           v == IF Len(t) < Buffer THEN t ELSE Tail(t)
           u == Append(v, x)
<1>1. Buffer \in Nat /\ Buffer > 0
  BY SizesAssumption, BufferAssumption
<1>2. /\ t \in Seq(R) /\ Len(t) \in Nat
      /\ Len(t) = IF k < Buffer THEN k ELSE Buffer
      /\ \A l \in 1 .. Len(t) : t[l] = s[k - Len(t) + l]
  BY DEF IsWindow
<1>3. x \in R
  <2>1. k + 1 \in 1 .. Len(s)
    OBVIOUS
  <2> QED BY <2>1
<1>4. Kept(t, s[k + 1]) = u
  BY DEF Kept
<1> HIDE DEF x
<1>5. CASE k < Buffer
  <2>1. v = t /\ Len(t) = k
    BY <1>2, <1>5
  <2> HIDE DEF v
  <2>2. u \in Seq(R) /\ Len(u) = k + 1 /\ u[k + 1] = x /\ \A l \in 1 .. k : u[l] = t[l]
    BY <1>2, <1>3, <2>1
  <2>3. \A l \in 1 .. k : t[l] = s[l]
    BY <1>2, <2>1
  <2> HIDE DEF u
  <2>4. Len(u) = IF k + 1 < Buffer THEN k + 1 ELSE Buffer
    BY <1>1, <1>5, <2>2
  <2>5. \A l \in 1 .. k + 1 : u[l] = s[l]
    <3>1. \A l \in 1 .. k + 1 : l \in 1 .. k \/ l = k + 1
      OBVIOUS
    <3> QED BY <2>2, <2>3, <3>1 DEF x
  <2>6. \A l \in 1 .. Len(u) : u[l] = s[(k + 1) - Len(u) + l]
    BY <2>2, <2>5
  <2> QED BY <1>4, <2>2, <2>4, <2>6 DEF IsWindow
<1>6. CASE ~(k < Buffer)
  <2>1. v = Tail(t) /\ Len(t) = Buffer /\ t # <<>>
    BY <1>1, <1>2, <1>6
  <2>2. v \in Seq(R) /\ Len(v) = Buffer - 1 /\ \A l \in 1 .. Buffer - 1 : v[l] = t[l + 1]
    BY <1>1, <1>2, <2>1
  <2> HIDE DEF v
  <2>3. u \in Seq(R) /\ Len(u) = Buffer /\ u[Buffer] = x /\ \A l \in 1 .. Buffer - 1 : u[l] = v[l]
    BY <1>1, <1>3, <2>2
  <2> HIDE DEF u
  <2>4. Len(u) = IF k + 1 < Buffer THEN k + 1 ELSE Buffer
    BY <1>1, <1>6, <2>3
  <2>5. ASSUME NEW l \in 1 .. Buffer PROVE u[l] = s[(k + 1) - Buffer + l]
    <3>1. CASE l = Buffer
      <4>1. (k + 1) - Buffer + l = k + 1
        BY <1>1, <3>1
      <4> QED BY <2>3, <3>1, <4>1 DEF x
    <3>2. CASE l # Buffer
      <4>1. l \in 1 .. Buffer - 1 /\ l + 1 \in 1 .. Len(t)
        BY <1>1, <2>1, <3>2
      <4>2. u[l] = t[l + 1]
        BY <2>2, <2>3, <4>1
      <4>3. t[l + 1] = s[k - Len(t) + (l + 1)]
        BY <1>2, <4>1
      <4>4. k - Len(t) + (l + 1) = (k + 1) - Buffer + l
        BY <1>1, <2>1
      <4> QED BY <4>2, <4>3, <4>4
    <3> QED BY <3>1, <3>2
  <2>6. \A l \in 1 .. Len(u) : u[l] = s[(k + 1) - Len(u) + l]
    BY <2>3, <2>5
  <2> QED BY <1>4, <2>3, <2>4, <2>6 DEF IsWindow
<1> QED BY <1>5, <1>6

\* At the end of the loop it holds the end of the sequence.
LEMMA LoopIsWindow ==
  ASSUME NEW R, NEW s \in Seq(R), NEW g, Loop(g, s, {}, TRUE, Len(s))
  PROVE  IsWindow(g[Len(s)], s, R, Len(s))
<1> DEFINE n == Len(s)
<1>2. n \in Nat
  OBVIOUS
<1>3. g[0] = <<>> /\ \A k \in 0 .. n - 1 : g[k + 1] = Kept(g[k], s[k + 1])
  <2>1. Rounds(g, s, {}, TRUE, n)
    <3> HIDE DEF n
    <3>1. Loop(g, s, {}, TRUE, n)
      BY DEF n
    <3> QED BY <1>2, <3>1, LoopRounds
  <2> QED BY <2>1 DEF Rounds, Round
<1> DEFINE B == {k \in 0 .. n : ~IsWindow(g[k], s, R, k)}
<1>4. SUFFICES ASSUME B # {} PROVE FALSE
  BY <1>2
<1>5. B \in SUBSET Nat
  BY <1>2
<1> HIDE DEF B, n
<1>6. PICK k \in B : \A j \in B : k <= j
  BY <1>4, <1>5, LeastNumber
<1>7. k \in 0 .. n /\ ~IsWindow(g[k], s, R, k)
  BY <1>6 DEF B
<1>8. k # 0
  <2>1. IsWindow(<<>>, s, R, 0)
    BY SizesAssumption, BufferAssumption DEF IsWindow
  <2> QED BY <1>3, <1>7, <2>1
<1> DEFINE j == k - 1
<1>9. j \in 0 .. n - 1 /\ j \in 0 .. n /\ j \in Nat /\ j + 1 = k /\ j < n /\ ~(k <= j)
  BY <1>2, <1>7, <1>8
<1> HIDE DEF j
<1>10. IsWindow(g[j], s, R, j)
  BY <1>6, <1>9 DEF B
<1>11. g[k] = Kept(g[j], s[j + 1])
  BY <1>3, <1>9
<1>12. IsWindow(Kept(g[j], s[j + 1]), s, R, j + 1)
  BY <1>9, <1>10, WindowStep DEF n
<1> QED BY <1>7, <1>9, <1>11, <1>12

\* The mini statement is the end of what is read for the account.
LEMMA MiniIsEnd ==
  ASSUME Len(file) \in Nat, NEW i, NEW all, all = AllFor(i), NEW lines, lines = MiniStatement(i)
  PROVE  /\ Len(all) \in Nat /\ DOMAIN lines = 1 .. Len(lines)
         /\ Len(lines) = IF Len(all) > MaxLines THEN MaxLines ELSE Len(all)
         /\ \A k \in 1 .. Len(lines) : lines[k] = all[Len(all) - Len(lines) + k]
<1> DEFINE R == {Rec(a) : a \in 1 .. Recs}
           n == Len(all)
<1>1. all \in Seq(R) /\ n \in Nat
  BY AllForCollects DEF AllForIs
<1> HIDE DEF R
<1>2. PICK h : MiniLoop(i, h) /\ MiniStatement(i) = LastLines(h[n])
  BY <1>1, MiniIsLoop
<1> DEFINE t == h[n]
<1>3. IsWindow(t, all, R, n)
  <2>1. Loop(h, all, {}, TRUE, Len(all))
    BY <1>2 DEF MiniLoop
  <2> QED BY <1>1, <2>1, LoopIsWindow
<1>4. /\ t \in Seq(R) /\ Len(t) = (IF n < Buffer THEN n ELSE Buffer)
      /\ \A l \in 1 .. Len(t) : t[l] = all[n - Len(t) + l]
  BY <1>3 DEF IsWindow
<1> DEFINE m == IF Len(t) > MaxLines THEN Len(t) - MaxLines + 1 ELSE 1
<1>5. lines = SubSeq(t, m, Len(t))
  BY <1>2 DEF LastLines
<1> HIDE DEF t
<1>6. MaxLines \in Nat /\ MaxLines > 0 /\ Buffer \in Nat /\ MaxLines <= Buffer
  BY SizesAssumption, BufferAssumption
<1>7. Len(t) \in Nat /\ m \in 1 .. Len(t) + 1
      /\ Len(t) - m + 1 = IF n > MaxLines THEN MaxLines ELSE n
  <2> HIDE DEF n
  <2>1. CASE n > MaxLines
    <3>1. Len(t) \in Nat /\ Len(t) >= MaxLines
      BY <1>1, <1>4, <1>6, <2>1
    <3> HIDE DEF t
    <3> QED BY <1>6, <2>1, <3>1
  <2>2. CASE ~(n > MaxLines)
    <3>1. Len(t) = n
      BY <1>1, <1>4, <1>6, <2>2
    <3> HIDE DEF t
    <3> QED BY <1>1, <1>6, <2>2, <3>1
  <2> QED BY <2>1, <2>2
<1> HIDE DEF m, n
<1>8. DOMAIN lines = 1 .. Len(lines) /\ Len(lines) = Len(t) - m + 1
      /\ \A k \in 1 .. Len(t) - m + 1 : lines[k] = t[m + k - 1]
  BY <1>4, <1>5, <1>7
<1>9. ASSUME NEW k \in 1 .. Len(lines) PROVE lines[k] = all[n - Len(lines) + k]
  <2>1. lines[k] = t[m + k - 1] /\ m + k - 1 \in 1 .. Len(t)
    BY <1>7, <1>8
  <2>2. t[m + k - 1] = all[n - Len(t) + (m + k - 1)]
    BY <1>4, <2>1
  <2>3. n - Len(t) + (m + k - 1) = n - Len(lines) + k
    BY <1>1, <1>7, <1>8
  <2> QED BY <2>1, <2>2, <2>3
<1> QED BY <1>1, <1>7, <1>8, <1>9 DEF n

-----------------------------------------------------------------------------
(* The log: how the cells of the file stand for the calls *)

NoneTorn(c, n) == \A m \in 1 .. n - 1 : c[m].written \notin 1 .. Cells - 1

\* The cell at p stands among all the cells that its call has written.
BlockAt(f, c, p) ==
  /\ f[p].of \in 1 .. Len(c)
  /\ f[p].part <= c[f[p].of].written /\ f[p].part <= p
  /\ p - f[p].part + c[f[p].of].written <= Len(f)
  /\ \A v \in 1 .. c[f[p].of].written : f[p - f[p].part + v] = [of |-> f[p].of, part |-> v]

\* The cells stand in the order of the calls, every call's once.
Before(x, y) == x.of < y.of \/ (x.of = y.of /\ x.part < y.part)

Multiple(n) == \E a \in Nat : n = a * Cells

LogOK(f, c) ==
  /\ f \in Seq([of : Nat, part : 1 .. Cells]) /\ c \in Seq(Call)
  /\ \A p \in 1 .. Len(f) : BlockAt(f, c, p)
  /\ \A p, q \in 1 .. Len(f) : p < q => Before(f[p], f[q])
  /\ \A n \in 1 .. Len(c) : c[n].written > 0 => \E p \in 1 .. Len(f) : f[p] = [of |-> n, part |-> 1]
  /\ \A p \in 1 .. Len(f) : NoneTorn(c, f[p].of) => Multiple(p - f[p].part)
  /\ NoneTorn(c, Len(c) + 1) => Multiple(Len(f))

\* The fields of a call.
LEMMA CallFields ==
  ASSUME NEW call \in Call
  PROVE  /\ call.owner \in Id /\ call.txn \in Nat \X Nat /\ call.run \in Nat /\ call.after \in Nat
         /\ call.written \in 0 .. Cells /\ call.written \in Nat /\ Cells \in Nat \ {0}
BY SizesAssumption DEF Call, TxnId

IsConcat(g, f, b, C) ==
  /\ g \in Seq(C) /\ Len(g) = Len(f) + Len(b)
  /\ \A p \in 1 .. Len(f) : g[p] = f[p]
  /\ \A v \in 1 .. Len(b) : g[Len(f) + v] = b[v]

\* The members of a concatenation.
LEMMA Concatenated ==
  ASSUME NEW C, NEW f \in Seq(C), NEW b \in Seq(C)
  PROVE  IsConcat(f \o b, f, b, C)
BY DEF IsConcat

\* Whatever becomes of an append, the log stays one.
LEMMA AppendLog ==
  ASSUME NEW f, NEW c, LogOK(f, c), NEW call \in Call,
         NEW g, g = Appended(f, Len(c) + 1, call.written), NEW d, d = Append(c, call)
  PROVE  LogOK(g, d)
<1> DEFINE C == [of : Nat, part : 1 .. Cells]
           N == Len(c) + 1
           L == Len(f)
           w == call.written
           b == [p \in 1 .. w |-> [of |-> N, part |-> p]]
<1>1. /\ f \in Seq(C) /\ c \in Seq(Call) /\ L \in Nat /\ N \in Nat /\ N > 0 /\ Len(c) = N - 1
      /\ \A p \in 1 .. L : BlockAt(f, c, p)
      /\ \A p, q \in 1 .. L : p < q => Before(f[p], f[q])
      /\ \A n \in 1 .. Len(c) : c[n].written > 0 => \E p \in 1 .. L : f[p] = [of |-> n, part |-> 1]
      /\ \A p \in 1 .. L : NoneTorn(c, f[p].of) => Multiple(p - f[p].part)
      /\ NoneTorn(c, N) => Multiple(L)
  BY DEF LogOK
<1>2. w \in 0 .. Cells /\ w \in Nat /\ Cells \in Nat \ {0}
  BY CallFields
<1>3. g = f \o b
  BY DEF Appended
<1>4. b \in Seq(C) /\ Len(b) = w /\ \A v \in 1 .. w : b[v] = [of |-> N, part |-> v]
  <2>1. \A v \in 1 .. w : [of |-> N, part |-> v] \in C
    BY <1>1, <1>2
  <2> HIDE DEF N, w, C
  <2> QED BY <1>2, <2>1
<1>0. \A x \in C : x.part \in Nat
  BY <1>2
<1> HIDE DEF b, w, L, N, C
<1>a. L \in Nat /\ N \in Nat /\ N > 0
  BY <1>1
<1>b. /\ g \in Seq(C) /\ Len(g) = Len(f) + Len(b)
      /\ \A p \in 1 .. Len(f) : g[p] = f[p]
      /\ \A v \in 1 .. Len(b) : g[Len(f) + v] = b[v]
  <2>1. f \in Seq(C) /\ b \in Seq(C)
    BY <1>1, <1>4
  <2>2. IsConcat(g, f, b, C)
    BY <1>3, <2>1, Concatenated
  <2> QED BY <2>2 DEF IsConcat
<1>5. g \in Seq(C) /\ Len(g) = L + w
  BY <1>4, <1>b DEF L
<1>6. \A p \in 1 .. L : g[p] = f[p]
  BY <1>b DEF L
<1>7. \A v \in 1 .. w : /\ g[L + v] = [of |-> N, part |-> v]
                        /\ g[L + v].of = N /\ g[L + v].part = v
  <2>1. \A v \in 1 .. w : g[L + v] = [of |-> N, part |-> v]
    BY <1>4, <1>b DEF L
  <2> QED BY <2>1
<1>8. \A p \in 1 .. L + w : p \in 1 .. L \/ \E v \in 1 .. w : p = L + v
  <2> SUFFICES ASSUME NEW p \in 1 .. L + w, p \notin 1 .. L PROVE \E v \in 1 .. w : p = L + v
    OBVIOUS
  <2>1. p - L \in 1 .. w /\ p = L + (p - L)
    BY <1>a, <1>2
  <2> QED BY <2>1
<1>9. d \in Seq(Call) /\ Len(d) = N /\ d[N] = call /\ \A n \in 1 .. N - 1 : d[n] = c[n]
  BY <1>1
<1>10. ASSUME NEW p \in 1 .. L
       PROVE  /\ f[p].of \in 1 .. N - 1 /\ d[f[p].of] = c[f[p].of] /\ f[p].part \in Nat
              /\ g[p] = f[p] /\ BlockAt(f, c, p) /\ c[f[p].of].written \in Nat
  <2>1. f[p].of \in 1 .. N - 1 /\ BlockAt(f, c, p)
    BY <1>1 DEF BlockAt
  <2>2. f[p] \in C
    BY <1>1 DEF L
  <2>3. c[f[p].of] \in Call
    BY <1>1, <2>1
  <2> QED BY <1>0, <1>6, <1>9, <2>1, <2>2, <2>3, CallFields
<1>11. \A p \in 1 .. L + w : BlockAt(g, d, p)
  <2> SUFFICES ASSUME NEW p \in 1 .. L + w PROVE BlockAt(g, d, p)
    OBVIOUS
  <2>1. CASE p \in 1 .. L
    <3> DEFINE n == f[p].of
               k == f[p].part
               x == c[n].written
    <3>1. /\ n \in 1 .. N - 1 /\ d[n] = c[n] /\ k \in Nat /\ x \in Nat
          /\ g[p] = f[p] /\ k <= x /\ k <= p /\ p - k + x <= L
          /\ \A v \in 1 .. x : f[p - k + v] = [of |-> n, part |-> v]
      BY <1>10, <2>1 DEF BlockAt, L
    <3> HIDE DEF n, k, x
    <3>2. ASSUME NEW v \in 1 .. x PROVE g[p - k + v] = [of |-> n, part |-> v]
      <4>1. p - k + v \in 1 .. L
        BY <1>a, <2>1, <3>1
      <4> QED BY <1>6, <3>1, <4>1
    <3>3. n \in 1 .. N /\ p - k + x <= L + w
      BY <1>a, <1>2, <2>1, <3>1
    <3> QED BY <1>5, <1>9, <3>1, <3>2, <3>3 DEF BlockAt, n, k, x
  <2>2. CASE \E v \in 1 .. w : p = L + v
    <3>1. PICK k \in 1 .. w : p = L + k
      BY <2>2
    <3>2. g[p].of = N /\ g[p].part = k /\ d[N].written = w
      BY <1>7, <1>9, <3>1 DEF w
    <3>3. p - k = L /\ k <= w /\ k <= p /\ N \in 1 .. N
      BY <1>a, <1>2, <3>1
    <3>4. p - k + w <= Len(g) /\ N \in 1 .. Len(d)
      BY <1>5, <1>9, <3>3, <1>a, <1>2
    <3>5. \A v \in 1 .. w : g[p - k + v] = [of |-> N, part |-> v]
      BY <1>7, <3>3
    <3>6. d[g[p].of].written = w
      BY <3>2
    <3>7. \A v \in 1 .. d[g[p].of].written : g[p - g[p].part + v] = [of |-> g[p].of, part |-> v]
      BY <3>2, <3>5, <3>6
    <3>8. g[p].part <= d[g[p].of].written /\ g[p].part <= p /\ p - g[p].part + d[g[p].of].written <= Len(g)
      BY <3>2, <3>3, <3>4, <3>6
    <3> QED BY <3>2, <3>4, <3>7, <3>8 DEF BlockAt
  <2> QED BY <1>8, <2>1, <2>2
<1>12. \A p, q \in 1 .. L + w : p < q => Before(g[p], g[q])
  <2> SUFFICES ASSUME NEW p \in 1 .. L + w, NEW q \in 1 .. L + w, p < q PROVE Before(g[p], g[q])
    OBVIOUS
  <2>1. CASE q \in 1 .. L
    <3>1. p \in 1 .. L
      BY <1>1, <2>1
    <3> QED BY <1>1, <1>6, <2>1, <3>1
  <2>2. CASE \E v \in 1 .. w : q = L + v
    <3>1. PICK v \in 1 .. w : q = L + v
      BY <2>2
    <3>2. g[q].of = N /\ g[q].part = v
      BY <1>7, <3>1
    <3>3. CASE p \in 1 .. L
      <4>1. g[p].of \in 1 .. N - 1
        BY <1>10, <3>3
      <4> QED BY <1>1, <3>2, <4>1 DEF Before
    <3>4. CASE \E u \in 1 .. w : p = L + u
      <4>1. PICK u \in 1 .. w : p = L + u
        BY <3>4
      <4>2. g[p].of = N /\ g[p].part = u
        BY <1>7, <4>1
      <4>3. u < v
        BY <1>a, <1>2, <3>1, <4>1
      <4> QED BY <3>2, <4>2, <4>3 DEF Before
    <3> QED BY <1>8, <3>3, <3>4
  <2> QED BY <1>8, <2>1, <2>2
<1>13. \A n \in 1 .. N : d[n].written > 0 => \E p \in 1 .. L + w : g[p] = [of |-> n, part |-> 1]
  <2> SUFFICES ASSUME NEW n \in 1 .. N, d[n].written > 0
               PROVE  \E p \in 1 .. L + w : g[p] = [of |-> n, part |-> 1]
    OBVIOUS
  <2>1. CASE n \in 1 .. N - 1
    <3>1. PICK p \in 1 .. L : f[p] = [of |-> n, part |-> 1]
      BY <1>1, <1>9, <2>1
    <3>2. p \in 1 .. L + w
      BY <1>1, <1>2
    <3> QED BY <1>6, <3>1, <3>2
  <2>2. CASE n = N
    <3>1. w > 0
      BY <1>9, <2>2 DEF w
    <3>2. 1 \in 1 .. w /\ L + 1 \in 1 .. L + w
      BY <1>1, <1>2, <3>1
    <3> QED BY <1>7, <2>2, <3>2
  <2> QED BY <1>1, <2>1, <2>2
<1>14. \A n \in 1 .. N : NoneTorn(d, n) => NoneTorn(c, n)
  <2> SUFFICES ASSUME NEW n \in 1 .. N, NoneTorn(d, n), NEW m \in 1 .. n - 1
               PROVE  c[m].written \notin 1 .. Cells - 1
    BY DEF NoneTorn
  <2>1. m \in 1 .. N - 1
    BY <1>1
  <2>2. d[m].written \notin 1 .. Cells - 1
    BY DEF NoneTorn
  <2> QED BY <1>9, <2>1, <2>2
<1>15. \A p \in 1 .. L + w : NoneTorn(d, g[p].of) => Multiple(p - g[p].part)
  <2> SUFFICES ASSUME NEW p \in 1 .. L + w, NoneTorn(d, g[p].of) PROVE Multiple(p - g[p].part)
    OBVIOUS
  <2>1. CASE p \in 1 .. L
    <3>1. g[p] = f[p] /\ f[p].of \in 1 .. N
      BY <1>1, <1>10, <2>1
    <3> QED BY <1>1, <1>14, <2>1, <3>1
  <2>2. CASE \E v \in 1 .. w : p = L + v
    <3>1. PICK v \in 1 .. w : p = L + v
      BY <2>2
    <3>2. g[p].of = N /\ g[p].part = v
      BY <1>7, <3>1
    <3>3. p - v = L /\ N \in 1 .. N
      BY <1>a, <1>2, <3>1
    <3> QED BY <1>1, <1>14, <3>2, <3>3
  <2> QED BY <1>8, <2>1, <2>2
<1>16. NoneTorn(d, N + 1) => Multiple(L + w)
  <2> SUFFICES ASSUME NoneTorn(d, N + 1) PROVE Multiple(L + w)
    OBVIOUS
  <2>1. \A m \in 1 .. N : d[m].written \notin 1 .. Cells - 1
    BY <1>1 DEF NoneTorn
  <2>2. w \notin 1 .. Cells - 1
    BY <1>1, <1>9, <2>1 DEF w
  <2>3. NoneTorn(d, N)
    BY <1>1, <2>1 DEF NoneTorn
  <2>4. PICK a \in Nat : L = a * Cells
    BY <1>1, <1>14, <2>3 DEF Multiple
  <2>5. w = 0 \/ w = Cells
    BY <1>2, <2>2
  <2>6. L + w = a * Cells \/ L + w = (a + 1) * Cells
    BY <1>1, <1>2, <2>4, <2>5
  <2> QED BY <2>6 DEF Multiple
<1> QED BY <1>5, <1>9, <1>11, <1>12, <1>13, <1>15, <1>16 DEF LogOK, C

-----------------------------------------------------------------------------
(* What the readers make of a log *)

\* The whole parts of a length, counted.
LEMMA Quotient ==
  ASSUME NEW L \in Nat, NEW C \in Nat \ {0}, NEW a \in Nat \ {0}
  PROVE  a \in 1 .. L \div C <=> a * C <= L
<1> DEFINE q == L \div C
<1>1. q \in Nat /\ q * C <= L /\ L < q * C + C
  OBVIOUS
<1> HIDE DEF q
<1>2. ASSUME a <= q PROVE a * C <= L
  <2>1. q = a + (q - a) /\ q - a \in Nat
    BY <1>1, <1>2
  <2>2. q * C = a * C + (q - a) * C /\ (q - a) * C \in Nat
    BY <1>1, <2>1
  <2> QED BY <1>1, <2>2
<1>3. ASSUME ~(a <= q) PROVE ~(a * C <= L)
  <2>1. a = (q + 1) + (a - q - 1) /\ a - q - 1 \in Nat
    BY <1>1, <1>3
  <2>2. a * C = (q + 1) * C + (a - q - 1) * C /\ (a - q - 1) * C \in Nat
    BY <1>1, <2>1
  <2>3. (q + 1) * C = q * C + C
    BY <1>1
  <2> QED BY <1>1, <2>2, <2>3
<1>4. a \in 1 .. q <=> a <= q
  BY <1>1
<1> QED BY <1>2, <1>3, <1>4 DEF q

\* The a-th record as it is read: Cells cells from its place on.
Place(a) == (a - 1) * Cells

RecIs(a, o, r) ==
  /\ o \in Nat /\ o + Cells <= Len(file)
  /\ Len(r) = Cells /\ r = [p \in 1 .. Cells |-> file[o + p]]
  /\ \A p \in 1 .. Cells : r[p] = file[o + p]

\* A record is read whenever its last cell is in the file.
LEMMA RecFacts ==
  ASSUME Len(file) \in Nat, NEW a \in Nat \ {0}
  PROVE  a \in 1 .. Recs <=> Place(a) + Cells <= Len(file)
<1>1. Cells \in Nat \ {0}
  BY SizesAssumption
<1>2. a * Cells = Place(a) + Cells
  BY <1>1 DEF Place
<1> QED BY <1>1, <1>2, Quotient DEF Recs

\* The cells of a record that is read are those of the file behind its place.
LEMMA RecCells ==
  ASSUME NEW C, file \in Seq(C), NEW a \in 1 .. Recs
  PROVE  RecIs(a, Place(a), Rec(a))
<1>1. Cells \in Nat /\ Cells > 0 /\ Len(file) \in Nat
  BY SizesAssumption
<1>2. Recs \in Nat
  BY <1>1, ReadsAre
<1>3. a \in Nat /\ a > 0
  BY <1>2
<1> DEFINE o == Place(a)
<1>4. o \in Nat /\ a * Cells = o + Cells
  BY <1>1, <1>3 DEF Place
<1>5. o + Cells <= Len(file)
  BY <1>1, <1>3, RecFacts
<1>6. Rec(a) = SubSeq(file, o + 1, o + Cells)
  BY <1>4 DEF Rec, Place
<1> HIDE DEF o
<1>7. Rec(a) = [p \in 1 .. Cells |-> file[o + p]]
  <2>1. (o + Cells) - (o + 1) + 1 = Cells
    BY <1>1, <1>4
  <2>2. SubSeq(file, o + 1, o + Cells) = [p \in 1 .. Cells |-> file[(o + 1) + p - 1]]
    BY <1>1, <1>4, <1>5, <2>1
  <2>3. \A p \in 1 .. Cells : (o + 1) + p - 1 = o + p
    BY <1>4
  <2> QED BY <1>6, <2>2, <2>3
<1>8. Len(Rec(a)) = Cells
  BY <1>1, <1>7
<1>9. \A p \in 1 .. Cells : Rec(a)[p] = file[o + p]
  BY <1>7
<1> QED BY <1>4, <1>5, <1>7, <1>8, <1>9 DEF RecIs, o

\* Which call the record belongs to, by its first cell.
Key(r) == r[1].of

OwnIs(r, i) ==
  /\ Key(r) \in 1 .. Len(calls)
  /\ \/ /\ calls[Key(r)].owner = i
        /\ (r = Genuine(Key(r)) /\ calls[Key(r)].written = Cells) \/ Torn(Key(r))
     \/ calls[Key(r)].other = i /\ ~NoneTornBefore(Key(r))

\* A place inside a record is not one where a read starts as long as the records are in step.
LEMMA OutOfStep ==
  ASSUME NEW C \in Nat, NEW a \in Nat, NEW b \in Nat, NEW k \in 2 .. C, (a * C + 1) - k = b * C
  PROVE  FALSE
<1>1. a * C \in Nat /\ b * C \in Nat /\ k \in Nat /\ C > 0
  OBVIOUS
<1>2. CASE a <= b
  <2>1. b - a \in Nat /\ (b - a) * C \in Nat /\ b = a + (b - a)
    BY <1>2
  <2>2. b * C = a * C + (b - a) * C
    BY <2>1
  <2> QED BY <1>1, <2>1, <2>2
<1>3. CASE a > b
  <2> DEFINE d == a - b - 1
  <2>1. d \in Nat /\ a = b + d + 1
    BY <1>3
  <2> HIDE DEF d
  <2>2. d * C \in Nat /\ a * C = b * C + d * C + C
    BY <2>1
  <2> QED BY <1>1, <2>2
<1> QED BY <1>2, <1>3

\* A record that is taken for one of the account i starts in a call of i, which is all of it or was
\* torn, or behind a torn record in a call that names i.
LEMMA OwnRecordIs ==
  ASSUME LogOK(file, calls), NEW a \in 1 .. Recs, NEW i, OwnRecord(Rec(a), i)
  PROVE  OwnIs(Rec(a), i) /\ Place(a) + 1 \in 1 .. Len(file) /\ Rec(a)[1] = file[Place(a) + 1]
<1> DEFINE o == Place(a)
           r == Rec(a)
           n == Key(r)
<1>1. Cells \in Nat /\ Cells > 0 /\ file \in Seq([of : Nat, part : 1 .. Cells])
  BY SizesAssumption DEF LogOK
<1>2. RecIs(a, o, r)
  BY <1>1, RecCells
<1>3. o \in Nat /\ o + Cells <= Len(file) /\ r = [p \in 1 .. Cells |-> file[o + p]]
      /\ \A p \in 1 .. Cells : r[p] = file[o + p]
  BY <1>2 DEF RecIs
<1>4. \/ r[1].part = 1 /\ calls[n].owner = i
      \/ r[1].part \in 2 .. Cells /\ calls[n].other = i
  BY NamesAssumption DEF OwnRecord, Key
<1>a. \E e \in Nat : o = e * Cells
  <2>1. Recs \in Nat
    BY <1>1, ReadsAre
  <2>2. a - 1 \in Nat
    BY <2>1
  <2> QED BY <2>2 DEF Place
<1> HIDE DEF o
<1>5. o + 1 \in 1 .. Len(file) /\ r[1] = file[o + 1] /\ (o + 1) - 1 = o
  <2>1. Len(file) \in Nat /\ 1 \in 1 .. Cells
    BY <1>1
  <2>2. r[1] = file[o + 1]
    BY <1>3, <2>1
  <2>3. o + 1 \in 1 .. Len(file)
    <3>1. o \in Nat /\ o + Cells <= Len(file)
      BY <1>3
    <3> QED BY <1>1, <2>1, <3>1
  <2>4. (o + 1) - 1 = o
    BY <1>3
  <2> QED BY <2>2, <2>3, <2>4
<1>6. BlockAt(file, calls, o + 1)
  BY <1>5 DEF LogOK
<1>b. NoneTorn(calls, file[o + 1].of) => Multiple((o + 1) - file[o + 1].part)
  BY <1>5 DEF LogOK
<1>7. file[o + 1].of = n /\ file[o + 1].part = r[1].part
  BY <1>5 DEF Key
<1> DEFINE k == r[1].part
<1> HIDE DEF r, n, k
<1>8. n \in 1 .. Len(calls) /\ k <= calls[n].written
      /\ \A v \in 1 .. calls[n].written : file[(o + 1) - k + v] = [of |-> n, part |-> v]
  BY <1>6, <1>7 DEF BlockAt, k
<1>9. calls[n] \in Call /\ calls[n].written \in 0 .. Cells
  BY <1>8, CallFields DEF LogOK
<1>10. CASE k = 1 /\ calls[n].owner = i
  <2>0. calls[n].written \in 1 .. Cells
    BY <1>8, <1>9, <1>10
  <2>1. CASE calls[n].written = Cells
    <3>1. \A p \in 1 .. Cells : file[o + p] = [of |-> n, part |-> p]
      BY <1>5, <1>8, <1>10, <2>1
    <3>2. r = Genuine(n)
      BY <1>3, <3>1 DEF Genuine
    <3> QED BY <1>5, <1>8, <1>10, <2>1, <3>2 DEF OwnIs, o, r, n
  <2>2. CASE calls[n].written # Cells
    <3>1. calls[n].written \in 1 .. Cells - 1
      BY <1>1, <2>0, <2>2
    <3> QED BY <1>5, <1>8, <1>10, <3>1 DEF OwnIs, Torn, o, r, n
  <2> QED BY <2>1, <2>2
<1>11. CASE k \in 2 .. Cells /\ calls[n].other = i
  <2>1. ~NoneTornBefore(n)
    <3> SUFFICES ASSUME NoneTornBefore(n) PROVE FALSE
      OBVIOUS
    <3>1. NoneTorn(calls, n)
      BY DEF NoneTornBefore, NoneTorn, Torn
    <3>2. Multiple((o + 1) - k)
      BY <1>b, <1>7, <3>1 DEF k
    <3>3. PICK b \in Nat : (o + 1) - k = b * Cells
      BY <3>2 DEF Multiple
    <3>4. PICK e \in Nat : o = e * Cells
      BY <1>a
    <3> QED BY <1>1, <1>11, <3>3, <3>4, OutOfStep
  <2> QED BY <1>5, <1>8, <1>11, <2>1 DEF OwnIs, o, r, n
<1> QED BY <1>4, <1>10, <1>11 DEF k

\* Two records of an account start in two calls, in the order in which they were made: one call's cells
\* are too few for two.
LEMMA OwnRecordsInOrder ==
  ASSUME LogOK(file, calls), NEW i, NEW a \in 1 .. Recs, NEW b \in 1 .. Recs, a < b,
         OwnRecord(Rec(a), i), OwnRecord(Rec(b), i)
  PROVE  Key(Rec(a)) < Key(Rec(b))
<1> DEFINE p == Place(a) + 1
           q == Place(b) + 1
<1>1. Cells \in Nat /\ Cells > 0 /\ Recs \in Nat /\ Len(file) \in Nat
  <2>1. Len(file) \in Nat
    BY DEF LogOK
  <2> QED BY <2>1, ReadsAre, SizesAssumption
<1>2. /\ p \in 1 .. Len(file) /\ Rec(a)[1] = file[p]
      /\ q \in 1 .. Len(file) /\ Rec(b)[1] = file[q]
  BY OwnRecordIs
<1>3. Place(a) + Cells <= Place(b) /\ Place(a) \in Nat /\ Place(b) \in Nat
  <2> DEFINE k == b - a - 1
  <2>1. a - 1 \in Nat /\ k \in Nat /\ b - 1 = (a - 1) + k + 1
    BY <1>1
  <2> HIDE DEF k
  <2>2. (b - 1) * Cells = (a - 1) * Cells + k * Cells + Cells /\ k * Cells \in Nat
        /\ (a - 1) * Cells \in Nat
    BY <1>1, <2>1
  <2> QED BY <1>1, <2>2 DEF Place
<1>4. p \in Nat /\ q \in Nat /\ p + Cells <= q
  BY <1>1, <1>3
<1>5. Key(Rec(a)) = file[p].of /\ Key(Rec(b)) = file[q].of
  BY <1>2 DEF Key
<1> HIDE DEF p, q
<1>6. Before(file[p], file[q]) /\ BlockAt(file, calls, p) /\ BlockAt(file, calls, q)
  <2>1. p < q
    BY <1>1, <1>4
  <2>2. \A u \in 1 .. Len(file) : BlockAt(file, calls, u)
    BY DEF LogOK
  <2>3. \A u, v \in 1 .. Len(file) : u < v => Before(file[u], file[v])
    BY DEF LogOK
  <2>4. p \in 1 .. Len(file) /\ q \in 1 .. Len(file)
    BY <1>2
  <2>5. Before(file[p], file[q])
    BY <2>1, <2>3, <2>4
  <2> QED BY <2>2, <2>4, <2>5
<1>7. CASE file[p].of = file[q].of /\ file[p].part < file[q].part
  <2> DEFINE n == file[p].of
             k == file[p].part
             l == file[q].part
             x == calls[n].written
             z == p - k + l
  <2>1. file[p] \in [of : Nat, part : 1 .. Cells] /\ file[q] \in [of : Nat, part : 1 .. Cells]
    <3> DEFINE C == [of : Nat, part : 1 .. Cells]
    <3>1. file \in Seq(C)
      BY DEF LogOK
    <3> HIDE DEF C
    <3>2. file[p] \in C /\ file[q] \in C
      BY <1>2, <3>1
    <3> QED BY <3>2 DEF C
  <2>2. k \in 1 .. Cells /\ l \in 1 .. Cells /\ k < l /\ file[q] = [of |-> n, part |-> l]
    BY <1>7, <2>1
  <2>3. n \in 1 .. Len(calls) /\ l <= x /\ p - k + x <= Len(file) /\ k <= p
        /\ \A v \in 1 .. x : file[p - k + v] = [of |-> n, part |-> v]
    BY <1>6, <1>7 DEF BlockAt
  <2>4. x \in Nat
    <3>1. calls[n] \in Call
      BY <2>3 DEF LogOK
    <3> QED BY <3>1, CallFields
  <2> HIDE DEF n, k, l, x
  <2>5. l \in 1 .. x
    BY <2>2, <2>3, <2>4
  <2>6. file[z] = [of |-> n, part |-> l]
    BY <2>3, <2>5
  <2>7. z \in 1 .. Len(file) /\ z < q
    BY <1>1, <1>4, <2>2, <2>3, <2>4
  <2> HIDE DEF z
  <2>8. Before(file[z], file[q])
    BY <1>2, <2>7 DEF LogOK
  <2>9. ~Before([of |-> n, part |-> l], [of |-> n, part |-> l])
    <3>1. n \in Nat /\ l \in Nat
      <4>1. n \in Nat
        BY <2>1 DEF n
      <4> QED BY <2>2, <4>1
    <3> QED BY <3>1 DEF Before
  <2> QED BY <2>2, <2>6, <2>8, <2>9
<1> QED BY <1>5, <1>6, <1>7 DEF Before

\* What is read for an account.
ReadIs(t, i) ==
  /\ Len(t) \in Nat /\ DOMAIN t = 1 .. Len(t)
  /\ \A l \in 1 .. Len(t) : OwnIs(t[l], i)
  /\ \A l, m \in 1 .. Len(t) : l < m => Key(t[l]) < Key(t[m])
  /\ \A n \in 1 .. Len(calls) :
       calls[n].owner = i /\ calls[n].written = Cells /\ NoneTornBefore(n)
       => \E l \in 1 .. Len(t) : t[l] = Genuine(n) /\ Key(t[l]) = n

\* A whole record behind no torn one is read as it was written.
LEMMA WholeIsRead ==
  ASSUME LogOK(file, calls), NEW n \in 1 .. Len(calls), calls[n].written = Cells, NoneTornBefore(n)
  PROVE  \E a \in 1 .. Recs : Rec(a) = Genuine(n) /\ OwnRecord(Rec(a), calls[n].owner)
<1>1. Cells \in Nat /\ Cells > 0 /\ file \in Seq([of : Nat, part : 1 .. Cells]) /\ Len(file) \in Nat
  BY SizesAssumption DEF LogOK
<1>2. PICK p \in 1 .. Len(file) : file[p] = [of |-> n, part |-> 1]
  BY <1>1 DEF LogOK
<1>3. NoneTorn(calls, file[p].of) /\ BlockAt(file, calls, p) /\ file[p].of = n /\ file[p].part = 1
  BY <1>2 DEF LogOK, NoneTorn, NoneTornBefore, Torn
<1>4. PICK k \in Nat : p - 1 = k * Cells
  BY <1>2, <1>3 DEF LogOK, Multiple
<1>5. p - 1 + Cells <= Len(file) /\ \A v \in 1 .. Cells : file[p - 1 + v] = [of |-> n, part |-> v]
  BY <1>3 DEF BlockAt
<1> DEFINE a == k + 1
<1>6. a \in Nat \ {0} /\ Place(a) = p - 1
  BY <1>4 DEF Place
<1> HIDE DEF a
<1>7. a \in 1 .. Recs
  BY <1>1, <1>5, <1>6, RecFacts
<1>8. RecIs(a, p - 1, Rec(a))
  BY <1>1, <1>6, <1>7, RecCells
<1>9. Rec(a) = Genuine(n)
  BY <1>5, <1>8 DEF RecIs, Genuine
<1>10. Rec(a)[1] = [of |-> n, part |-> 1]
  BY <1>1, <1>9 DEF Genuine
<1>11. OwnRecord(Rec(a), calls[n].owner)
  BY <1>10 DEF OwnRecord
<1> QED BY <1>7, <1>9, <1>11

\* The call a genuine record is of.
LEMMA GenuineKey ==
  ASSUME NEW n
  PROVE  Key(Genuine(n)) = n
BY SizesAssumption DEF Key, Genuine

\* What is read for an account, of any log: at most one record for each call, in order, and every whole
\* one that no torn one is before.
LEMMA AllForReads ==
  ASSUME LogOK(file, calls), NEW i
  PROVE  ReadIs(AllFor(i), i)
<1> DEFINE t == AllFor(i)
<1>1. Len(file) \in Nat
  BY DEF LogOK
<1>2. AllForIs(i, t)
  BY <1>1, AllForCollects
<1> HIDE DEF t
<1>3. \A l \in 1 .. Len(t) : OwnIs(t[l], i)
  <2> SUFFICES ASSUME NEW l \in 1 .. Len(t) PROVE OwnIs(t[l], i)
    OBVIOUS
  <2>1. PICK a \in 1 .. Recs : t[l] = Rec(a)
    BY <1>2 DEF AllForIs
  <2>2. OwnRecord(Rec(a), i)
    BY <1>2, <2>1 DEF AllForIs
  <2>3. OwnIs(Rec(a), i)
    BY <2>2, OwnRecordIs
  <2> QED BY <2>1, <2>3
<1>4. \A l, m \in 1 .. Len(t) : l < m => Key(t[l]) < Key(t[m])
  <2> SUFFICES ASSUME NEW l \in 1 .. Len(t), NEW m \in 1 .. Len(t), l < m PROVE Key(t[l]) < Key(t[m])
    OBVIOUS
  <2>1. PICK a \in 1 .. Recs, b \in 1 .. Recs : a < b /\ t[l] = Rec(a) /\ t[m] = Rec(b)
    BY <1>2 DEF AllForIs
  <2>2. OwnRecord(Rec(a), i) /\ OwnRecord(Rec(b), i)
    BY <1>2, <2>1 DEF AllForIs
  <2>3. Key(Rec(a)) < Key(Rec(b))
    BY <2>1, <2>2, OwnRecordsInOrder
  <2> QED BY <2>1, <2>3
<1>5. ASSUME NEW n \in 1 .. Len(calls), calls[n].owner = i, calls[n].written = Cells, NoneTornBefore(n)
      PROVE  \E l \in 1 .. Len(t) : t[l] = Genuine(n) /\ Key(t[l]) = n
  <2>1. PICK a \in 1 .. Recs : Rec(a) = Genuine(n) /\ OwnRecord(Rec(a), i)
    BY <1>5, WholeIsRead
  <2>2. PICK l \in 1 .. Len(t) : t[l] = Rec(a)
    BY <1>2, <2>1 DEF AllForIs
  <2> QED BY <2>1, <2>2, GenuineKey
<1>6. Len(t) \in Nat /\ DOMAIN t = 1 .. Len(t)
  BY <1>2 DEF AllForIs
<1> QED BY <1>3, <1>4, <1>5, <1>6 DEF ReadIs, t

-----------------------------------------------------------------------------
(* The properties of the statements, of any log *)

\* StatementIsNewest, of any log.
LEMMA NewestOfLog ==
  ASSUME LogOK(file, calls)
  PROVE  StatementIsNewest
<1>1. Len(file) \in Nat
  BY DEF LogOK
<1> SUFFICES ASSUME NEW i \in Owners, NEW all, all = AllFor(i), NEW lines, lines = MiniStatement(i)
             PROVE  /\ Len(lines) = IF Len(all) > MaxLines THEN MaxLines ELSE Len(all)
                    /\ \A k \in DOMAIN lines : lines[k] = all[Len(all) - Len(lines) + k]
  BY DEF StatementIsNewest
<1> QED BY <1>1, MiniIsEnd

\* MisreadOnlyBehindTorn, of any log.
LEMMA MisreadOfLog ==
  ASSUME LogOK(file, calls)
  PROVE  MisreadOnlyBehindTorn
<1> SUFFICES ASSUME NEW i, NEW all, all = AllFor(i)
             PROVE  /\ \A k \in DOMAIN all :
                         \/ all[k] = Genuine(all[k][1].of)
                         \/ Torn(all[k][1].of) /\ calls[all[k][1].of].owner = i
                         \/ ~NoneTornBefore(all[k][1].of) /\ calls[all[k][1].of].other = i
                    /\ \A k, l \in DOMAIN all : k < l => all[k][1].of < all[l][1].of
  BY DEF MisreadOnlyBehindTorn
<1>1. ReadIs(all, i)
  BY AllForReads
<1> QED BY <1>1 DEF ReadIs, OwnIs, Key

\* The calls whose records are whole and behind no torn one, in their order.
EarlyIs(e, i) ==
  /\ Len(e) \in Nat /\ DOMAIN e = 1 .. Len(e)
  /\ \A l \in 1 .. Len(e) : /\ e[l] \in 1 .. Len(calls) /\ calls[e[l]].owner = i
                            /\ calls[e[l]].written = Cells /\ NoneTornBefore(e[l])
  /\ \A l, m \in 1 .. Len(e) : l < m => e[l] < e[m]
  /\ \A n \in 1 .. Len(calls) :
       calls[n].owner = i /\ calls[n].written = Cells /\ NoneTornBefore(n)
       => \E l \in 1 .. Len(e) : e[l] = n

\* What the loop over the calls collects is those calls.
LEMMA EarlyCollects ==
  ASSUME Len(calls) \in Nat, DOMAIN calls = 1 .. Len(calls), NEW i, NEW S,
         S = {n \in {m \in DOMAIN calls : calls[m].owner = i /\ calls[m].written = Cells} : NoneTornBefore(n)}
  PROVE  EarlyIs(Those([n \in DOMAIN calls |-> n], S), i)
<1> DEFINE s == [n \in DOMAIN calls |-> n]
           e == Those(s, S)
           L == Len(calls)
<1>1. Len(s) = L /\ L \in Nat /\ \A a \in 1 .. L : s[a] = a
  OBVIOUS
<1>2. \A n : n \in S <=> /\ n \in 1 .. L /\ calls[n].owner = i
                        /\ calls[n].written = Cells /\ NoneTornBefore(n)
  OBVIOUS
<1> HIDE DEF s, L
<1>3. Collected(e, s, S, L)
  BY <1>1, ThoseCollects
<1> HIDE DEF e
<1>4. /\ e \in Seq(S)
      /\ \A l, m \in 1 .. Len(e) : l < m => \E a, b \in 1 .. L : a < b /\ e[l] = s[a] /\ e[m] = s[b]
      /\ \A a \in 1 .. L : s[a] \in S => \E l \in 1 .. Len(e) : e[l] = s[a]
  BY <1>3 DEF Collected
<1>5. Len(e) \in Nat /\ DOMAIN e = 1 .. Len(e) /\ \A l \in 1 .. Len(e) : e[l] \in S
  BY <1>4
<1>6. \A l, m \in 1 .. Len(e) : l < m => e[l] < e[m]
  <2> SUFFICES ASSUME NEW l \in 1 .. Len(e), NEW m \in 1 .. Len(e), l < m PROVE e[l] < e[m]
    OBVIOUS
  <2>1. PICK a \in 1 .. L, b \in 1 .. L : a < b /\ e[l] = s[a] /\ e[m] = s[b]
    BY <1>4
  <2> QED BY <1>1, <2>1
<1>7. \A n \in 1 .. L : n \in S => \E l \in 1 .. Len(e) : e[l] = n
  BY <1>1, <1>4
<1> QED BY <1>2, <1>5, <1>6, <1>7 DEF EarlyIs, e, s, L

Matches(e, t) ==
  /\ Len(e) <= Len(t)
  /\ \A k \in 1 .. Len(e) : t[k] = Genuine(e[k])
  /\ NoneTornBefore(Len(calls) + 1) => Len(e) = Len(t)

\* The genuine records of those calls are the first that are read, and all of them when none is torn.
LEMMA WrittenOfLog ==
  ASSUME LogOK(file, calls), NEW i, NEW e, EarlyIs(e, i), NEW t, ReadIs(t, i)
  PROVE  Matches(e, t)
<1> DEFINE N == Len(calls)
           E == Len(e)
           T == Len(t)
           InE(n) == calls[n].owner = i /\ calls[n].written = Cells /\ NoneTornBefore(n)
<1>1. /\ E \in Nat
      /\ \A l \in 1 .. E : e[l] \in 1 .. N /\ InE(e[l])
      /\ \A l, m \in 1 .. E : l < m => e[l] < e[m]
      /\ \A n \in 1 .. N : InE(n) => \E l \in 1 .. E : e[l] = n
  BY DEF EarlyIs
<1>2. /\ T \in Nat
      /\ \A l \in 1 .. T : OwnIs(t[l], i)
      /\ \A l, m \in 1 .. T : l < m => Key(t[l]) < Key(t[m])
      /\ \A n \in 1 .. N : InE(n) => \E l \in 1 .. T : t[l] = Genuine(n) /\ Key(t[l]) = n
  BY DEF ReadIs
<1>3. N \in Nat /\ \A n \in 1 .. N : calls[n] \in Call
  BY DEF LogOK
<1>4. \A l \in 1 .. T :
        /\ Key(t[l]) \in 1 .. N
        /\ NoneTornBefore(Key(t[l])) =>
             /\ calls[Key(t[l])].owner = i
             /\ calls[Key(t[l])].written = Cells \/ Torn(Key(t[l]))
  <2> SUFFICES ASSUME NEW l \in 1 .. T
               PROVE  /\ Key(t[l]) \in 1 .. N
                      /\ NoneTornBefore(Key(t[l])) =>
                           /\ calls[Key(t[l])].owner = i
                           /\ calls[Key(t[l])].written = Cells \/ Torn(Key(t[l]))
    OBVIOUS
  <2>1. OwnIs(t[l], i)
    BY <1>2
  <2> QED BY <2>1 DEF OwnIs
<1> HIDE DEF N, E, T
\* Of a record that is read, and is of a call behind no torn one, the call is one of those.
<1>5. ASSUME NEW l \in 1 .. T, NEW n, n = Key(t[l]), ~Torn(n), NoneTornBefore(n)
      PROVE  n \in 1 .. N /\ InE(n)
  <2>1. Key(t[l]) \in 1 .. N /\ calls[Key(t[l])].owner = i
        /\ (calls[Key(t[l])].written = Cells \/ Torn(Key(t[l])))
    BY <1>4, <1>5
  <2> QED BY <1>5, <2>1
<1> DEFINE Good(k) == k <= T /\ t[k] = Genuine(e[k]) /\ Key(t[k]) = e[k]
           B == {k \in 1 .. E : ~Good(k)}
<1>6. B = {}
  <2> SUFFICES ASSUME B # {} PROVE FALSE
    OBVIOUS
  <2>1. B \in SUBSET Nat
    BY <1>1
  <2> HIDE DEF B
  <2>2. PICK k \in B : \A j \in B : k <= j
    BY <2>1, LeastNumber
  <2>3. k \in 1 .. E /\ ~Good(k) /\ \A j \in 1 .. E : j < k => Good(j)
    <3>1. k \in 1 .. E /\ ~Good(k)
      BY <2>2 DEF B
    <3>2. ASSUME NEW j \in 1 .. E, j < k PROVE j \notin B
      BY <1>1, <2>2, <3>1, <3>2
    <3> QED BY <3>1, <3>2 DEF B
  <2> DEFINE n == e[k]
  <2>4. n \in 1 .. N /\ InE(n)
    BY <1>1, <2>3
  <2>5. PICK l \in 1 .. T : t[l] = Genuine(n) /\ Key(t[l]) = n
    BY <1>2, <2>4
  <2>6. ~(l < k)
    <3> SUFFICES ASSUME l < k PROVE FALSE
      OBVIOUS
    <3>1. l \in 1 .. E
      BY <1>1, <1>2, <2>3
    <3>2. Key(t[l]) = e[l] /\ e[l] < e[k]
      BY <1>1, <2>3, <3>1
    <3> QED BY <1>3, <2>4, <2>5, <3>2
  <2>7. l # k
    <3>1. l <= T
      BY <1>2
    <3> QED BY <2>3, <2>5, <3>1
  <2>8. k \in 1 .. T /\ k < l
    BY <1>1, <1>2, <2>3, <2>6, <2>7
  <2> DEFINE a == Key(t[k])
  <2>9. a \in 1 .. N /\ a < n
    BY <1>2, <1>4, <2>5, <2>8
  <2> HIDE DEF n, a
  <2>10. ~Torn(a) /\ NoneTornBefore(a)
    <3>1. a \in 1 .. n - 1 /\ \A m \in 1 .. a - 1 : m \in 1 .. n - 1
      BY <1>3, <2>4, <2>9
    <3> QED BY <2>4, <3>1 DEF NoneTornBefore
  <2>11. InE(a)
    BY <1>5, <2>8, <2>10 DEF a
  <2>12. PICK j \in 1 .. E : e[j] = a
    BY <1>1, <2>9, <2>11
  <2>13. j < k
    <3> SUFFICES ASSUME ~(j < k) PROVE FALSE
      OBVIOUS
    <3>1. j = k \/ k < j
      BY <1>1, <2>3
    <3>2. e[k] = e[j] \/ e[k] < e[j]
      BY <1>1, <2>3, <3>1
    <3> QED BY <1>3, <2>4, <2>9, <2>12, <3>2 DEF n
  <2>14. Key(t[j]) = a /\ j \in 1 .. T
    BY <1>1, <1>2, <2>3, <2>12, <2>13
  <2>15. Key(t[j]) < Key(t[k])
    BY <1>2, <2>8, <2>13, <2>14
  <2> QED BY <1>3, <2>9, <2>14, <2>15 DEF a
<1>7. \A k \in 1 .. E : Good(k)
  BY <1>6
<1> HIDE DEF B
<1>8. E <= T
  <2>1. CASE E = 0
    BY <1>2, <2>1
  <2>2. CASE E # 0
    <3>1. E \in 1 .. E
      BY <1>1, <2>2
    <3> QED BY <1>7, <3>1
  <2> QED BY <2>1, <2>2
<1>9. ASSUME NoneTornBefore(N + 1) PROVE E = T
  <2> SUFFICES ASSUME E # T PROVE FALSE
    OBVIOUS
  <2> DEFINE k == E + 1
  <2>1. k \in 1 .. T /\ \A j \in 1 .. E : j < k /\ j \in 1 .. T
    BY <1>1, <1>2, <1>8
  <2> HIDE DEF k
  <2> DEFINE a == Key(t[k])
  <2>2. a \in 1 .. N
    BY <1>4, <2>1
  <2> HIDE DEF a
  <2>3. ~Torn(a) /\ NoneTornBefore(a)
    <3>1. a \in 1 .. (N + 1) - 1 /\ \A m \in 1 .. a - 1 : m \in 1 .. (N + 1) - 1
      BY <1>3, <2>2
    <3> QED BY <1>9, <3>1 DEF NoneTornBefore
  <2>4. InE(a)
    BY <1>5, <2>1, <2>3 DEF a
  <2>5. PICK j \in 1 .. E : e[j] = a
    BY <1>1, <2>2, <2>4
  <2>6. Key(t[j]) = a /\ Key(t[j]) < Key(t[k])
    BY <1>2, <1>7, <2>1, <2>5
  <2> QED BY <1>3, <2>2, <2>6 DEF a
<1> QED BY <1>7, <1>8, <1>9 DEF Matches, E, T, N

\* A prefix, by its members.
LEMMA PrefixOf ==
  ASSUME NEW R, NEW s \in Seq(R), NEW t \in Seq(R), Len(s) <= Len(t),
         \A k \in 1 .. Len(s) : s[k] = t[k]
  PROVE  IsPrefix(s, t) /\ (Len(s) = Len(t) => t = s)
BY DEF IsPrefix

\* A function on 1 .. L whose values are in R is a sequence of R.
LEMMA SequenceOf ==
  ASSUME NEW R, NEW L \in Nat, NEW f \in [1 .. L -> R]
  PROVE  f \in Seq(R) /\ Len(f) = L
OBVIOUS

\* Records that match from the first on are a prefix.
LEMMA MatchIsPrefix ==
  ASSUME NEW R, NEW all \in Seq(R), NEW e, Matches(e, all), Len(e) \in Nat, DOMAIN e = 1 .. Len(e),
         NEW read, read = [k \in DOMAIN e |-> Genuine(e[k])]
  PROVE  IsPrefix(read, all) /\ (NoneTornBefore(Len(calls) + 1) => all = read)
<1>1. /\ Len(e) <= Len(all)
      /\ \A k \in 1 .. Len(e) : all[k] = Genuine(e[k])
      /\ NoneTornBefore(Len(calls) + 1) => Len(e) = Len(all)
  BY DEF Matches
<1> DEFINE G(k) == Genuine(e[k])
           L == Len(e)
<1>2. read = [k \in 1 .. L |-> G(k)] /\ L \in Nat /\ L <= Len(all) /\ \A k \in 1 .. L : all[k] = G(k)
  BY <1>1
<1> HIDE DEF G, L
<1>3. \A k \in 1 .. L : G(k) \in R
  <2> SUFFICES ASSUME NEW k \in 1 .. L PROVE G(k) \in R
    OBVIOUS
  <2>1. k \in 1 .. Len(all)
    BY <1>2
  <2> QED BY <1>2, <2>1
<1>4. read \in Seq(R) /\ Len(read) = L /\ \A k \in 1 .. L : read[k] = all[k]
  <2> DEFINE f == [k \in 1 .. L |-> G(k)]
  <2>1. f \in [1 .. L -> R] /\ \A k \in 1 .. L : f[k] = all[k]
    BY <1>2, <1>3
  <2>2. f = read
    BY <1>2
  <2> HIDE DEF f
  <2>3. f \in Seq(R) /\ Len(f) = L
    BY <1>2, <2>1, SequenceOf
  <2> QED BY <2>1, <2>2, <2>3
<1>5. IsPrefix(read, all) /\ (Len(read) = Len(all) => all = read)
  BY <1>2, <1>4, PrefixOf
<1> QED BY <1>1, <1>4, <1>5 DEF L

\* WrittenIsRead, of any log.
LEMMA WrittenIsReadOfLog ==
  ASSUME LogOK(file, calls)
  PROVE  WrittenIsRead
<1>1. Len(calls) \in Nat /\ DOMAIN calls = 1 .. Len(calls) /\ Len(file) \in Nat
  BY DEF LogOK
<1> SUFFICES ASSUME NEW i \in Owners,
                    NEW S, S = {n \in {m \in DOMAIN calls : calls[m].owner = i /\ calls[m].written = Cells} :
                                  NoneTornBefore(n)},
                    NEW e, e = Those([n \in DOMAIN calls |-> n], S),
                    NEW read, read = [k \in DOMAIN e |-> Genuine(e[k])],
                    NEW all, all = AllFor(i)
             PROVE  IsPrefix(read, all) /\ (NoneTornBefore(Len(calls) + 1) => all = read)
  BY DEF WrittenIsRead
<1>2. EarlyIs(e, i)
  BY <1>1, EarlyCollects
<1>3. ReadIs(all, i)
  BY AllForReads
<1>4. Matches(e, all)
  BY <1>2, <1>3, WrittenOfLog
<1>5. Len(e) \in Nat /\ DOMAIN e = 1 .. Len(e)
  BY <1>2 DEF EarlyIs
<1> DEFINE R == {Rec(a) : a \in 1 .. Recs}
<1>6. all \in Seq(R)
  <2>1. AllForIs(i, all)
    BY <1>1, AllForCollects
  <2> QED BY <2>1 DEF AllForIs
<1> HIDE DEF R
<1> QED BY <1>4, <1>5, <1>6, MatchIsPrefix

-----------------------------------------------------------------------------
(* The two calls of a transfer *)

\* A call that names an account is next to the call of that account.
PairsOK(c) ==
  \A m \in 1 .. Len(c) : c[m].other \in Id =>
    \E k \in {m - 1, m + 1} : k \in 1 .. Len(c) /\ c[k].owner = c[m].other

\* A call that names none leaves that so.
LEMMA PairsAppend ==
  ASSUME NEW c \in Seq(Call), PairsOK(c), NEW call, call.other = NoOne
  PROVE  PairsOK(Append(c, call))
<1> DEFINE d == Append(c, call)
           L == Len(c)
<1>1. L \in Nat /\ Len(d) = L + 1 /\ d[L + 1] = call /\ \A m \in 1 .. L : d[m] = c[m]
  OBVIOUS
<1> HIDE DEF d
<1> SUFFICES ASSUME NEW m \in 1 .. Len(d), d[m].other \in Id
             PROVE  \E k \in {m - 1, m + 1} : k \in 1 .. Len(d) /\ d[k].owner = d[m].other
  BY DEF PairsOK, d
<1>2. m \in 1 .. L
  <2> SUFFICES ASSUME m = L + 1 PROVE FALSE
    BY <1>1
  <2> QED BY <1>1, NoOneAssumption
<1>3. PICK k \in {m - 1, m + 1} : k \in 1 .. L /\ c[k].owner = c[m].other
  BY <1>1, <1>2 DEF PairsOK
<1>4. k \in 1 .. Len(d)
  BY <1>1, <1>3
<1> QED BY <1>1, <1>2, <1>3, <1>4

\* Nor do two calls that name each other's accounts.
LEMMA PairsTwo ==
  ASSUME NEW c \in Seq(Call), PairsOK(c), NEW a, NEW b, a.other = b.owner, b.other = a.owner
  PROVE  PairsOK(c \o <<a, b>>)
<1> DEFINE d == c \o <<a, b>>
           L == Len(c)
<1>1. L \in Nat /\ Len(d) = L + 2 /\ d[L + 1] = a /\ d[L + 2] = b /\ \A m \in 1 .. L : d[m] = c[m]
  <2>1. d = Append(Append(c, a), b)
    OBVIOUS
  <2> QED BY <2>1
<1> HIDE DEF d
<1> SUFFICES ASSUME NEW m \in 1 .. Len(d), d[m].other \in Id
             PROVE  \E k \in {m - 1, m + 1} : k \in 1 .. Len(d) /\ d[k].owner = d[m].other
  BY DEF PairsOK, d
<1>2. CASE m \in 1 .. L
  <2>1. PICK k \in {m - 1, m + 1} : k \in 1 .. L /\ c[k].owner = c[m].other
    BY <1>1, <1>2 DEF PairsOK
  <2>2. k \in 1 .. Len(d)
    BY <1>1, <2>1
  <2> QED BY <1>1, <1>2, <2>1, <2>2
<1>3. CASE m = L + 1
  <2>1. m + 1 \in 1 .. Len(d) /\ m + 1 = L + 2
    BY <1>1, <1>3
  <2> QED BY <1>1, <1>3, <2>1
<1>4. CASE m = L + 2
  <2>1. m - 1 \in 1 .. Len(d) /\ m - 1 = L + 1
    BY <1>1, <1>4
  <2> QED BY <1>1, <1>4, <2>1
<1> QED BY <1>1, <1>2, <1>3, <1>4

-----------------------------------------------------------------------------
(* The balances: the last line of a statement *)

\* The latest call for i since the s-th is of the balance b.
Latest(c, i, s, b) ==
  \E n \in s + 1 .. Len(c) : /\ c[n].owner = i /\ c[n].after = b
                             /\ \A m \in n + 1 .. Len(c) : c[m].owner # i

\* A call for another account changes nothing about the latest call for i.
LEMMA LatestKept ==
  ASSUME NEW c \in Seq(Call), NEW i, NEW s \in Nat, NEW b, Latest(c, i, s, b),
         NEW call \in Call, call.owner # i
  PROVE  Latest(Append(c, call), i, s, b)
<1>1. PICK n \in s + 1 .. Len(c) : /\ c[n].owner = i /\ c[n].after = b
                                   /\ \A m \in n + 1 .. Len(c) : c[m].owner # i
  BY DEF Latest
<1> DEFINE d == Append(c, call)
           L == Len(c)
<1>2. L \in Nat /\ Len(d) = L + 1 /\ d[L + 1] = call /\ \A m \in 1 .. L : d[m] = c[m]
  OBVIOUS
<1>3. \A m \in n + 1 .. L : c[m].owner # i
  BY <1>1
<1>4. n \in s + 1 .. L
  OBVIOUS
<1> HIDE DEF d, L
<1>5. n \in 1 .. L /\ n \in s + 1 .. Len(d) /\ d[n] = c[n]
  BY <1>2, <1>4
<1>6. ASSUME NEW m \in n + 1 .. Len(d) PROVE d[m].owner # i
  <2>1. CASE m = L + 1
    BY <1>2, <2>1
  <2>2. CASE m # L + 1
    <3>1. m \in n + 1 .. L /\ m \in 1 .. L
      BY <1>2, <1>4, <1>6, <2>2
    <3> QED BY <1>2, <1>3, <3>1
  <2> QED BY <2>1, <2>2
<1> QED BY <1>1, <1>5, <1>6 DEF Latest, d

\* A call for i is the latest one.
LEMMA LatestMade ==
  ASSUME NEW c \in Seq(Call), NEW s \in Nat, s <= Len(c), NEW call \in Call
  PROVE  Latest(Append(c, call), call.owner, s, call.after)
<1> DEFINE d == Append(c, call)
           L == Len(c)
<1>1. L \in Nat /\ Len(d) = L + 1 /\ d[L + 1] = call
  OBVIOUS
<1> HIDE DEF d, L
<1>2. L + 1 \in s + 1 .. Len(d) /\ \A m \in (L + 1) + 1 .. Len(d) : FALSE
  BY <1>1 DEF L
<1> QED BY <1>1, <1>2 DEF Latest, d

Balances == \A i \in DOMAIN accounts : Latest(calls, i, accounts[i].since, accounts[i].balance)

\* LastLineIsBalance, of any log and balances.
LEMMA LastLineOfLog ==
  ASSUME LogOK(file, calls), PairsOK(calls), Balances, DOMAIN accounts \subseteq Id,
         \A i \in DOMAIN accounts : accounts[i].since \in Nat
  PROVE  LastLineIsBalance
<1>1. Len(calls) \in Nat /\ DOMAIN calls = 1 .. Len(calls) /\ Len(file) \in Nat
  BY DEF LogOK
<1> SUFFICES ASSUME NEW i \in DOMAIN accounts, NEW n \in CallsOf(i), \A m \in CallsOf(i) : m <= n,
                    calls[n].written = Cells, NoneTornBefore(n), NEW lines, lines = MiniStatement(i)
             PROVE  /\ Last(lines) = Genuine(n)
                    /\ calls[Last(lines)[1].of].after = accounts[i].balance
  BY DEF LastLineIsBalance
<1> DEFINE since == accounts[i].since
<1>2. since \in Nat
  OBVIOUS
<1>3. \A m : m \in CallsOf(i) <=> m \in 1 .. Len(calls) /\ m > since /\ calls[m].owner = i
  BY <1>1 DEF CallsOf
<1>4. n \in 1 .. Len(calls) /\ n > since /\ calls[n].owner = i
  BY <1>3
<1>5. calls[n].after = accounts[i].balance
  <2>1. Latest(calls, i, since, accounts[i].balance)
    BY DEF Balances
  <2> HIDE DEF since
  <2>2. PICK m \in since + 1 .. Len(calls) :
               /\ calls[m].owner = i /\ calls[m].after = accounts[i].balance
               /\ \A k \in m + 1 .. Len(calls) : calls[k].owner # i
    BY <2>1 DEF Latest
  <2>3. m \in CallsOf(i)
    BY <1>1, <1>2, <1>3, <2>2
  <2>4. m <= n
    BY <2>3
  <2>5. ~(m < n)
    BY <1>1, <1>2, <1>4, <2>2
  <2> QED BY <1>1, <1>2, <1>4, <2>2, <2>4, <2>5
<1> HIDE DEF since
<1> DEFINE t == AllFor(i)
<1>6. ReadIs(t, i)
  BY AllForReads
<1>7. /\ Len(lines) = IF Len(t) > MaxLines THEN MaxLines ELSE Len(t)
      /\ \A k \in DOMAIN lines : lines[k] = t[Len(t) - Len(lines) + k]
  BY <1>1, MiniIsEnd
<1>8. DOMAIN lines = 1 .. Len(lines)
  BY <1>1, MiniIsEnd
<1> HIDE DEF t
<1> DEFINE T == Len(t)
<1>9. /\ T \in Nat
      /\ \A l \in 1 .. T : OwnIs(t[l], i)
      /\ \A l, m \in 1 .. T : l < m => Key(t[l]) < Key(t[m])
  BY <1>6 DEF ReadIs
<1>10. PICK l \in 1 .. T : t[l] = Genuine(n) /\ Key(t[l]) = n
  BY <1>4, <1>6 DEF ReadIs
<1>11. l = T
  <2> SUFFICES ASSUME l # T PROVE FALSE
    OBVIOUS
  <2>1. l < T /\ T \in 1 .. T
    BY <1>9
  <2>2. n < Key(t[T])
    BY <1>9, <1>10, <2>1
  <2>3. OwnIs(t[T], i)
    BY <1>9, <2>1
  <2> DEFINE k == Key(t[T])
  <2>4. k \in 1 .. Len(calls) /\ n < k
        /\ (calls[k].owner = i \/ (calls[k].other = i /\ ~NoneTornBefore(k)))
    BY <2>2, <2>3 DEF OwnIs
  <2> HIDE DEF k
  <2>5. \A m \in 1 .. Len(calls) : n < m => calls[m].owner # i
    <3> SUFFICES ASSUME NEW m \in 1 .. Len(calls), n < m, calls[m].owner = i PROVE FALSE
      OBVIOUS
    <3>1. m \in CallsOf(i)
      BY <1>1, <1>2, <1>3, <1>4
    <3>2. m <= n
      BY <3>1
    <3> QED BY <1>1, <1>4, <3>2
  <2>6. calls[k].other = i /\ i \in Id /\ ~NoneTornBefore(k)
    BY <2>4, <2>5
  <2>7. PICK m \in {k - 1, k + 1} : m \in 1 .. Len(calls) /\ calls[m].owner = i
    BY <2>4, <2>6 DEF PairsOK
  <2>8. k = n + 1
    BY <1>1, <1>4, <2>4, <2>5, <2>7
  <2>9. ~Torn(n)
    BY <1>4, SizesAssumption DEF Torn
  <2>10. NoneTornBefore(k)
    <3>1. \A u \in 1 .. k - 1 : u \in 1 .. n - 1 \/ u = n
      BY <1>4, <2>8
    <3> QED BY <2>9, <3>1 DEF NoneTornBefore
  <2> QED BY <2>6, <2>10
<1>12. T # 0 /\ Len(lines) \in 1 .. T
  BY <1>7, <1>9, <1>10, SizesAssumption
<1>13. Len(lines) \in DOMAIN lines
  BY <1>8, <1>12
<1>14. lines[Len(lines)] = t[T - Len(lines) + Len(lines)]
  BY <1>7, <1>13
<1>15. lines[Len(lines)] = Genuine(n)
  BY <1>9, <1>10, <1>11, <1>12, <1>14
<1>16. Last(lines) = Genuine(n)
  BY <1>15 DEF Last
<1>17. Last(lines)[1].of = n
  BY <1>16, GenuineKey DEF Key
<1> QED BY <1>5, <1>16, <1>17

-----------------------------------------------------------------------------
(* The transaction ids *)

\* The ids of a run are behind its counter, and no two of them are the same.
TxnIdsOK(c, r, k) ==
  /\ \A n \in 1 .. Len(c) : c[n].run <= r /\ (c[n].run = r => c[n].txn[2] < k)
  /\ \A m, n \in 1 .. Len(c) : m # n /\ c[m].run = c[n].run => c[m].txn[2] # c[n].txn[2]

\* A call with the next transaction id keeps the ids apart.
LEMMA TxnIdsAppend ==
  ASSUME NEW c \in Seq(Call), NEW r \in Nat, NEW k \in Nat, TxnIdsOK(c, r, k),
         NEW call \in Call, call.run = r, call.txn[2] = k
  PROVE  TxnIdsOK(Append(c, call), r, k + 1)
<1> DEFINE d == Append(c, call)
           L == Len(c)
<1>1. L \in Nat /\ Len(d) = L + 1 /\ d[L + 1] = call /\ \A m \in 1 .. L : d[m] = c[m]
  OBVIOUS
<1>2. \A m \in 1 .. L : c[m] \in Call
  OBVIOUS
<1>3. \A m \in 1 .. L : c[m].run \in Nat /\ c[m].txn[2] \in Nat
  BY <1>2 DEF Call, TxnId
<1>4. /\ \A n \in 1 .. L : c[n].run <= r /\ (c[n].run = r => c[n].txn[2] < k)
      /\ \A m, n \in 1 .. L : m # n /\ c[m].run = c[n].run => c[m].txn[2] # c[n].txn[2]
  BY DEF TxnIdsOK
<1> HIDE DEF d, L
<1>5. \A n \in 1 .. Len(d) : n \in 1 .. L \/ n = L + 1
  BY <1>1
<1>6. ASSUME NEW n \in 1 .. Len(d)
      PROVE  d[n].run <= r /\ (d[n].run = r => d[n].txn[2] < k + 1)
  <2>1. CASE n = L + 1
    BY <1>1, <2>1
  <2>2. CASE n \in 1 .. L
    BY <1>1, <1>3, <1>4, <2>2
  <2> QED BY <1>5, <2>1, <2>2
<1>7. ASSUME NEW n \in 1 .. L, c[n].run = r PROVE c[n].txn[2] # k
  BY <1>3, <1>4, <1>7
<1>8. ASSUME NEW m \in 1 .. Len(d), NEW n \in 1 .. Len(d), m # n, d[m].run = d[n].run
      PROVE  d[m].txn[2] # d[n].txn[2]
  <2>1. CASE m = L + 1
    <3>1. n \in 1 .. L
      BY <1>5, <1>8, <2>1
    <3>2. d[m] = call /\ d[n] = c[n]
      BY <1>1, <2>1, <3>1
    <3> QED BY <1>7, <1>8, <3>1, <3>2
  <2>2. CASE n = L + 1
    <3>1. m \in 1 .. L
      BY <1>5, <1>8, <2>2
    <3>2. d[n] = call /\ d[m] = c[m]
      BY <1>1, <2>2, <3>1
    <3> QED BY <1>7, <1>8, <3>1, <3>2
  <2>3. CASE m \in 1 .. L /\ n \in 1 .. L
    BY <1>1, <1>4, <1>8, <2>3
  <2> QED BY <1>5, <2>1, <2>2, <2>3
<1> QED BY <1>6, <1>8 DEF TxnIdsOK, d

\* TxnIdsRepeatAcrossRunsOnly, of any calls with such ids.
LEMMA TxnIdsOfLog ==
  ASSUME DOMAIN calls = 1 .. Len(calls), TxnIdsOK(calls, run, txnSeq)
  PROVE  TxnIdsRepeatAcrossRunsOnly
BY DEF TxnIdsRepeatAcrossRunsOnly, TxnIdsOK

-----------------------------------------------------------------------------
(* The account ids *)

IsDrawing(x) == /\ x.at \in Nat /\ x.run \in Nat /\ x.nth \in Nat
                /\ x.id = AccountId(x.at, x.nth)

\* y is drawn after x: later, or at the same time in a later run, or in the same
\* run with a larger counter.
After(x, y) == /\ x.at <= y.at /\ x.run <= y.run
               /\ x.run = y.run => x.nth < y.nth

\* The drawings up to the time t, in the r-th run with its counter at k.
DrawnOK(d, t, r, k) ==
  /\ \A a \in 1 .. Len(d) : /\ IsDrawing(d[a]) /\ d[a].at <= t /\ d[a].run <= r
                            /\ d[a].run = r => d[a].nth < k
  /\ \A a, b \in 1 .. Len(d) : a < b => After(d[a], d[b])

\* One more drawing, with the time, the run and the counter of now.
LEMMA DrawnAppend ==
  ASSUME NEW d \in Seq(Drawing), NEW t \in Nat, NEW r \in Nat, NEW k \in Nat, DrawnOK(d, t, r, k),
         NEW x, x = [id |-> AccountId(t, k), at |-> t, run |-> r, nth |-> k],
         NEW e, e = Append(d, x)
  PROVE  DrawnOK(e, t, r, k + 1)
<1> DEFINE L == Len(d)
<1>1. L \in Nat /\ Len(e) = L + 1 /\ e[L + 1] = x /\ \A a \in 1 .. L : e[a] = d[a]
  OBVIOUS
<1>2. /\ \A a \in 1 .. L : /\ IsDrawing(d[a]) /\ d[a].at <= t /\ d[a].run <= r
                           /\ d[a].run = r => d[a].nth < k
      /\ \A a, b \in 1 .. L : a < b => After(d[a], d[b])
  BY DEF DrawnOK
<1>3. x.id = AccountId(x.at, x.nth) /\ x.at = t /\ x.run = r /\ x.nth = k
  OBVIOUS
<1> HIDE DEF L
<1>4. \A a \in 1 .. Len(e) : a \in 1 .. L \/ a = L + 1
  BY <1>1
<1>5. ASSUME NEW a \in 1 .. Len(e)
      PROVE  /\ IsDrawing(e[a]) /\ e[a].at <= t /\ e[a].run <= r
             /\ e[a].run = r => e[a].nth < k + 1
  <2>1. CASE a = L + 1
    <3>1. e[a] = x
      BY <1>1, <2>1
    <3> QED BY <1>3, <3>1 DEF IsDrawing
  <2>2. CASE a \in 1 .. L
    <3>1. e[a] = d[a]
      BY <1>1, <2>2
    <3>2. /\ IsDrawing(d[a]) /\ d[a].at <= t /\ d[a].run <= r
          /\ d[a].run = r => d[a].nth < k
      BY <1>2, <2>2
    <3>3. d[a].nth \in Nat
      BY <3>2 DEF IsDrawing
    <3> QED BY <3>1, <3>2, <3>3
  <2> QED BY <1>4, <2>1, <2>2
<1>6. ASSUME NEW a \in 1 .. Len(e), NEW b \in 1 .. Len(e), a < b
      PROVE  After(e[a], e[b])
  <2>1. a \in 1 .. L
    BY <1>1, <1>6
  <2>2. CASE b \in 1 .. L
    BY <1>1, <1>2, <1>6, <2>1, <2>2
  <2>3. CASE b = L + 1
    <3>1. e[b] = x /\ e[a] = d[a]
      BY <1>1, <2>1, <2>3
    <3>2. d[a].at <= t /\ d[a].run <= r /\ (d[a].run = r => d[a].nth < k)
      BY <1>2, <2>1
    <3> QED BY <1>3, <3>1, <3>2 DEF After
  <2> QED BY <1>4, <2>2, <2>3
<1> QED BY <1>5, <1>6 DEF DrawnOK

\* Time goes on; a new run starts its counter afresh.
LEMMA DrawnTick ==
  ASSUME NEW d, NEW t \in Nat, NEW r \in Nat, NEW k, DrawnOK(d, t, r, k)
  PROVE  DrawnOK(d, t + 1, r, k) /\ DrawnOK(d, t, r + 1, 0)
<1>1. /\ \A a \in 1 .. Len(d) : /\ IsDrawing(d[a]) /\ d[a].at <= t /\ d[a].run <= r
                                /\ d[a].run = r => d[a].nth < k
      /\ \A a, b \in 1 .. Len(d) : a < b => After(d[a], d[b])
  BY DEF DrawnOK
<1>2. ASSUME NEW a \in 1 .. Len(d)
      PROVE  /\ IsDrawing(d[a]) /\ d[a].at <= t + 1 /\ d[a].run <= r + 1 /\ d[a].run # r + 1
             /\ d[a].run = r => d[a].nth < k
  <2>1. /\ IsDrawing(d[a]) /\ d[a].at <= t /\ d[a].run <= r
        /\ d[a].run = r => d[a].nth < k
    BY <1>1
  <2>2. d[a].at \in Nat /\ d[a].run \in Nat
    BY <2>1 DEF IsDrawing
  <2> QED BY <2>1, <2>2
<1> QED BY <1>1, <1>2 DEF DrawnOK

\* Every owner of a record has an id that was drawn.
OwnersDrawn(c, d) == \A n \in 1 .. Len(c) : \E a \in 1 .. Len(d) : d[a].id = c[n].owner

\* A record by which the readers may take the account i for its owner.
Concerns(call, i) == call.owner = i \/ call.other = i

\* The id of an account was drawn for it, and before that for the owners of the
\* records that are older than it and concern it.
Known(c, d, i, s) ==
  \E b \in 1 .. Len(d) :
    /\ d[b].id = i
    /\ \A n \in 1 .. Len(c) : n <= s /\ Concerns(c[n], i) => \E a \in 1 .. b - 1 : d[a].id = i

\* A call leaves an account known: the calls that are older than it are the same.
LEMMA KnownAppend ==
  ASSUME NEW c \in Seq(Call), NEW d, NEW i, NEW s \in Nat, s <= Len(c), Known(c, d, i, s), NEW call
  PROVE  Known(Append(c, call), d, i, s)
<1>1. PICK b \in 1 .. Len(d) :
             /\ d[b].id = i
             /\ \A n \in 1 .. Len(c) : n <= s /\ Concerns(c[n], i) => \E a \in 1 .. b - 1 : d[a].id = i
  BY DEF Known
<1> DEFINE e == Append(c, call)
           L == Len(c)
           Drawn == \E a \in 1 .. b - 1 : d[a].id = i
<1>2. L \in Nat /\ Len(e) = L + 1 /\ \A m \in 1 .. L : e[m] = c[m]
  OBVIOUS
<1>3. \A n \in 1 .. L : n <= s /\ Concerns(c[n], i) => Drawn
  BY <1>1
<1>4. s <= L
  OBVIOUS
<1> HIDE DEF e, L, Drawn
<1>5. \A n \in 1 .. Len(e) : n <= s /\ Concerns(e[n], i) => Drawn
  BY <1>2, <1>3, <1>4
<1> QED BY <1>1, <1>5 DEF Known, e, Drawn

\* A drawing leaves an account known.
LEMMA KnownDraw ==
  ASSUME NEW c, NEW d \in Seq(Drawing), NEW i, NEW s, Known(c, d, i, s), NEW x
  PROVE  Known(c, Append(d, x), i, s)
<1>1. PICK b \in 1 .. Len(d) :
             /\ d[b].id = i
             /\ \A n \in 1 .. Len(c) : n <= s /\ Concerns(c[n], i) => \E a \in 1 .. b - 1 : d[a].id = i
  BY DEF Known
<1> DEFINE e == Append(d, x)
           L == Len(d)
<1>2. L \in Nat /\ Len(e) = L + 1 /\ \A m \in 1 .. L : e[m] = d[m]
  OBVIOUS
<1> HIDE DEF e
<1>3. b \in 1 .. Len(e) /\ e[b].id = i
  BY <1>1, <1>2
<1>4. \A a \in 1 .. b - 1 : e[a] = d[a]
  BY <1>2
<1>5. \A n \in 1 .. Len(c) : n <= s /\ Concerns(c[n], i) => \E a \in 1 .. b - 1 : e[a].id = i
  BY <1>1, <1>4
<1> QED BY <1>3, <1>5 DEF Known, e

\* An account whose id has just been drawn.
LEMMA KnownNew ==
  ASSUME NEW c, NEW d \in Seq(Drawing), OwnersDrawn(c, d), PairsOK(c), NEW x, x.id \in Id, NEW s
  PROVE  Known(c, Append(d, x), x.id, s)
<1> DEFINE e == Append(d, x)
           L == Len(d)
<1>1. L \in Nat /\ Len(e) = L + 1 /\ e[L + 1] = x /\ \A m \in 1 .. L : e[m] = d[m]
  OBVIOUS
<1>2. \A n \in 1 .. Len(c) : \E a \in 1 .. L : d[a].id = c[n].owner
  BY DEF OwnersDrawn
<1> HIDE DEF e, L
<1>3. L + 1 \in 1 .. Len(e) /\ e[L + 1].id = x.id /\ (L + 1) - 1 = L
  BY <1>1
<1>4. ASSUME NEW n \in 1 .. Len(c), Concerns(c[n], x.id)
      PROVE  \E a \in 1 .. (L + 1) - 1 : e[a].id = x.id
  <2>1. PICK k \in 1 .. Len(c) : c[k].owner = x.id
    <3>1. CASE c[n].owner = x.id
      BY <3>1
    <3>2. CASE c[n].other = x.id
      BY <3>2 DEF PairsOK
    <3> QED BY <1>4, <3>1, <3>2 DEF Concerns
  <2>2. PICK a \in 1 .. L : d[a].id = x.id
    BY <1>2, <2>1
  <2> QED BY <1>1, <1>3, <2>2
<1> QED BY <1>3, <1>4 DEF Known, e

\* A drawing leaves the owners of the records drawn.
LEMMA OwnersDraw ==
  ASSUME NEW c, NEW d \in Seq(Drawing), OwnersDrawn(c, d), NEW x
  PROVE  OwnersDrawn(c, Append(d, x))
<1> DEFINE e == Append(d, x)
           L == Len(d)
<1>1. L \in Nat /\ Len(e) = L + 1 /\ \A m \in 1 .. L : e[m] = d[m]
  OBVIOUS
<1>2. \A n \in 1 .. Len(c) : \E a \in 1 .. L : d[a].id = c[n].owner
  BY DEF OwnersDrawn
<1> HIDE DEF e, L
<1>3. \A a \in 1 .. L : a \in 1 .. Len(e) /\ e[a] = d[a]
  BY <1>1
<1>4. \A n \in 1 .. Len(c) : \E a \in 1 .. Len(e) : e[a].id = c[n].owner
  BY <1>2, <1>3
<1> QED BY <1>4 DEF OwnersDrawn, e

\* A call for an id that was drawn does too.
LEMMA OwnersCall ==
  ASSUME NEW c \in Seq(Call), NEW d, OwnersDrawn(c, d), NEW call,
         NEW a \in 1 .. Len(d), d[a].id = call.owner
  PROVE  OwnersDrawn(Append(c, call), d)
<1> DEFINE e == Append(c, call)
           L == Len(c)
<1>1. L \in Nat /\ Len(e) = L + 1 /\ e[L + 1] = call /\ \A m \in 1 .. L : e[m] = c[m]
  OBVIOUS
<1>2. \A n \in 1 .. L : \E b \in 1 .. Len(d) : d[b].id = c[n].owner
  BY DEF OwnersDrawn
<1> HIDE DEF e, L
<1>3. ASSUME NEW n \in 1 .. Len(e) PROVE \E b \in 1 .. Len(d) : d[b].id = e[n].owner
  <2>1. CASE n = L + 1
    BY <1>1, <2>1
  <2>2. CASE n # L + 1
    <3>1. n \in 1 .. L
      BY <1>1, <2>2
    <3> QED BY <1>1, <1>2, <3>1
  <2> QED BY <2>1, <2>2
<1> QED BY <1>3 DEF OwnersDrawn, e

\* Numbers that leave the same remainder are the divisor apart.
LEMMA SameRemainder ==
  ASSUME NEW P \in Nat \ {0}, NEW x \in Nat, NEW y \in Nat, x % P = y % P, x < y
  PROVE  y - x >= P
<1> DEFINE q == x \div P
           u == y \div P
           r == x % P
<1>1. q \in Int /\ u \in Int /\ r \in Int /\ x = P * q + r /\ y = P * u + r
  OBVIOUS
<1> HIDE DEF q, u, r
<1> DEFINE k == u - q
<1>2. k \in Int /\ u = q + k
  BY <1>1
<1> HIDE DEF k
<1>3. P * u = P * q + P * k /\ P * k \in Int /\ P * q \in Int
  BY <1>1, <1>2
<1>4. P * k > 0
  BY <1>1, <1>3
<1>5. k > 0
  <2> SUFFICES ASSUME k <= 0 PROVE FALSE
    BY <1>2
  <2>1. (0 - k) \in Nat /\ P * (0 - k) \in Nat /\ P * (0 - k) = 0 - P * k
    BY <1>2
  <2> QED BY <1>3, <1>4, <2>1
<1>6. k - 1 \in Nat /\ P * (k - 1) \in Nat /\ P * (k - 1) = P * k - P
  BY <1>2, <1>5
<1>7. P * k >= P
  BY <1>3, <1>6
<1> QED BY <1>1, <1>3, <1>7

Accounted == \A i \in DOMAIN accounts : Known(calls, drawn, i, accounts[i].since)

\* StrangersLinesAreRare, of any log and drawings.
LEMMA StrangersOfLog ==
  ASSUME LogOK(file, calls), Accounted, DrawnOK(drawn, clock, run, acctSeq),
         DOMAIN drawn = 1 .. Len(drawn), Len(drawn) \in Nat
  PROVE  StrangersLinesAreRare
<1>1. Len(calls) \in Nat
  BY DEF LogOK
<1> SUFFICES ASSUME NEW i \in DOMAIN accounts, StrangersLines(i)
             PROVE  \E a, b \in DOMAIN drawn :
                      /\ a < b
                      /\ drawn[a].id = i /\ drawn[b].id = i
                      /\ \/ drawn[b].at - drawn[a].at >= Period
                         \/ drawn[b].at = drawn[a].at /\ drawn[b].run # drawn[a].run
                         \/ drawn[b].at = drawn[a].at /\ drawn[b].nth - drawn[a].nth >= Span
  BY DEF StrangersLinesAreRare
<1> DEFINE t == AllFor(i)
           s == accounts[i].since
<1>2. PICK x \in Range(t) : x[1].of <= s
  BY DEF StrangersLines
<1>3. ReadIs(t, i)
  BY AllForReads
<1> HIDE DEF t
<1>4. PICK l \in 1 .. Len(t) : x = t[l]
  BY <1>2, <1>3 DEF ReadIs, Range
<1>5. OwnIs(t[l], i)
  BY <1>3 DEF ReadIs
<1>6. Key(x) \in 1 .. Len(calls) /\ Concerns(calls[Key(x)], i) /\ Key(x) <= s
  BY <1>2, <1>4, <1>5 DEF OwnIs, Key, Concerns
<1>7. Known(calls, drawn, i, s)
  BY DEF Accounted
<1> HIDE DEF s
<1>8. PICK b \in 1 .. Len(drawn) :
             /\ drawn[b].id = i
             /\ \A n \in 1 .. Len(calls) :
                  n <= s /\ Concerns(calls[n], i) => \E a \in 1 .. b - 1 : drawn[a].id = i
  BY <1>7 DEF Known
<1>9. PICK a \in 1 .. b - 1 : drawn[a].id = i
  BY <1>6, <1>8
<1>10. a \in 1 .. Len(drawn) /\ a < b
  OBVIOUS
<1>11. IsDrawing(drawn[a]) /\ IsDrawing(drawn[b]) /\ After(drawn[a], drawn[b])
  BY <1>10 DEF DrawnOK
<1> DEFINE ta == drawn[a].at
           tb == drawn[b].at
           na == drawn[a].nth
           nb == drawn[b].nth
<1>12. ta \in Nat /\ tb \in Nat /\ na \in Nat /\ nb \in Nat /\ ta <= tb
       /\ drawn[a].id = AccountId(ta, na) /\ drawn[b].id = AccountId(tb, nb)
       /\ (drawn[a].run = drawn[b].run => na < nb)
  BY <1>11 DEF IsDrawing, After
<1>13. AccountId(ta, na) = AccountId(tb, nb)
  BY <1>8, <1>9, <1>12
<1> HIDE DEF ta, tb, na, nb
<1>14. ta % Period = tb % Period /\ na % Span = nb % Span
  BY <1>13 DEF AccountId
<1>15. Period \in Nat \ {0} /\ Span \in Nat \ {0}
  BY SizesAssumption
<1>16. ta < tb => tb - ta >= Period
  BY <1>12, <1>14, <1>15, SameRemainder
<1>17. na < nb => nb - na >= Span
  BY <1>12, <1>14, <1>15, SameRemainder
<1>18. \/ tb - ta >= Period
       \/ tb = ta /\ drawn[b].run # drawn[a].run
       \/ tb = ta /\ nb - na >= Span
  BY <1>12, <1>16, <1>17
<1> QED BY <1>8, <1>9, <1>10, <1>18 DEF ta, tb, na, nb

-----------------------------------------------------------------------------
(* The inductive invariant, and the calls of txn_record that keep it *)

\* What is true of the calls, and of the file they left.
CallsOK(c, f, d, r, k) ==
  c \in Seq(Call) /\ LogOK(f, c) /\ TxnIdsOK(c, r, k) /\ OwnersDrawn(c, d)

\* What is true of the account i that is a.
AccountOK(c, d, i, a) ==
  /\ a.since \in Nat /\ a.since <= Len(c)
  /\ Latest(c, i, a.since, a.balance) /\ Known(c, d, i, a.since)

LedgerInv ==
  /\ TypeOK
  /\ CallsOK(calls, file, drawn, run, txnSeq) /\ PairsOK(calls)
  /\ \A i \in DOMAIN accounts : AccountOK(calls, drawn, i, accounts[i])
  /\ DrawnOK(drawn, clock, run, acctSeq)

\* A call of txn_record with the next transaction id, for an id that was drawn, whatever it writes.
LEMMA CallMade ==
  ASSUME NEW c, NEW f, NEW d, NEW r \in Nat, NEW k \in Nat, CallsOK(c, f, d, r, k),
         NEW call \in Call, call.run = r, call.txn[2] = k,
         NEW a \in 1 .. Len(d), d[a].id = call.owner
  PROVE  CallsOK(Append(c, call), Appended(f, Len(c) + 1, call.written), d, r, k + 1)
<1>1. c \in Seq(Call) /\ LogOK(f, c) /\ TxnIdsOK(c, r, k) /\ OwnersDrawn(c, d)
  BY DEF CallsOK
<1>2. Append(c, call) \in Seq(Call)
  BY <1>1
<1>3. LogOK(Appended(f, Len(c) + 1, call.written), Append(c, call))
  BY <1>1, AppendLog
<1>4. TxnIdsOK(Append(c, call), r, k + 1)
  BY <1>1, TxnIdsAppend
<1>5. OwnersDrawn(Append(c, call), d)
  BY <1>1, OwnersCall
<1> QED BY <1>2, <1>3, <1>4, <1>5 DEF CallsOK

\* A call for another account leaves an account as it is.
LEMMA OtherCalled ==
  ASSUME NEW c \in Seq(Call), NEW d, NEW i, NEW a, AccountOK(c, d, i, a),
         NEW call \in Call, call.owner # i
  PROVE  AccountOK(Append(c, call), d, i, a)
<1>1. /\ a.since \in Nat /\ a.since <= Len(c)
      /\ Latest(c, i, a.since, a.balance) /\ Known(c, d, i, a.since)
  BY DEF AccountOK
<1> DEFINE s == a.since
           b == a.balance
<1>2. s \in Nat /\ s <= Len(c) /\ Latest(c, i, s, b) /\ Known(c, d, i, s)
  BY <1>1
<1> HIDE DEF s, b
<1>3. Latest(Append(c, call), i, s, b)
  BY <1>2, LatestKept
<1>4. Known(Append(c, call), d, i, s)
  BY <1>2, KnownAppend
<1>5. s <= Len(Append(c, call))
  BY <1>2
<1> QED BY <1>2, <1>3, <1>4, <1>5 DEF AccountOK, s, b

\* A call for the account itself gives its new balance.
LEMMA OwnCalled ==
  ASSUME NEW c \in Seq(Call), NEW d, NEW i, NEW a, AccountOK(c, d, i, a),
         NEW call \in Call, call.owner = i, NEW e, e.since = a.since, e.balance = call.after
  PROVE  AccountOK(Append(c, call), d, i, e)
<1> DEFINE s == a.since
<1>2. s \in Nat /\ s <= Len(c) /\ Known(c, d, i, s)
  BY DEF AccountOK
<1> HIDE DEF s
<1>3. Latest(Append(c, call), i, s, call.after)
  BY <1>2, LatestMade
<1>4. Known(Append(c, call), d, i, s)
  BY <1>2, KnownAppend
<1>5. s <= Len(Append(c, call))
  BY <1>2
<1> QED BY <1>2, <1>3, <1>4, <1>5 DEF AccountOK, s

\* The cells of a log within the bound are of its calls.
LEMMA FileType ==
  ASSUME NEW c, NEW f, LogOK(f, c), Len(c) \in Nat, Len(c) <= MaxCalls
  PROVE  f \in Seq(Cell)
<1>1. f \in Seq([of : Nat, part : 1 .. Cells]) /\ \A p \in 1 .. Len(f) : BlockAt(f, c, p)
  BY DEF LogOK
<1>2. Len(f) \in Nat /\ DOMAIN f = 1 .. Len(f) /\ \A p \in 1 .. Len(f) : f[p] \in [of : Nat, part : 1 .. Cells]
  <2> DEFINE C == [of : Nat, part : 1 .. Cells]
  <2>1. f \in Seq(C)
    BY <1>1
  <2> HIDE DEF C
  <2>2. Len(f) \in Nat /\ DOMAIN f = 1 .. Len(f) /\ \A p \in 1 .. Len(f) : f[p] \in C
    BY <2>1
  <2> QED BY <2>2 DEF C
<1>3. MaxCalls \in Nat
  BY BoundsAssumption
<1>4. ASSUME NEW p \in 1 .. Len(f) PROVE f[p] \in Cell
  <2>1. f[p].of \in 1 .. Len(c)
    BY <1>1 DEF BlockAt
  <2>2. f[p].of \in 1 .. MaxCalls
    BY <1>3, <2>1
  <2> QED BY <1>2, <2>2 DEF Cell
<1> QED BY <1>1, <1>2, <1>4

\* What txn_record is called with.
CallIs(call, i, j, after, k, w) ==
  /\ call \in Call /\ call.run = run /\ call.txn[2] = k
  /\ call.owner = i /\ call.other = j /\ call.after = after /\ call.written = w

\* Such a call has the types, the run and the transaction id of now.
LEMMA NewCallType ==
  ASSUME TypeOK, NEW i \in Id, NEW j \in Id \cup {NoOne}, NEW after \in Nat, NEW n \in Nat,
         NEW w \in 0 .. Cells
  PROVE  CallIs(NewCall(i, j, after, n, w), i, j, after, txnSeq + n, w)
<1>1. clock \in Nat /\ run \in Nat /\ txnSeq \in Nat
  BY BoundsAssumption DEF TypeOK
<1>2. clock \div DayLength \in Nat
  BY <1>1, SizesAssumption
<1> DEFINE t == <<clock \div DayLength, txnSeq + n>>
<1>3. t \in TxnId /\ t[2] = txnSeq + n
  BY <1>1, <1>2 DEF TxnId
<1> HIDE DEF t
<1>4. NewCall(i, j, after, n, w) =
        [owner |-> i, other |-> j, txn |-> t, run |-> run, after |-> after, written |-> w]
  BY DEF NewCall, TransactionId, t
<1> QED BY <1>1, <1>3, <1>4 DEF Call, CallIs

\* An account id that is generated is one.
LEMMA AccountIdType ==
  ASSUME NEW t \in Nat, NEW n \in Nat
  PROVE  AccountId(t, n) \in Id
BY SizesAssumption DEF AccountId, Id

\* An account that is in use has an id that was drawn.
LEMMA IdDrawn ==
  ASSUME NEW c, NEW d, NEW i, NEW a, AccountOK(c, d, i, a)
  PROVE  \E b \in 1 .. Len(d) : d[b].id = i
BY DEF AccountOK, Known

\* A call for one account in use, whose balance it gives.
LEMMA OneCall ==
  ASSUME LedgerInv, NEW i \in DOMAIN accounts, NEW after \in Nat, NEW w \in 0 .. Cells,
         Record(i, after, w), accounts' = [accounts EXCEPT ![i].balance = after],
         UNCHANGED <<clock, run, acctSeq, drawn>>
  PROVE  LedgerInv'
<1>1. /\ TypeOK
      /\ CallsOK(calls, file, drawn, run, txnSeq) /\ PairsOK(calls)
      /\ \A j \in DOMAIN accounts : AccountOK(calls, drawn, j, accounts[j])
      /\ DrawnOK(drawn, clock, run, acctSeq)
  BY DEF LedgerInv
<1>2. /\ clock \in 0 .. MaxClock /\ run \in 1 .. MaxRuns /\ acctSeq \in Nat /\ txnSeq \in Nat
      /\ DOMAIN accounts \subseteq Id
      /\ accounts \in [DOMAIN accounts -> [balance : Nat, since : 0 .. MaxCalls]]
      /\ calls \in Seq(Call) /\ drawn \in Seq(Drawing) /\ Len(drawn) <= MaxDrawn
  BY <1>1 DEF TypeOK
<1> DEFINE call == NewCall(i, NoOne, after, 0, w)
<1>3. /\ call \in Call /\ call.run = run /\ call.txn[2] = txnSeq + 0
      /\ call.owner = i /\ call.other = NoOne /\ call.after = after /\ call.written = w
  <2>1. i \in Id /\ 0 \in Nat
    BY <1>2
  <2>2. CallIs(NewCall(i, NoOne, after, 0, w), i, NoOne, after, txnSeq + 0, w)
    BY <1>1, <2>1, NewCallType
  <2> QED BY <2>2 DEF CallIs
<1>4. call.txn[2] = txnSeq
  BY <1>2, <1>3
<1>5. /\ calls' = Append(calls, call)
      /\ file' = Appended(file, Len(calls) + 1, call.written)
      /\ txnSeq' = txnSeq + 1 /\ Len(calls') <= MaxCalls
  BY <1>3 DEF Record, InBounds
<1> HIDE DEF call
<1>6. PICK a \in 1 .. Len(drawn) : drawn[a].id = i
  BY <1>1, IdDrawn
<1>7. CallsOK(calls', file', drawn', run', txnSeq')
  <2>1. run \in Nat
    BY <1>2
  <2>2. CallsOK(Append(calls, call), Appended(file, Len(calls) + 1, call.written), drawn, run, txnSeq + 1)
    BY <1>1, <1>2, <1>3, <1>4, <1>6, <2>1, CallMade
  <2> QED BY <1>5, <2>2
<1>8. /\ DOMAIN accounts' = DOMAIN accounts
      /\ \A j \in DOMAIN accounts : j # i => accounts'[j] = accounts[j]
      /\ accounts'[i].balance = after /\ accounts'[i].since = accounts[i].since
      /\ accounts' \in [DOMAIN accounts -> [balance : Nat, since : 0 .. MaxCalls]]
  BY <1>2
<1>9. ASSUME NEW j \in DOMAIN accounts PROVE AccountOK(calls', drawn', j, accounts'[j])
  <2>1. AccountOK(calls, drawn, j, accounts[j])
    BY <1>1
  <2>2. CASE j = i
    <3>1. AccountOK(Append(calls, call), drawn, j, accounts'[j])
      BY <1>2, <1>3, <1>8, <2>1, <2>2, OwnCalled
    <3> QED BY <1>5, <3>1
  <2>3. CASE j # i
    <3>1. AccountOK(Append(calls, call), drawn, j, accounts[j])
      BY <1>2, <1>3, <2>1, <2>3, OtherCalled
    <3> QED BY <1>5, <1>8, <2>3, <3>1
  <2> QED BY <2>2, <2>3
<1>10. TypeOK'
  <2>1. calls' \in Seq(Call) /\ LogOK(file', calls')
    BY <1>7 DEF CallsOK
  <2>2. file' \in Seq(Cell)
    <3>1. Len(calls') \in Nat /\ Len(calls') <= MaxCalls
      BY <1>5, <2>1
    <3> QED BY <2>1, <3>1, FileType
  <2>3. txnSeq' \in Nat
    BY <1>2, <1>5
  <2> QED BY <1>2, <1>5, <1>8, <2>1, <2>2, <2>3 DEF TypeOK
<1>11. DrawnOK(drawn', clock', run', acctSeq')
  BY <1>1
<1>12. PairsOK(calls')
  BY <1>1, <1>2, <1>3, <1>5, PairsAppend
<1> QED BY <1>7, <1>8, <1>9, <1>10, <1>11, <1>12 DEF LedgerInv

\* A deposit keeps the invariant.
LEMMA DepositKeeps ==
  ASSUME LedgerInv, NEW i \in DOMAIN accounts, NEW x \in Amounts, NEW w \in 0 .. Cells, Deposit(i, x, w)
  PROVE  LedgerInv'
<1>1. accounts \in [DOMAIN accounts -> [balance : Nat, since : 0 .. MaxCalls]]
  BY DEF LedgerInv, TypeOK
<1> DEFINE after == accounts[i].balance + x
<1>2. after \in Nat
  BY <1>1, AmountsAssumption
<1>3. /\ Record(i, after, w) /\ UNCHANGED <<clock, run, acctSeq, drawn>>
      /\ accounts' = [accounts EXCEPT ![i].balance = after]
  BY DEF Deposit
<1> HIDE DEF after
<1> QED BY <1>2, <1>3, OneCall

\* A withdrawal keeps it.
LEMMA WithdrawKeeps ==
  ASSUME LedgerInv, NEW i \in DOMAIN accounts, NEW x \in Amounts, NEW w \in 0 .. Cells, Withdraw(i, x, w)
  PROVE  LedgerInv'
<1>1. accounts \in [DOMAIN accounts -> [balance : Nat, since : 0 .. MaxCalls]]
  BY DEF LedgerInv, TypeOK
<1> DEFINE after == accounts[i].balance - x
<1>2. after \in Nat
  <2>1. accounts[i].balance \in Nat /\ x \in Nat /\ x <= accounts[i].balance
    BY <1>1, AmountsAssumption DEF Withdraw
  <2> QED BY <2>1
<1>3. /\ Record(i, after, w) /\ UNCHANGED <<clock, run, acctSeq, drawn>>
      /\ accounts' = [accounts EXCEPT ![i].balance = after]
  BY DEF Withdraw
<1> HIDE DEF after
<1> QED BY <1>2, <1>3, OneCall

\* The two appends of a transfer, one behind the other.
LEMMA TwoAppends ==
  ASSUME NEW c \in Seq(Call), NEW a, NEW b
  PROVE  c \o <<a, b>> = Append(Append(c, a), b) /\ Len(Append(c, a)) + 1 = Len(c) + 2
OBVIOUS

\* A transfer keeps it: its second call is made behind the first one.
LEMMA TransferKeeps ==
  ASSUME LedgerInv, NEW i \in DOMAIN accounts, NEW j \in DOMAIN accounts \ {i}, NEW x \in Amounts,
         NEW v \in 0 .. Cells, NEW w \in 0 .. Cells, Transfer(i, j, x, v, w)
  PROVE  LedgerInv'
<1>1. /\ TypeOK
      /\ CallsOK(calls, file, drawn, run, txnSeq) /\ PairsOK(calls)
      /\ \A k \in DOMAIN accounts : AccountOK(calls, drawn, k, accounts[k])
      /\ DrawnOK(drawn, clock, run, acctSeq)
  BY DEF LedgerInv
<1>2. /\ clock \in 0 .. MaxClock /\ run \in 1 .. MaxRuns /\ acctSeq \in Nat /\ txnSeq \in Nat
      /\ DOMAIN accounts \subseteq Id
      /\ accounts \in [DOMAIN accounts -> [balance : Nat, since : 0 .. MaxCalls]]
      /\ calls \in Seq(Call) /\ drawn \in Seq(Drawing) /\ Len(drawn) <= MaxDrawn
  BY <1>1 DEF TypeOK
<1>3. accounts[i].balance - x \in Nat /\ CreditedTo(j, x) \in Nat
  <2>1. accounts[i].balance \in Nat /\ accounts[j].balance \in Nat /\ x \in Nat /\ x <= accounts[i].balance
    BY <1>2, AmountsAssumption DEF Transfer
  <2> QED BY <2>1 DEF CreditedTo
<1> DEFINE fst == NewCall(i, j, accounts[i].balance - x, 0, v)
           snd == NewCall(j, i, CreditedTo(j, x), 1, w)
           mid == Append(calls, fst)
           midFile == Appended(file, Len(calls) + 1, v)
<1>4. /\ fst \in Call /\ fst.run = run /\ fst.txn[2] = txnSeq + 0
      /\ fst.owner = i /\ fst.other = j /\ fst.after = accounts[i].balance - x /\ fst.written = v
  <2>1. i \in Id /\ j \in Id \cup {NoOne} /\ 0 \in Nat
    BY <1>2
  <2>2. CallIs(fst, i, j, accounts[i].balance - x, txnSeq + 0, v)
    BY <1>1, <1>3, <2>1, NewCallType
  <2> QED BY <2>2 DEF CallIs
<1>5. /\ snd \in Call /\ snd.run = run /\ snd.txn[2] = txnSeq + 1
      /\ snd.owner = j /\ snd.other = i /\ snd.after = CreditedTo(j, x) /\ snd.written = w
  <2>1. j \in Id /\ i \in Id \cup {NoOne} /\ 1 \in Nat
    BY <1>2
  <2>2. CallIs(snd, j, i, CreditedTo(j, x), txnSeq + 1, w)
    BY <1>1, <1>3, <2>1, NewCallType
  <2> QED BY <2>2 DEF CallIs
<1>6. /\ calls' = calls \o <<fst, snd>>
      /\ file' = Appended(midFile, Len(calls) + 2, w)
      /\ txnSeq' = txnSeq + 2 /\ Len(calls') <= MaxCalls
  BY DEF Transfer, RecordTwo, InBounds
<1>7. UNCHANGED <<clock, run, acctSeq, drawn>>
  BY DEF Transfer
<1>8. /\ DOMAIN accounts' = DOMAIN accounts
      /\ \A k \in DOMAIN accounts : k # i /\ k # j => accounts'[k] = accounts[k]
      /\ accounts'[i].balance = accounts[i].balance - x /\ accounts'[i].since = accounts[i].since
      /\ accounts'[j].balance = CreditedTo(j, x) /\ accounts'[j].since = accounts[j].since
  BY <1>2 DEF Transfer, CreditedTo
<1>9. ASSUME NEW k \in DOMAIN accounts PROVE accounts'[k] \in [balance : Nat, since : 0 .. MaxCalls]
  <2>0. j # i
    OBVIOUS
  <2>1. CASE k = i
    BY <1>2, <1>3, <2>0, <2>1 DEF Transfer
  <2>2. CASE k = j
    BY <1>2, <1>3, <2>0, <2>2 DEF Transfer, CreditedTo
  <2>3. CASE k # i /\ k # j
    BY <1>2, <1>8, <2>3
  <2> QED BY <2>1, <2>2, <2>3
<1>10. accounts' \in [DOMAIN accounts -> [balance : Nat, since : 0 .. MaxCalls]]
  <2>1. accounts' = [k \in DOMAIN accounts |-> accounts'[k]]
    BY <1>2 DEF Transfer
  <2> QED BY <1>9, <2>1
<1> HIDE DEF fst, snd
<1>11. calls' = Append(mid, snd) /\ Len(mid) + 1 = Len(calls) + 2
  BY <1>2, <1>6, TwoAppends
<1>12. CallsOK(mid, midFile, drawn, run, txnSeq + 1)
  <2>1. run \in Nat /\ fst.txn[2] = txnSeq
    BY <1>2, <1>4
  <2>2. PICK a \in 1 .. Len(drawn) : drawn[a].id = i
    BY <1>1, IdDrawn
  <2>3. CallsOK(Append(calls, fst), Appended(file, Len(calls) + 1, fst.written), drawn, run, txnSeq + 1)
    BY <1>1, <1>2, <1>4, <2>1, <2>2, CallMade
  <2> QED BY <1>4, <2>3
<1> HIDE DEF midFile
<1>13. mid \in Seq(Call)
  BY <1>12 DEF CallsOK
<1>14. ASSUME NEW k \in DOMAIN accounts, k # i PROVE AccountOK(mid, drawn, k, accounts[k])
  BY <1>1, <1>2, <1>4, <1>14, OtherCalled
<1>15. AccountOK(mid, drawn, i, accounts'[i])
  <2>1. AccountOK(calls, drawn, i, accounts[i])
    BY <1>1
  <2> QED BY <1>2, <1>4, <1>8, <2>1, OwnCalled
<1> HIDE DEF mid
<1>16. CallsOK(calls', file', drawn', run', txnSeq')
  <2>1. run \in Nat /\ txnSeq + 1 \in Nat /\ (txnSeq + 1) + 1 = txnSeq + 2
    BY <1>2
  <2>2. PICK a \in 1 .. Len(drawn) : drawn[a].id = j
    BY <1>1, IdDrawn
  <2> DEFINE n == txnSeq + 1
  <2>3. n \in Nat /\ snd.txn[2] = n /\ CallsOK(mid, midFile, drawn, run, n)
    BY <1>5, <1>12, <2>1
  <2> HIDE DEF n
  <2>4. CallsOK(Append(mid, snd), Appended(midFile, Len(mid) + 1, snd.written), drawn, run, n + 1)
    BY <1>5, <2>1, <2>2, <2>3, CallMade
  <2>5. CallsOK(Append(mid, snd), Appended(midFile, Len(calls) + 2, w), drawn, run, n + 1)
    BY <1>5, <1>11, <2>4
  <2>6. n + 1 = txnSeq'
    BY <1>6, <2>1 DEF n
  <2> QED BY <1>6, <1>7, <1>11, <2>5, <2>6
<1>17. ASSUME NEW k \in DOMAIN accounts PROVE AccountOK(calls', drawn', k, accounts'[k])
  <2>1. CASE k = i
    <3>1. AccountOK(Append(mid, snd), drawn, i, accounts'[i])
      BY <1>5, <1>13, <1>15, OtherCalled
    <3> QED BY <1>7, <1>11, <2>1, <3>1
  <2>2. CASE k = j
    <3>1. AccountOK(mid, drawn, j, accounts[j])
      BY <1>14
    <3>2. AccountOK(Append(mid, snd), drawn, j, accounts'[j])
      BY <1>5, <1>8, <1>13, <3>1, OwnCalled
    <3> QED BY <1>7, <1>11, <2>2, <3>2
  <2>3. CASE k # i /\ k # j
    <3>1. AccountOK(mid, drawn, k, accounts[k])
      BY <1>14, <2>3
    <3>2. AccountOK(Append(mid, snd), drawn, k, accounts[k])
      BY <1>5, <1>13, <2>3, <3>1, OtherCalled
    <3> QED BY <1>7, <1>8, <1>11, <2>3, <3>2
  <2> QED BY <2>1, <2>2, <2>3
<1>18. TypeOK'
  <2>1. calls' \in Seq(Call) /\ LogOK(file', calls')
    BY <1>16 DEF CallsOK
  <2>2. file' \in Seq(Cell)
    <3>1. Len(calls') \in Nat /\ Len(calls') <= MaxCalls
      BY <1>6, <2>1
    <3> QED BY <2>1, <3>1, FileType
  <2>3. txnSeq' \in Nat
    BY <1>2, <1>6
  <2> QED BY <1>2, <1>6, <1>7, <1>8, <1>10, <2>1, <2>2, <2>3 DEF TypeOK
<1>19. DrawnOK(drawn', clock', run', acctSeq')
  BY <1>1, <1>7
<1>20. PairsOK(calls')
  BY <1>1, <1>2, <1>4, <1>5, <1>6, PairsTwo
<1> QED BY <1>8, <1>16, <1>17, <1>18, <1>19, <1>20 DEF LedgerInv

\* A registration keeps it, refused or not: the new id was drawn for the former owners' records before.
LEMMA RegisterKeeps ==
  ASSUME LedgerInv, NEW x \in Amounts, NEW w \in 0 .. Cells, Register(x, w)
  PROVE  LedgerInv'
<1>1. /\ TypeOK
      /\ CallsOK(calls, file, drawn, run, txnSeq) /\ PairsOK(calls)
      /\ \A j \in DOMAIN accounts : AccountOK(calls, drawn, j, accounts[j])
      /\ DrawnOK(drawn, clock, run, acctSeq)
  BY DEF LedgerInv
<1>2. /\ clock \in 0 .. MaxClock /\ run \in 1 .. MaxRuns /\ acctSeq \in Nat /\ txnSeq \in Nat
      /\ DOMAIN accounts \subseteq Id
      /\ accounts \in [DOMAIN accounts -> [balance : Nat, since : 0 .. MaxCalls]]
      /\ file \in Seq(Cell)
      /\ calls \in Seq(Call) /\ Len(calls) <= MaxCalls /\ drawn \in Seq(Drawing) /\ Len(drawn) <= MaxDrawn
  BY <1>1 DEF TypeOK
<1> DEFINE i == AccountId(clock, acctSeq)
           draw == [id |-> i, at |-> clock, run |-> run, nth |-> acctSeq]
<1>3. i \in Id /\ draw \in Drawing /\ draw.id = i
  <2>1. clock \in Nat /\ run \in Nat
    BY <1>2
  <2>2. i \in Id
    BY <1>2, <2>1, AccountIdType
  <2> HIDE DEF i
  <2> QED BY <1>2, <2>1, <2>2 DEF Drawing
<1>4. /\ drawn' = Append(drawn, draw) /\ Len(drawn) < MaxDrawn
      /\ acctSeq' = acctSeq + 1 /\ UNCHANGED <<clock, run>>
  BY DEF Register
<1>5. DrawnOK(drawn', clock', run', acctSeq')
  <2>1. clock \in Nat /\ run \in Nat
    BY <1>2
  <2>2. DrawnOK(Append(drawn, draw), clock, run, acctSeq + 1)
    BY <1>1, <1>2, <2>1, DrawnAppend
  <2> QED BY <1>4, <2>2
<1> HIDE DEF draw
<1>6. drawn' \in Seq(Drawing) /\ Len(drawn') <= MaxDrawn /\ Len(drawn') = Len(drawn) + 1
      /\ drawn'[Len(drawn) + 1].id = i
  BY <1>2, <1>3, <1>4, BoundsAssumption
<1>7. CallsOK(calls, file, drawn', run, txnSeq) /\ OwnersDrawn(calls, drawn)
  <2>1. calls \in Seq(Call) /\ LogOK(file, calls) /\ TxnIdsOK(calls, run, txnSeq) /\ OwnersDrawn(calls, drawn)
    BY <1>1 DEF CallsOK
  <2>2. OwnersDrawn(calls, Append(drawn, draw))
    BY <1>2, <2>1, OwnersDraw
  <2> QED BY <1>4, <2>1, <2>2 DEF CallsOK
<1>8. ASSUME NEW j \in DOMAIN accounts PROVE AccountOK(calls, drawn', j, accounts[j])
  <2> DEFINE s == accounts[j].since
  <2>1. /\ s \in Nat /\ s <= Len(calls)
        /\ Latest(calls, j, s, accounts[j].balance) /\ Known(calls, drawn, j, s)
    BY <1>1 DEF AccountOK
  <2> HIDE DEF s
  <2>2. Known(calls, Append(drawn, draw), j, s)
    BY <1>2, <2>1, KnownDraw
  <2> QED BY <1>4, <2>1, <2>2 DEF AccountOK, s
<1>9. CASE i \in DOMAIN accounts
  <2>1. UNCHANGED <<accounts, file, calls, txnSeq>>
    BY <1>9 DEF Register
  <2>2. TypeOK'
    BY <1>2, <1>4, <1>6, <2>1 DEF TypeOK
  <2>3. CallsOK(calls', file', drawn', run', txnSeq')
    BY <1>4, <1>7, <2>1
  <2>4. \A j \in DOMAIN accounts' : AccountOK(calls', drawn', j, accounts'[j])
    BY <1>8, <2>1
  <2>5. PairsOK(calls')
    BY <1>1, <2>1
  <2> QED BY <1>5, <2>2, <2>3, <2>4, <2>5 DEF LedgerInv
<1>10. CASE i \notin DOMAIN accounts
  <2> DEFINE new == [balance |-> x, since |-> Len(calls)]
             call == NewCall(i, NoOne, x, 0, w)
  <2>1. /\ accounts' = [j \in DOMAIN accounts \cup {i} |-> IF j = i THEN new ELSE accounts[j]]
        /\ Record(i, x, w)
    BY <1>10 DEF Register
  <2>2. x \in Nat /\ Len(calls) \in Nat /\ Len(calls) \in 0 .. MaxCalls
    BY <1>2, AmountsAssumption, BoundsAssumption
  <2>3. new \in [balance : Nat, since : 0 .. MaxCalls] /\ new.balance = x /\ new.since = Len(calls)
    BY <2>2
  <2> HIDE DEF new, i
  <2>4. /\ DOMAIN accounts' = DOMAIN accounts \cup {i}
        /\ accounts' \in [DOMAIN accounts \cup {i} -> [balance : Nat, since : 0 .. MaxCalls]]
        /\ accounts'[i] = new
        /\ \A j \in DOMAIN accounts : accounts'[j] = accounts[j]
    BY <1>2, <1>10, <2>1, <2>3
  <2>5. CallIs(call, i, NoOne, x, txnSeq + 0, w)
    <3>1. 0 \in Nat
      OBVIOUS
    <3> QED BY <1>1, <1>3, <2>2, <3>1, NewCallType
  <2>6. /\ call \in Call /\ call.run = run /\ call.txn[2] = txnSeq
        /\ call.owner = i /\ call.other = NoOne /\ call.after = x /\ call.written = w
    BY <1>2, <2>5 DEF CallIs
  <2>7. /\ calls' = Append(calls, call)
        /\ file' = Appended(file, Len(calls) + 1, call.written)
        /\ txnSeq' = txnSeq + 1 /\ Len(calls') <= MaxCalls
    BY <2>1, <2>6 DEF Record, InBounds
  <2> HIDE DEF call
  <2>8. CallsOK(calls', file', drawn', run', txnSeq')
    <3>1. run \in Nat /\ Len(drawn) + 1 \in 1 .. Len(drawn')
      BY <1>2, <1>6
    <3> DEFINE a == Len(drawn) + 1
    <3>2. a \in 1 .. Len(drawn') /\ drawn'[a].id = call.owner
      BY <1>6, <2>6, <3>1
    <3> HIDE DEF a
    <3>3. CallsOK(Append(calls, call), Appended(file, Len(calls) + 1, call.written), drawn', run, txnSeq + 1)
      BY <1>2, <1>7, <2>6, <3>1, <3>2, CallMade
    <3> QED BY <1>4, <2>7, <3>3
  <2>9. ASSUME NEW j \in DOMAIN accounts' PROVE AccountOK(calls', drawn', j, accounts'[j])
    <3>1. CASE j = i
      <4> DEFINE s == Len(calls)
      <4>1. s \in Nat /\ s <= Len(calls) /\ new.since = s
        BY <2>2, <2>3
      <4>2. Known(calls, Append(drawn, draw), draw.id, s)
        BY <1>1, <1>2, <1>3, <1>7, KnownNew
      <4>3. Known(calls, drawn', i, s)
        BY <1>3, <1>4, <4>2
      <4> HIDE DEF s
      <4>4. Known(Append(calls, call), drawn', i, s)
        BY <1>2, <4>1, <4>3, KnownAppend
      <4>5. Latest(Append(calls, call), call.owner, s, call.after)
        BY <1>2, <2>6, <4>1, LatestMade
      <4>6. s <= Len(Append(calls, call))
        BY <1>2, <4>1
      <4> QED BY <2>3, <2>4, <2>6, <2>7, <3>1, <4>1, <4>4, <4>5, <4>6 DEF AccountOK
    <3>2. CASE j # i
      <4>1. j \in DOMAIN accounts /\ AccountOK(calls, drawn', j, accounts[j])
        BY <1>8, <2>4, <3>2
      <4>2. AccountOK(Append(calls, call), drawn', j, accounts[j])
        BY <1>2, <2>6, <3>2, <4>1, OtherCalled
      <4> QED BY <2>4, <2>7, <4>1, <4>2
    <3> QED BY <3>1, <3>2
  <2>10. TypeOK'
    <3>1. calls' \in Seq(Call) /\ LogOK(file', calls')
      BY <2>8 DEF CallsOK
    <3>2. file' \in Seq(Cell)
      <4>1. Len(calls') \in Nat /\ Len(calls') <= MaxCalls
        BY <2>7, <3>1
      <4> QED BY <3>1, <4>1, FileType
    <3>3. txnSeq' \in Nat /\ acctSeq' \in Nat
      BY <1>2, <1>4, <2>7
    <3>4. DOMAIN accounts' \subseteq Id
      BY <1>2, <1>3, <2>4
    <3> QED BY <1>2, <1>4, <1>6, <2>4, <2>7, <3>1, <3>2, <3>3, <3>4 DEF TypeOK
  <2>11. PairsOK(calls')
    BY <1>1, <1>2, <2>6, <2>7, PairsAppend
  <2> QED BY <1>5, <2>8, <2>9, <2>10, <2>11 DEF LedgerInv
<1> QED BY <1>9, <1>10

\* A deletion keeps it, there being nothing to say of the account any more.
LEMMA DeleteKeeps ==
  ASSUME LedgerInv, NEW i \in DOMAIN accounts, Delete(i)
  PROVE  LedgerInv'
<1>1. /\ accounts' = [j \in DOMAIN accounts \ {i} |-> accounts[j]]
      /\ UNCHANGED <<clock, run, acctSeq, txnSeq, file, calls, drawn>>
  BY DEF Delete
<1>2. TypeOK'
  BY <1>1 DEF LedgerInv, TypeOK
<1> QED BY <1>1, <1>2 DEF LedgerInv

\* The passing of time keeps it.
LEMMA TickKeeps ==
  ASSUME LedgerInv, Tick
  PROVE  LedgerInv'
<1>1. clock' = clock + 1 /\ clock < MaxClock
      /\ UNCHANGED <<run, acctSeq, txnSeq, accounts, file, calls, drawn>>
  BY DEF Tick
<1>2. clock \in 0 .. MaxClock /\ clock \in Nat /\ run \in Nat /\ MaxClock \in Nat
  BY BoundsAssumption DEF LedgerInv, TypeOK
<1>3. clock' \in 0 .. MaxClock
  BY <1>1, <1>2
<1>4. TypeOK'
  BY <1>1, <1>3 DEF LedgerInv, TypeOK
<1>5. DrawnOK(drawn, clock + 1, run, acctSeq)
  BY <1>2, DrawnTick DEF LedgerInv
<1> QED BY <1>1, <1>4, <1>5 DEF LedgerInv

\* A restart keeps it: no call and no drawing is of the new run.
LEMMA RestartKeeps ==
  ASSUME LedgerInv, Restart
  PROVE  LedgerInv'
<1>1. /\ run' = run + 1 /\ run < MaxRuns /\ acctSeq' = 0 /\ txnSeq' = 0
      /\ UNCHANGED <<clock, accounts, file, calls, drawn>>
  BY DEF Restart
<1>2. run \in 1 .. MaxRuns /\ clock \in Nat /\ run \in Nat /\ MaxRuns \in Nat
  BY BoundsAssumption DEF LedgerInv, TypeOK
<1>3. run' \in 1 .. MaxRuns
  BY <1>1, <1>2
<1>4. TypeOK'
  BY <1>1, <1>3 DEF LedgerInv, TypeOK
<1>5. DrawnOK(drawn, clock, run + 1, 0)
  BY <1>2, DrawnTick DEF LedgerInv
<1>6. TxnIdsOK(calls, run + 1, 0)
  <2>1. calls \in Seq(Call) /\ TxnIdsOK(calls, run, txnSeq)
    BY DEF LedgerInv, CallsOK
  <2>2. \A n \in 1 .. Len(calls) : calls[n].run \in Nat
    <3>1. \A n \in 1 .. Len(calls) : calls[n] \in Call
      BY <2>1
    <3> QED BY <3>1 DEF Call
  <2>3. \A n \in 1 .. Len(calls) : calls[n].run <= run
    BY <2>1 DEF TxnIdsOK
  <2>4. \A n \in 1 .. Len(calls) : calls[n].run <= run + 1 /\ calls[n].run # run + 1
    BY <1>2, <2>2, <2>3
  <2> QED BY <2>1, <2>4 DEF TxnIdsOK
<1> QED BY <1>1, <1>4, <1>5, <1>6 DEF LedgerInv, CallsOK

\* It is true at first.
LEMMA InitLedger ==
  ASSUME Init
  PROVE  LedgerInv
<1>1. /\ clock = 0 /\ run = 1 /\ acctSeq = 0 /\ txnSeq = 0
      /\ accounts = [i \in {} |-> [balance |-> 0, since |-> 0]]
      /\ file = <<>> /\ calls = <<>> /\ drawn = <<>>
  BY DEF Init
<1>2. DOMAIN accounts = {} /\ MaxClock \in Nat /\ MaxRuns \in Nat \ {0} /\ MaxDrawn \in Nat /\ MaxCalls \in Nat
  BY <1>1, BoundsAssumption
<1>3. accounts \in [DOMAIN accounts -> [balance : Nat, since : 0 .. MaxCalls]] /\ DOMAIN accounts \subseteq Id
  BY <1>1, <1>2
<1>4. TypeOK
  <2>1. run \in 1 .. MaxRuns
    BY <1>1, <1>2
  <2>2. file \in Seq(Cell) /\ calls \in Seq(Call) /\ Len(calls) <= MaxCalls
        /\ drawn \in Seq(Drawing) /\ Len(drawn) <= MaxDrawn
    BY <1>1, <1>2
  <2> QED BY <1>1, <1>2, <1>3, <2>1, <2>2 DEF TypeOK
<1>5. LogOK(file, calls)
  <2>1. Multiple(0)
    BY SizesAssumption DEF Multiple
  <2> QED BY <1>1, <2>1 DEF LogOK
<1>6. TxnIdsOK(calls, run, txnSeq) /\ OwnersDrawn(calls, drawn) /\ DrawnOK(drawn, clock, run, acctSeq)
      /\ PairsOK(calls)
  BY <1>1 DEF TxnIdsOK, OwnersDrawn, DrawnOK, PairsOK
<1>7. calls \in Seq(Call)
  BY <1>4 DEF TypeOK
<1> QED BY <1>2, <1>4, <1>5, <1>6, <1>7 DEF LedgerInv, CallsOK

\* Every step keeps it.
LEMMA LedgerStep ==
  ASSUME LedgerInv, [Next]_vars
  PROVE  LedgerInv'
<1>1. CASE Next
  BY <1>1, RegisterKeeps, DepositKeeps, WithdrawKeeps, TransferKeeps, DeleteKeeps, TickKeeps, RestartKeeps
     DEF Next
<1>2. CASE UNCHANGED vars
  BY <1>2 DEF vars, LedgerInv, TypeOK
<1> QED BY <1>1, <1>2

\* It is an invariant.
LEMMA LedgerInvariant == Spec => []LedgerInv
<1>1. Init => LedgerInv
  BY InitLedger
<1>2. LedgerInv /\ [Next]_vars => LedgerInv'
  BY LedgerStep
<1> QED BY <1>1, <1>2, PTL DEF Spec

\* What it says of the log and the accounts.
LEMMA InvOfLog ==
  ASSUME LedgerInv
  PROVE  LogOK(file, calls) /\ PairsOK(calls) /\ Balances /\ Accounted
<1>1. CallsOK(calls, file, drawn, run, txnSeq) /\ PairsOK(calls)
      /\ \A i \in DOMAIN accounts : AccountOK(calls, drawn, i, accounts[i])
  BY DEF LedgerInv
<1> QED BY <1>1 DEF CallsOK, AccountOK, Balances, Accounted

-----------------------------------------------------------------------------
(* The theorems *)

\* The variables have their types; the cells of the file are of the calls made.
THEOREM LedgerTyped == Spec => []TypeOK
<1>1. LedgerInv => TypeOK
  BY DEF LedgerInv
<1> QED BY <1>1, LedgerInvariant, PTL

\* The mini statement is the end of what the file holds for the account, whatever
\* the size of its buffer (transaction.c:96-130).
THEOREM StatementsAreNewest == Spec => []StatementIsNewest
<1>1. LedgerInv => StatementIsNewest
  BY InvOfLog, NewestOfLog
<1> QED BY <1>1, LedgerInvariant, PTL

\* What was written before any torn append is read as it was written (transaction.c:69).
THEOREM WrittenAreRead == Spec => []WrittenIsRead
<1>1. LedgerInv => WrittenIsRead
  BY InvOfLog, WrittenIsReadOfLog
<1> QED BY <1>1, LedgerInvariant, PTL

\* The lines that are not what was written start in a torn record of the account, or
\* behind one in a transfer that names it (transaction.c:79-92).
THEOREM MisreadBehindTorn == Spec => []MisreadOnlyBehindTorn
<1>1. LedgerInv => MisreadOnlyBehindTorn
  BY InvOfLog, MisreadOfLog
<1> QED BY <1>1, LedgerInvariant, PTL

\* The statement of an account whose latest record is in the file ends in its balance
\* (transaction.c:45-59).
THEOREM LastLinesAreBalances == Spec => []LastLineIsBalance
<1>1. ASSUME LedgerInv PROVE LastLineIsBalance
  <2>1. accounts \in [DOMAIN accounts -> [balance : Nat, since : 0 .. MaxCalls]]
    BY <1>1 DEF LedgerInv, TypeOK
  <2>2. \A i \in DOMAIN accounts : accounts[i].since \in Nat
    BY <2>1
  <2>3. DOMAIN accounts \subseteq Id
    BY <1>1 DEF LedgerInv, TypeOK
  <2> QED BY <1>1, <2>2, <2>3, InvOfLog, LastLineOfLog
<1>2. LedgerInv => LastLineIsBalance
  BY <1>1
<1> QED BY <1>2, LedgerInvariant, PTL

\* A transaction id is given twice by two runs of the program only (transaction.c:21).
THEOREM TxnIdsRepeatRarely == Spec => []TxnIdsRepeatAcrossRunsOnly
<1>1. ASSUME LedgerInv PROVE TxnIdsRepeatAcrossRunsOnly
  <2>1. calls \in Seq(Call) /\ TxnIdsOK(calls, run, txnSeq)
    BY <1>1 DEF LedgerInv, CallsOK
  <2>2. DOMAIN calls = 1 .. Len(calls)
    BY <2>1
  <2> QED BY <2>1, <2>2, TxnIdsOfLog
<1>2. LedgerInv => TxnIdsRepeatAcrossRunsOnly
  BY <1>1
<1> QED BY <1>2, LedgerInvariant, PTL

\* A statement shows a former owner's lines only once the seconds have wrapped, or
\* within one second after a restart or Span registrations (account.c:30).
THEOREM StrangersAreRare == Spec => []StrangersLinesAreRare
<1>1. ASSUME LedgerInv PROVE StrangersLinesAreRare
  <2>1. drawn \in Seq(Drawing) /\ DrawnOK(drawn, clock, run, acctSeq)
    BY <1>1 DEF LedgerInv, TypeOK
  <2>2. DOMAIN drawn = 1 .. Len(drawn) /\ Len(drawn) \in Nat
    BY <2>1
  <2> QED BY <1>1, <2>1, <2>2, InvOfLog, StrangersOfLog
<1>2. LedgerInv => StrangersLinesAreRare
  BY <1>1
<1> QED BY <1>2, LedgerInvariant, PTL
=============================================================================
