------------------------- MODULE PersistenceProofs -------------------------
(* Proofs about Persistence. *)
EXTENDS Persistence, TLAPS

Kept == {r \in Record : r.ok}   \* what memory may hold

\* The save has got as far as the file.
Saving == pc \in {"write", "close", "rename"}

\* Where the loops are.
LoopInv ==
  /\ pc \in Stopped \cup {"boot", "init"} => mem = <<>> /\ n = 0
  /\ pc = "load" => Len(mem) <= n
  /\ pc = "shift" => n \in 1 .. Len(mem)
  /\ pc = "close" => n = Len(mem)
  /\ Saving => dir

\* No file says it holds more than memory can.
SizeInv == db.count <= MaxAccounts /\ tmp.count <= MaxAccounts

IInv == TypeOK /\ LoopInv /\ SizeInv

-----------------------------------------------------------------------------
(* Records and files *)

\* What is appended, replaced or cut off leaves a sequence of records in memory.
LEMMA NewRecordKept ==
  ASSUME NEW i \in Ids
  PROVE  NewRecord(i) \in Kept
BY BoundsAssumption DEF NewRecord, Kept, Record

\* A file written from memory holds what memory holds.
LEMMA WrittenFile ==
  ASSUME NEW k \in 0 .. Len(mem), mem \in Seq(Kept), Len(mem) <= MaxAccounts
  PROVE  /\ Written(k) \in File /\ Written(k).count = Len(mem) /\ Written(k).state = "good"
         /\ Written(k).recs = [j \in 1 .. k |-> mem[j]]
<1>1. \A j \in 1 .. k : mem[j] \in Record /\ mem[j].ok = TRUE
  <2> SUFFICES ASSUME NEW j \in 1 .. k PROVE mem[j] \in Record /\ mem[j].ok = TRUE
    OBVIOUS
  <2>1. mem[j] \in Kept
    OBVIOUS
  <2> QED BY <2>1 DEF Kept, Record
<1>2. \A j \in 1 .. k : [mem[j] EXCEPT !.ok = TRUE] = mem[j]
  BY <1>1 DEF Record
<1>3. Written(k).recs = [j \in 1 .. k |-> mem[j]]
  BY <1>2 DEF Written
<1>4. k \in Nat /\ [j \in 1 .. k |-> mem[j]] \in Seq(Record)
  BY <1>1
<1>5. Written(k).count = Len(mem) /\ Written(k).state = "good" /\ Len(mem) \in Nat
  BY DEF Written
<1>6. Written(k) = [state |-> "good", count |-> Len(mem), recs |-> [j \in 1 .. k |-> mem[j]]]
  BY <1>2 DEF Written
<1>7. Written(k) \in File
  BY <1>4, <1>5, <1>6 DEF File
<1> QED BY <1>3, <1>5, <1>7

\* A file that is not there and one that is damaged are files without records.
LEMMA EmptyFiles ==
  /\ Absent \in File /\ Absent.count = 0 /\ Absent.state = "absent" /\ Absent.recs = <<>>
  /\ Bad \in File /\ Bad.count = 0 /\ Bad.state = "bad" /\ Bad.recs = <<>>
BY DEF Absent, Bad, File

\* Damage leaves a file.
LEMMA DamagedFile ==
  ASSUME NEW f \in File, NEW k \in DOMAIN f.recs, NEW g, g = [f EXCEPT !.recs[k].ok = FALSE]
  PROVE  /\ g \in File /\ g.state = f.state /\ g.count = f.count
         /\ Len(g.recs) = Len(f.recs) /\ DOMAIN g.recs = DOMAIN f.recs
         /\ \A j \in DOMAIN f.recs : /\ g.recs[j].id = f.recs[j].id
                                     /\ g.recs[j].rev = f.recs[j].rev
                                     /\ g.recs[j].ok => f.recs[j].ok
<1> DEFINE s == f.recs
           r == [s[k] EXCEPT !.ok = FALSE]
           t == [s EXCEPT ![k] = r]
<1>1. s \in Seq(Record) /\ k \in DOMAIN s /\ f.state \in {"absent", "bad", "good"} /\ f.count \in Nat
  BY DEF File
<1>2. g = [f EXCEPT !.recs = t]
  OBVIOUS
<1> HIDE DEF s
<1>3. s[k] \in Record
  BY <1>1
<1>4. r \in Record /\ r.id = s[k].id /\ r.rev = s[k].rev /\ r.ok = FALSE
  BY <1>3 DEF Record
<1> HIDE DEF r
<1>5. /\ t \in Seq(Record) /\ Len(t) = Len(s) /\ DOMAIN t = DOMAIN s
      /\ t[k] = r /\ \A j \in DOMAIN s \ {k} : t[j] = s[j]
  BY <1>1, <1>4
<1> HIDE DEF t
<1>6. g \in File /\ g.state = f.state /\ g.count = f.count /\ g.recs = t
  BY <1>2, <1>5 DEF File
<1>7. \A j \in DOMAIN s : t[j].id = s[j].id /\ t[j].rev = s[j].rev /\ (t[j].ok => s[j].ok)
  BY <1>4, <1>5
<1> QED BY <1>5, <1>6, <1>7 DEF s

-----------------------------------------------------------------------------
(* Every step keeps the inductive invariant *)

\* The program stops, with the file as it is or with a file of the right size.
LEMMA HaltTypes ==
  ASSUME IInv, NEW how \in Stopped, Halt(how), db' \in File, db'.count <= MaxAccounts,
         dir' \in BOOLEAN, ~dir' => db' = Absent
  PROVE  IInv'
<1>1. how \in PCs /\ 0 \in 0 .. MaxAccounts /\ <<>> \in Seq(Kept) /\ Len(<<>>) = 0
  BY BoundsAssumption DEF PCs
<1>2. TypeOK'
  <2>1. mem' \in Seq({r \in Record : r.ok}) /\ Len(mem') <= MaxAccounts
    BY <1>1, BoundsAssumption DEF Halt, Kept
  <2>2. tmp' \in File /\ pc' \in PCs /\ n' \in 0 .. MaxAccounts
    BY <1>1, EmptyFiles DEF Halt
  <2>3. exiting' \in BOOLEAN /\ loaded' \in BOOLEAN /\ fault' \in {"none", "load", "save"}
    BY DEF Halt
  <2>4. Record' = Record /\ File' = File /\ PCs' = PCs /\ MaxAccounts' = MaxAccounts /\ Absent' = Absent
    BY DEF Record, File, PCs, Stopped, Absent
  <2> QED BY <2>1, <2>2, <2>3 DEF TypeOK
<1>3. LoopInv'
  BY DEF Halt, LoopInv, Saving, Stopped
<1>4. SizeInv'
  BY EmptyFiles, BoundsAssumption DEF Halt, SizeInv
<1> QED BY <1>2, <1>3, <1>4 DEF IInv

\* A save that returns leads to a prompt or stops.
LEMMA ReturnTypes ==
  ASSUME IInv, Return, db' \in File, db'.count <= MaxAccounts,
         dir' \in BOOLEAN, ~dir' => db' = Absent
  PROVE  IInv'
<1>1. CASE Halt("off")
  BY <1>1, HaltTypes DEF Stopped
<1>2. CASE pc' = "ready" /\ n' = 0 /\ tmp' = Absent /\ fault' = "none" /\ UNCHANGED <<mem, exiting, loaded>>
  <2>1. TypeOK'
    BY <1>2, EmptyFiles, BoundsAssumption DEF IInv, TypeOK, PCs
  <2>2. LoopInv' /\ SizeInv'
    BY <1>2, EmptyFiles, BoundsAssumption DEF LoopInv, Saving, Stopped, SizeInv
  <2> QED BY <2>1, <2>2 DEF IInv
<1> QED BY <1>1, <1>2 DEF Return

\* What the typed state says of memory and of the files.
LEMMA StateTyped ==
  ASSUME IInv
  PROVE  /\ mem \in Seq(Kept) /\ Len(mem) \in Nat /\ Len(mem) <= MaxAccounts
         /\ db \in File /\ tmp \in File /\ dir \in BOOLEAN /\ pc \in PCs
         /\ n \in 0 .. MaxAccounts /\ n \in Nat /\ exiting \in BOOLEAN /\ loaded \in BOOLEAN
         /\ fault \in {"none", "load", "save"}
         /\ (~dir => db = Absent)
         /\ db.count <= MaxAccounts /\ db.count \in Nat /\ db.recs \in Seq(Record)
         /\ db.state \in {"absent", "bad", "good"} /\ tmp.count <= MaxAccounts
BY BoundsAssumption DEF IInv, TypeOK, SizeInv, Kept, File

\* A start of the program keeps the invariant.
LEMMA StartTypes ==
  ASSUME IInv, Start \/ MakeDir
  PROVE  IInv'
<1>1. TypeOK'
  BY DEF IInv, TypeOK, Start, MakeDir, PCs
<1>2. LoopInv' /\ SizeInv'
  BY DEF IInv, LoopInv, SizeInv, Saving, Stopped, Start, MakeDir
<1> QED BY <1>1, <1>2 DEF IInv

\* The opening of the logs keeps it, which may refuse the run.
LEMMA InitLoggerTypes ==
  ASSUME IInv, InitLogger
  PROVE  IInv'
<1>1. CASE Halt("refused")
  BY <1>1, HaltTypes, StateTyped DEF InitLogger, Stopped
<1>2. CASE dir /\ pc' = "init" /\ UNCHANGED <<mem, tmp, n, exiting, loaded, fault>>
  <2>1. TypeOK'
    BY <1>2 DEF IInv, TypeOK, InitLogger, PCs
  <2>2. LoopInv' /\ SizeInv'
    BY <1>2 DEF IInv, LoopInv, SizeInv, Saving, Stopped, InitLogger
  <2> QED BY <2>1, <2>2 DEF IInv
<1> QED BY <1>1, <1>2 DEF InitLogger

\* The opening of the file keeps it, whatever the file is like.
LEMMA OpenDbTypes ==
  ASSUME IInv, OpenDb
  PROVE  IInv'
<1>1. CASE Halt("refused")
  BY <1>1, HaltTypes, StateTyped DEF OpenDb, Stopped
<1>2. CASE /\ pc' \in {"admin", "load"} /\ loaded' \in BOOLEAN
           /\ fault' \in {"none", "load", "save"} /\ UNCHANGED <<mem, tmp, n, exiting>>
  <2>1. TypeOK'
    BY <1>2 DEF IInv, TypeOK, OpenDb, PCs
  <2>2. mem = <<>> /\ n = 0
    BY DEF IInv, LoopInv, OpenDb
  <2>3. LoopInv' /\ SizeInv'
    BY <1>2, <2>2 DEF IInv, LoopInv, SizeInv, Saving, Stopped, OpenDb
  <2> QED BY <2>1, <2>3 DEF IInv
<1>3. loaded \in BOOLEAN /\ fault \in {"none", "load", "save"}
  BY StateTyped
<1> QED BY <1>1, <1>2, <1>3 DEF OpenDb

\* A record that is accepted is one that memory may hold, and there is room for it.
LEMMA LoadRecordTypes ==
  ASSUME IInv, LoadRecord
  PROVE  IInv'
<1>1. n < db.count /\ n < Len(db.recs) /\ pc = "load" /\ n' = n + 1
  BY DEF LoadRecord, Loading
<1>2. n \in Nat /\ n + 1 \in DOMAIN db.recs /\ n + 1 \in 0 .. MaxAccounts
  BY <1>1, StateTyped, BoundsAssumption
<1>3. db.recs[n + 1] \in Record
  BY <1>2, StateTyped
<1>4. mem' \in Seq(Kept) /\ Len(mem') <= n'
  <2>1. Len(mem) <= n
    BY <1>1 DEF IInv, LoopInv
  <2>2. CASE Accepted(db.recs[n + 1]) /\ mem' = Append(mem, db.recs[n + 1])
    <3> DEFINE r == db.recs[n + 1]
    <3>1. r \in Kept
      BY <1>3, <2>2 DEF Accepted, Kept
    <3> HIDE DEF r
    <3> QED BY <1>1, <1>2, <2>1, <2>2, <3>1, StateTyped DEF r
  <2>3. CASE UNCHANGED mem
    BY <1>1, <1>2, <2>1, <2>3, StateTyped
  <2> QED BY <2>2, <2>3 DEF LoadRecord
<1>5. TypeOK'
  <2>1. Len(mem') <= MaxAccounts
    BY <1>1, <1>2, <1>4, BoundsAssumption
  <2>2. UNCHANGED <<db, tmp, dir, pc, exiting, loaded, fault>>
    BY DEF LoadRecord
  <2> QED BY <1>1, <1>2, <1>4, <2>1, <2>2 DEF IInv, TypeOK, Kept
<1>6. LoopInv' /\ SizeInv'
  BY <1>1, <1>4 DEF IInv, LoopInv, SizeInv, Saving, Stopped, LoadRecord
<1> QED BY <1>5, <1>6 DEF IInv

\* The end of the loading keeps it.
LEMMA LoadDoneTypes ==
  ASSUME IInv, LoadDone \/ ReadFails
  PROVE  IInv'
<1>1. TypeOK'
  <2>1. 0 \in 0 .. MaxAccounts /\ "admin" \in PCs
    BY BoundsAssumption DEF PCs
  <2>2. CASE LoadDone
    BY <2>1, <2>2 DEF IInv, TypeOK, LoadDone
  <2>3. CASE ReadFails
    BY <2>1, <2>3 DEF IInv, TypeOK, ReadFails
  <2> QED BY <2>2, <2>3
<1>2. LoopInv' /\ SizeInv'
  BY DEF IInv, LoopInv, SizeInv, Saving, Stopped, LoadDone, ReadFails
<1> QED BY <1>1, <1>2 DEF IInv

\* A new account in memory keeps it, there being room.
LEMMA AppendTypes ==
  ASSUME IInv, NEW i \in Ids, MayCreate(i), mem' = Append(mem, NewRecord(i)), pc' = "open",
         UNCHANGED <<db, tmp, dir, n, exiting, loaded, fault>>
  PROVE  IInv'
<1>1. mem' \in Seq(Kept) /\ Len(mem') <= MaxAccounts
  <2>1. NewRecord(i) \in Kept
    BY NewRecordKept
  <2> QED BY <2>1, StateTyped, BoundsAssumption DEF MayCreate
<1>2. TypeOK'
  BY <1>1 DEF IInv, TypeOK, PCs, Kept
<1>3. LoopInv' /\ SizeInv'
  BY DEF IInv, LoopInv, SizeInv, Saving, Stopped
<1> QED BY <1>2, <1>3 DEF IInv

\* The first administrator keeps it.
LEMMA BootstrapAdminTypes ==
  ASSUME IInv, BootstrapAdmin
  PROVE  IInv'
<1>1. CASE ~MayCreate(AdminId)
  <2>1. TypeOK'
    BY <1>1 DEF IInv, TypeOK, BootstrapAdmin, PCs
  <2>2. LoopInv' /\ SizeInv'
    BY <1>1 DEF IInv, LoopInv, SizeInv, Saving, Stopped, BootstrapAdmin
  <2> QED BY <2>1, <2>2 DEF IInv
<1>2. CASE MayCreate(AdminId)
  BY <1>2, AppendTypes, IdsAssumption DEF BootstrapAdmin
<1> QED BY <1>1, <1>2

\* What an update makes of a record: the same account, a later revision.
LEMMA Revised ==
  ASSUME NEW r \in Kept, r.rev < MaxRev, NEW t, t = [r EXCEPT !.rev = @ + 1]
  PROVE  t \in Kept /\ t.id = r.id
BY BoundsAssumption DEF Kept, Record

\* An update in memory leaves the ids and their order alone.
LEMMA UpdatedMem ==
  ASSUME IInv, NEW k \in DOMAIN mem, Update(k)
  PROVE  /\ mem' \in Seq(Kept) /\ Len(mem') = Len(mem) /\ DOMAIN mem' = DOMAIN mem
         /\ \A j \in DOMAIN mem : mem'[j].id = mem[j].id
<1> DEFINE r == [mem[k] EXCEPT !.rev = @ + 1]
<1>1. mem[k] \in Kept /\ mem[k].rev < MaxRev
  BY StateTyped DEF Update
<1>2. r \in Kept /\ r.id = mem[k].id
  BY <1>1, Revised
<1>3. mem' = [mem EXCEPT ![k] = r]
  BY DEF Update
<1> HIDE DEF r
<1> QED BY <1>2, <1>3, StateTyped

\* An update keeps the invariant.
LEMMA UpdateTypes ==
  ASSUME IInv, NEW k \in DOMAIN mem, Update(k)
  PROVE  IInv'
<1>1. mem' \in Seq(Kept) /\ Len(mem') = Len(mem)
  BY UpdatedMem
<1>2. TypeOK'
  BY <1>1 DEF IInv, TypeOK, PCs, Kept, Update
<1>3. LoopInv' /\ SizeInv'
  BY DEF IInv, LoopInv, SizeInv, Saving, Stopped, Update
<1> QED BY <1>2, <1>3 DEF IInv

\* The start of a deletion keeps it.
LEMMA DeleteTypes ==
  ASSUME IInv, NEW k \in DOMAIN mem, Delete(k)
  PROVE  IInv'
<1>1. k \in 1 .. Len(mem) /\ k \in 0 .. MaxAccounts
  BY StateTyped, BoundsAssumption
<1>2. TypeOK'
  BY <1>1 DEF IInv, TypeOK, PCs, Delete
<1>3. LoopInv' /\ SizeInv'
  BY <1>1 DEF IInv, LoopInv, SizeInv, Saving, Stopped, Delete
<1> QED BY <1>2, <1>3 DEF IInv

\* The two ways acct_delete's loop goes on.
LEMMA ShiftedMem ==
  ASSUME IInv, Shift
  PROVE  \/ /\ n < Len(mem) /\ n' = n + 1 /\ pc' = "shift"
            /\ mem' \in Seq(Kept) /\ Len(mem') = Len(mem) /\ DOMAIN mem' = DOMAIN mem
            /\ mem'[n] = mem[n + 1] /\ \A j \in DOMAIN mem \ {n} : mem'[j] = mem[j]
         \/ /\ n = Len(mem) /\ n' = 0 /\ pc' = "open"
            /\ mem' \in Seq(Kept) /\ Len(mem') = Len(mem) - 1 /\ DOMAIN mem' = 1 .. Len(mem) - 1
            /\ \A j \in 1 .. Len(mem) - 1 : mem'[j] = mem[j]
<1>1. pc = "shift" /\ n \in 1 .. Len(mem)
  BY DEF IInv, LoopInv, Shift
<1>2. CASE n < Len(mem) /\ mem' = [mem EXCEPT ![n] = mem[n + 1]] /\ n' = n + 1 /\ UNCHANGED pc
  <2>1. n + 1 \in DOMAIN mem /\ n \in DOMAIN mem
    BY <1>1, <1>2, StateTyped
  <2>2. mem[n + 1] \in Kept
    BY <2>1, StateTyped
  <2> QED BY <1>1, <1>2, <2>1, <2>2, StateTyped
<1>3. CASE n = Len(mem) /\ mem' = Front(mem) /\ n' = 0 /\ pc' = "open"
  <2>1. \A j \in 1 .. Len(mem) - 1 : mem[j] \in Kept
    BY StateTyped
  <2>2. mem' = [j \in 1 .. Len(mem) - 1 |-> mem[j]]
    BY <1>3 DEF Front
  <2> QED BY <1>1, <1>3, <2>1, <2>2, StateTyped
<1> QED BY <1>2, <1>3 DEF Shift

\* The shift of one record of a deletion keeps it.
LEMMA ShiftTypes ==
  ASSUME IInv, Shift
  PROVE  IInv'
<1>1. n \in 1 .. Len(mem)
  BY DEF IInv, LoopInv, Shift
<1>2. /\ mem' \in Seq(Kept) /\ Len(mem') <= MaxAccounts /\ n' \in 0 .. MaxAccounts
      /\ pc' \in {"shift", "open"} /\ (pc' = "shift" => n' \in 1 .. Len(mem'))
  BY <1>1, ShiftedMem, StateTyped, BoundsAssumption
<1>3. TypeOK'
  BY <1>2 DEF IInv, TypeOK, PCs, Kept, Shift
<1>4. LoopInv' /\ SizeInv'
  BY <1>2 DEF IInv, LoopInv, SizeInv, Saving, Stopped, Shift
<1> QED BY <1>3, <1>4 DEF IInv

\* The exit and a signal keep it.
LEMMA ExitTypes ==
  ASSUME IInv, Exit \/ Signal
  PROVE  IInv'
<1>1. tmp' \in File /\ tmp'.count <= MaxAccounts /\ n' \in 0 .. MaxAccounts
  BY StateTyped, EmptyFiles, BoundsAssumption DEF Exit, Signal
<1>2. TypeOK'
  BY <1>1 DEF IInv, TypeOK, PCs, Exit, Signal
<1>3. LoopInv' /\ SizeInv'
  BY <1>1 DEF IInv, LoopInv, SizeInv, Saving, Stopped, Exit, Signal
<1> QED BY <1>2, <1>3 DEF IInv

\* The opening of the temporary file keeps it.
LEMMA SaveOpenTypes ==
  ASSUME IInv, SaveOpen
  PROVE  IInv'
<1>1. db' \in File /\ db'.count <= MaxAccounts /\ dir' = TRUE
  BY StateTyped DEF SaveOpen
<1>2. CASE /\ tmp' = Bad /\ pc' = "write" /\ n' = 0 /\ fault' = "none"
           /\ UNCHANGED <<mem, exiting, loaded>>
  <2>1. TypeOK'
    BY <1>1, <1>2, EmptyFiles, BoundsAssumption DEF IInv, TypeOK, PCs
  <2>2. LoopInv' /\ SizeInv'
    BY <1>1, <1>2, EmptyFiles, BoundsAssumption DEF IInv, LoopInv, SizeInv, Saving, Stopped
  <2> QED BY <2>1, <2>2 DEF IInv
<1>3. CASE Return
  BY <1>1, <1>3, ReturnTypes
<1> QED BY <1>2, <1>3 DEF SaveOpen

\* The write of a record to it keeps it.
LEMMA SaveWriteTypes ==
  ASSUME IInv, SaveWrite
  PROVE  IInv'
<1>1. db' = db /\ dir' = dir /\ dir
  BY DEF SaveWrite, IInv, LoopInv, Saving
<1>2. CASE n' = Len(mem) /\ pc' = "close" /\ UNCHANGED <<mem, tmp, exiting, loaded, fault>>
  <2>0. Len(mem) \in 0 .. MaxAccounts
    BY StateTyped, BoundsAssumption
  <2>1. TypeOK'
    BY <1>1, <1>2, <2>0 DEF IInv, TypeOK, PCs
  <2>2. LoopInv' /\ SizeInv'
    BY <1>1, <1>2 DEF IInv, LoopInv, SizeInv, Saving, Stopped
  <2> QED BY <2>1, <2>2 DEF IInv
<1>3. CASE Return
  BY <1>1, <1>3, ReturnTypes, StateTyped
<1> QED BY <1>2, <1>3 DEF SaveWrite

\* What is in the new file before it takes the old one's place.
LEMMA ClosedFile ==
  ASSUME IInv, SaveClose
  PROVE  /\ tmp' = Bad \/ \E k \in 0 .. Len(mem) : tmp' = Written(k)
         /\ fault' = "save" \/ (fault' = fault /\ tmp' = Written(Len(mem)))
<1>1. n = Len(mem) /\ n \in 0 .. Len(mem)
  BY StateTyped DEF IInv, LoopInv, SaveClose
<1> QED BY <1>1, BoundsAssumption DEF SaveClose

\* The close, where a full disk may show, keeps it.
LEMMA SaveCloseTypes ==
  ASSUME IInv, SaveClose
  PROVE  IInv'
<1>1. tmp' \in File /\ tmp'.count <= MaxAccounts
  <2>1. CASE tmp' = Bad
    BY <2>1, EmptyFiles, BoundsAssumption
  <2>2. CASE \E k \in 0 .. Len(mem) : tmp' = Written(k)
    BY <2>2, WrittenFile, StateTyped
  <2> QED BY <2>1, <2>2, ClosedFile
<1>2. TypeOK'
  <2>1. fault' \in {"none", "load", "save"}
    BY StateTyped DEF SaveClose
  <2> QED BY <1>1, <2>1 DEF IInv, TypeOK, PCs, SaveClose
<1>3. LoopInv' /\ SizeInv'
  BY <1>1 DEF IInv, LoopInv, SizeInv, Saving, Stopped, SaveClose
<1> QED BY <1>2, <1>3 DEF IInv

\* The renaming keeps it.
LEMMA SaveRenameTypes ==
  ASSUME IInv, SaveRename
  PROVE  IInv'
<1>1. db' \in File /\ db'.count <= MaxAccounts /\ dir' = TRUE
  BY StateTyped DEF SaveRename, IInv, LoopInv, Saving, TypeOK
<1> QED BY <1>1, ReturnTypes DEF SaveRename

\* A damage of the file from outside keeps it.
LEMMA CorruptTypes ==
  ASSUME IInv, Corrupt
  PROVE  IInv'
<1>1. db' \in File /\ db'.count <= MaxAccounts
  <2>1. CASE db' = Bad
    BY <2>1, EmptyFiles, BoundsAssumption
  <2>2. ASSUME NEW k \in DOMAIN db.recs, db' = [db EXCEPT !.recs[k].ok = FALSE]
        PROVE  db' \in File /\ db'.count <= MaxAccounts
    BY <2>2, DamagedFile, StateTyped
  <2> QED BY <2>1, <2>2 DEF Corrupt
<1>2. dir
  BY DEF Corrupt, IInv, TypeOK, Absent
<1>3. TypeOK'
  BY <1>1, <1>2 DEF IInv, TypeOK, Corrupt
<1>4. LoopInv' /\ SizeInv'
  BY <1>1 DEF IInv, LoopInv, SizeInv, Saving, Stopped, Corrupt
<1> QED BY <1>3, <1>4 DEF IInv

\* Every step keeps it.
LEMMA NextTypes ==
  ASSUME IInv, [Next]_vars
  PROVE  IInv'
<1>1. CASE UNCHANGED vars
  BY <1>1 DEF vars, IInv, TypeOK, LoopInv, SizeInv, Saving
<1>2. CASE Step
  BY <1>2, InitLoggerTypes, OpenDbTypes, LoadRecordTypes, LoadDoneTypes, BootstrapAdminTypes,
     ShiftTypes, SaveOpenTypes, SaveWriteTypes, SaveCloseTypes, SaveRenameTypes DEF Step
<1>3. ASSUME NEW i \in Ids, Create(i) PROVE IInv'
  BY <1>3, AppendTypes DEF Create
<1>4. ASSUME NEW k \in DOMAIN mem, Update(k) \/ Delete(k) PROVE IInv'
  BY <1>4, UpdateTypes, DeleteTypes
<1>5. CASE Crash
  BY <1>5, HaltTypes, StateTyped DEF Crash, Stopped
<1> QED BY <1>1, <1>2, <1>3, <1>4, <1>5, StartTypes, ExitTypes, LoadDoneTypes, CorruptTypes DEF Next

\* It is true at first.
LEMMA InitTypes ==
  ASSUME Init
  PROVE  IInv
<1>1. TypeOK
  <2>1. mem \in Seq({r \in Record : r.ok}) /\ Len(mem) <= MaxAccounts /\ n \in 0 .. MaxAccounts
    BY BoundsAssumption DEF Init
  <2>2. pc \in PCs
    BY DEF Init, PCs, Stopped
  <2> QED BY <2>1, <2>2, EmptyFiles DEF Init, TypeOK
<1>2. LoopInv /\ SizeInv
  BY EmptyFiles, BoundsAssumption DEF Init, LoopInv, SizeInv, Saving, Stopped
<1> QED BY <1>1, <1>2 DEF IInv

\* Whatever stops the program, whenever a signal comes and whatever the disk does, no record with
\* a wrong checksum is ever in memory, and no more records than it has room for.
THEOREM OnlyChecksummed == Spec => []TypeOK
<1>1. Init => IInv
  BY InitTypes
<1>2. IInv /\ [Next]_vars => IInv'
  BY NextTypes
<1>3. IInv => TypeOK
  BY DEF IInv
<1> QED BY <1>1, <1>2, <1>3, PTL DEF Spec

-----------------------------------------------------------------------------
(* A save writes all of memory, unless this very save's flush fails *)

\* Between fclose and rename the new file holds what memory holds, or the flush has failed.
ReadyFile == pc = "rename" => Whole(tmp) \/ (fault = "save" /\ CutShort(tmp))

\* The file that is written to its end holds what is in memory.
LEMMA WholeFile ==
  ASSUME mem \in Seq(Kept), Len(mem) <= MaxAccounts
  PROVE  LET f == Written(Len(mem))
         IN  f \in File /\ f.state = "good" /\ f.recs = mem /\ f.count = Len(mem)
<1>1. Len(mem) \in 0 .. Len(mem)
  OBVIOUS
<1>2. [j \in 1 .. Len(mem) |-> mem[j]] = mem
  OBVIOUS
<1> QED BY <1>1, <1>2, WrittenFile

\* The first records of memory are a prefix of it.
LEMMA FirstRecords ==
  ASSUME NEW S, NEW s \in Seq(S), NEW k \in 0 .. Len(s)
  PROVE  IsPrefix([j \in 1 .. k |-> s[j]], s)
BY DEF IsPrefix

\* So does a step that does not come to it.
LEMMA ReadyFileStep ==
  ASSUME IInv, [Next]_vars, ReadyFile
  PROVE  ReadyFile'
<1> SUFFICES ASSUME pc' = "rename"
             PROVE  (Whole(tmp) \/ (fault = "save" /\ CutShort(tmp)))'
  BY DEF ReadyFile
<1>1. CASE SaveClose
  <2>1. mem' = mem
    BY <1>1 DEF SaveClose
  <2>2. CASE tmp' = Written(Len(mem))
    BY <2>1, <2>2, WholeFile, StateTyped DEF Whole
  <2>3. CASE fault' = "save" /\ tmp' = Bad
    BY <2>3 DEF CutShort
  <2>4. ASSUME fault' = "save", NEW k \in 0 .. Len(mem), tmp' = Written(k)
        PROVE  (fault = "save" /\ CutShort(tmp))'
    <3>1. tmp'.count = Len(mem) /\ tmp'.state = "good" /\ tmp'.recs = [j \in 1 .. k |-> mem[j]]
      BY <2>4, WrittenFile, StateTyped
    <3>2. IsPrefix(tmp'.recs, mem)
      BY <3>1, FirstRecords, StateTyped
    <3> QED BY <2>1, <2>4, <3>1, <3>2 DEF CutShort
  <2> QED BY <1>1, <2>2, <2>3, <2>4, ClosedFile
<1>2. CASE pc = "rename" /\ UNCHANGED <<tmp, mem, fault>>
  BY <1>2 DEF ReadyFile, Whole, CutShort
<1>3. SaveClose \/ (pc = "rename" /\ UNCHANGED <<tmp, mem, fault>>)
  BY DEF Next, Step, vars, InitLogger, OpenDb, LoadRecord, LoadDone, BootstrapAdmin, Shift,
     SaveOpen, SaveWrite, SaveRename, Return, Halt, Start, MakeDir, Create, Update, Delete,
     Exit, Signal, ReadFails, Crash, Corrupt, Stopped
<1> QED BY <1>1, <1>2, <1>3

\* A file changes while the program runs only when it is replaced.
LEMMA DbChanges ==
  ASSUME [Next]_vars, db' # db
  PROVE  (SaveRename /\ db' = tmp) \/ (Corrupt /\ pc \in Stopped)
BY DEF Next, Step, vars, InitLogger, OpenDb, LoadRecord, LoadDone, BootstrapAdmin, Shift,
   SaveOpen, SaveWrite, SaveClose, SaveRename, Start, MakeDir, Create, Update, Delete,
   Exit, Signal, ReadFails, Crash, Corrupt

\* Whatever stops the program or fails, the account file is only ever replaced by all of
\* memory, header and records agreeing, or, when the flush of this very save failed in fclose,
\* by the first records of memory under a header that counts them all.
THEOREM SavesAreWhole == Spec => SaveIsWhole
<1>1. Init => IInv /\ ReadyFile
  BY InitTypes DEF Init, ReadyFile
<1>2. (IInv /\ ReadyFile) /\ [Next]_vars => (IInv /\ ReadyFile)'
  BY NextTypes, ReadyFileStep
<1>3. IInv /\ ReadyFile /\ [Next]_vars =>
        [db' # db /\ pc \notin Stopped => Whole(db') \/ (fault = "save" /\ CutShort(db'))]_vars
  BY DbChanges DEF SaveRename, ReadyFile, Whole, CutShort
<1> QED BY <1>1, <1>2, <1>3, PTL DEF Spec, SaveIsWhole

-----------------------------------------------------------------------------
(* Ids stay distinct, unless a signal saves the middle of acct_delete's loop *)

\* While acct_delete moves records, the one at n is there twice or is the one that goes.
DistinctBut(s, m) == \A j, k \in DOMAIN s \ {m} : s[j].id = s[k].id => j = k

\* What has been loaded comes from what has been read.
FromFile == \A k \in DOMAIN mem : \E j \in 1 .. n : j \in DOMAIN db.recs /\ mem[k].id = db.recs[j].id

IdsInv ==
  /\ pc # "shift" => Distinct(mem)
  /\ pc = "shift" => DistinctBut(mem, n)
  /\ pc = "load" => FromFile
  /\ Distinct(db.recs)
  /\ Distinct(tmp.recs)

\* The empty files have no id twice.
LEMMA EmptyDistinct == Distinct(<<>>) /\ Distinct(Absent.recs) /\ Distinct(Bad.recs)
BY EmptyFiles DEF Distinct

\* A record whose id is new can be appended.
LEMMA AppendDistinct ==
  ASSUME NEW S, NEW s \in Seq(S), NEW r, Distinct(s), \A k \in DOMAIN s : s[k].id # r.id
  PROVE  Distinct(Append(s, r))
<1> DEFINE t == Append(s, r)
<1>1. DOMAIN t = 1 .. Len(s) + 1 /\ t[Len(s) + 1] = r /\ \A k \in DOMAIN s : t[k] = s[k]
  OBVIOUS
<1>2. DOMAIN s = 1 .. Len(s) /\ Len(s) \in Nat
  OBVIOUS
<1> HIDE DEF t
<1>3. ASSUME NEW j \in DOMAIN t, NEW k \in DOMAIN t, t[j].id = t[k].id
      PROVE  j = k
  <2>1. CASE j \in DOMAIN s /\ k \in DOMAIN s
    BY <1>1, <1>3, <2>1 DEF Distinct
  <2>2. CASE j = Len(s) + 1 \/ k = Len(s) + 1
    BY <1>1, <1>2, <1>3, <2>2
  <2> QED BY <1>1, <1>2, <2>1, <2>2
<1> QED BY <1>3 DEF Distinct, t

\* The first records of a sequence whose ids are distinct.
LEMMA PrefixDistinct ==
  ASSUME NEW s, NEW t, Distinct(s), DOMAIN t \subseteq DOMAIN s,
         \A k \in DOMAIN t : t[k].id = s[k].id
  PROVE  Distinct(t)
BY DEF Distinct

\* A stop keeps the ids unique, the file being left with unique ones.
LEMMA HaltIds ==
  ASSUME IdsInv, NEW how \in Stopped, Halt(how), Distinct(db'.recs)
  PROVE  IdsInv'
<1>1. mem' = <<>> /\ tmp' = Absent /\ pc' \notin {"shift", "load"}
  BY DEF Halt, Stopped
<1> QED BY <1>1, EmptyDistinct DEF IdsInv

\* So does the return from a save.
LEMMA ReturnIds ==
  ASSUME IdsInv, Return, Distinct(db'.recs), pc # "shift"
  PROVE  IdsInv'
<1>1. CASE Halt("off")
  BY <1>1, HaltIds DEF Stopped
<1>2. CASE pc' = "ready" /\ n' = 0 /\ tmp' = Absent /\ UNCHANGED <<mem, exiting, loaded>>
  BY <1>2, EmptyDistinct DEF IdsInv
<1> QED BY <1>1, <1>2 DEF Return

\* The loading keeps them unique: every record of a file is loaded once.
LEMMA LoadRecordIds ==
  ASSUME IInv, IdsInv, LoadRecord
  PROVE  IdsInv'
<1>1. /\ n < Len(db.recs) /\ pc = "load" /\ pc' = "load" /\ n' = n + 1
      /\ db' = db /\ tmp' = tmp
  BY DEF LoadRecord, Loading
<1>2. n \in Nat /\ n + 1 \in DOMAIN db.recs
  BY <1>1, StateTyped
<1>3. Distinct(mem) /\ FromFile /\ Distinct(db.recs) /\ Distinct(tmp.recs)
  BY <1>1 DEF IdsInv
<1>4. CASE mem' = mem
  <2>1. FromFile'
    BY <1>1, <1>2, <1>3, <1>4 DEF FromFile
  <2> QED BY <1>1, <1>3, <1>4, <2>1 DEF IdsInv
<1>5. CASE mem' = Append(mem, db.recs[n + 1])
  <2> DEFINE r == db.recs[n + 1]
  <2>1. \A k \in DOMAIN mem : mem[k].id # r.id
    <3> SUFFICES ASSUME NEW k \in DOMAIN mem PROVE mem[k].id # r.id
      OBVIOUS
    <3>1. PICK j \in 1 .. n : j \in DOMAIN db.recs /\ mem[k].id = db.recs[j].id
      BY <1>3 DEF FromFile
    <3>2. j # n + 1
      BY <1>2
    <3> QED BY <1>2, <1>3, <3>1, <3>2 DEF Distinct
  <2> HIDE DEF r
  <2>2. Distinct(mem')
    BY <1>3, <1>5, <2>1, AppendDistinct, StateTyped DEF r
  <2>3. /\ DOMAIN mem' = 1 .. Len(mem) + 1 /\ mem'[Len(mem) + 1] = r
        /\ \A k \in DOMAIN mem : mem'[k] = mem[k]
        /\ DOMAIN mem = 1 .. Len(mem) /\ Len(mem) \in Nat
    BY <1>5, StateTyped DEF r
  <2>4. FromFile'
    <3> SUFFICES ASSUME NEW k \in DOMAIN mem'
                 PROVE  \E j \in 1 .. n + 1 : j \in DOMAIN db.recs /\ mem'[k].id = db.recs[j].id
      BY <1>1 DEF FromFile
    <3>1. CASE k \in DOMAIN mem
      <4>1. PICK j \in 1 .. n : j \in DOMAIN db.recs /\ mem[k].id = db.recs[j].id
        BY <1>3, <3>1 DEF FromFile
      <4>2. j \in 1 .. n + 1
        BY <1>2
      <4> QED BY <2>3, <3>1, <4>1, <4>2
    <3>2. CASE k = Len(mem) + 1
      <4>1. n + 1 \in 1 .. n + 1
        BY <1>2
      <4> QED BY <1>2, <2>3, <3>2, <4>1 DEF r
    <3> QED BY <2>3, <3>1, <3>2
  <2> QED BY <1>1, <1>3, <2>2, <2>4 DEF IdsInv
<1> QED BY <1>4, <1>5 DEF LoadRecord

\* A new account keeps them unique: an id in use is refused.
LEMMA CreateIds ==
  ASSUME IInv, IdsInv, NEW i \in Ids, MayCreate(i), mem' = Append(mem, NewRecord(i)), pc' = "open",
         pc # "shift", UNCHANGED <<db, tmp>>
  PROVE  IdsInv'
<1>1. \A k \in DOMAIN mem : mem[k].id # NewRecord(i).id
  BY DEF MayCreate, IdsOf, NewRecord
<1>2. Distinct(mem)
  BY DEF IdsInv
<1>3. Distinct(mem')
  BY <1>1, <1>2, AppendDistinct, StateTyped
<1> QED BY <1>3 DEF IdsInv

\* The shift of a deletion keeps them, up to the one record it has copied.
LEMMA ShiftIds ==
  ASSUME IInv, IdsInv, Shift
  PROVE  IdsInv'
<1>1. DistinctBut(mem, n) /\ Distinct(db'.recs) /\ Distinct(tmp'.recs)
  BY DEF IdsInv, Shift
<1>2. n \in 1 .. Len(mem) /\ DOMAIN mem = 1 .. Len(mem) /\ Len(mem) \in Nat
  BY StateTyped DEF IInv, LoopInv, Shift
<1>3. CASE /\ n < Len(mem) /\ n' = n + 1 /\ pc' = "shift"
           /\ DOMAIN mem' = DOMAIN mem
           /\ mem'[n] = mem[n + 1] /\ \A j \in DOMAIN mem \ {n} : mem'[j] = mem[j]
  <2>1. ASSUME NEW j \in DOMAIN mem' \ {n + 1}, NEW k \in DOMAIN mem' \ {n + 1},
               mem'[j].id = mem'[k].id
        PROVE  j = k
    <3> DEFINE old(m) == IF m = n THEN n + 1 ELSE m
    <3>1. \A m \in DOMAIN mem' \ {n + 1} : old(m) \in DOMAIN mem \ {n} /\ mem'[m] = mem[old(m)]
      BY <1>2, <1>3
    <3>2. old(j) = old(k)
      BY <1>1, <2>1, <3>1 DEF DistinctBut
    <3> QED BY <1>2, <2>1, <3>2
  <2>2. DistinctBut(mem, n)'
    BY <1>3, <2>1 DEF DistinctBut
  <2> QED BY <1>1, <1>3, <2>2 DEF IdsInv
<1>4. CASE /\ n = Len(mem) /\ n' = 0 /\ pc' = "open"
           /\ DOMAIN mem' = 1 .. Len(mem) - 1
           /\ \A j \in 1 .. Len(mem) - 1 : mem'[j] = mem[j]
  <2>1. \A j \in DOMAIN mem' : j \in DOMAIN mem \ {n} /\ mem'[j] = mem[j]
    BY <1>2, <1>4
  <2>2. Distinct(mem')
    BY <1>1, <2>1 DEF DistinctBut, Distinct
  <2> QED BY <1>1, <1>4, <2>2 DEF IdsInv
<1> QED BY <1>3, <1>4, ShiftedMem

\* The close of the temporary file keeps them.
LEMMA SaveCloseIds ==
  ASSUME IInv, IdsInv, SaveClose
  PROVE  IdsInv'
<1>1. Distinct(mem) /\ Distinct(db.recs)
  BY DEF IdsInv, SaveClose
<1>2. Distinct(tmp'.recs)
  <2>1. ASSUME NEW k \in 0 .. Len(mem), tmp' = Written(k) PROVE Distinct(tmp'.recs)
    <3>1. tmp'.recs = [j \in 1 .. k |-> mem[j]]
      BY <2>1, WrittenFile, StateTyped
    <3> DEFINE t == [j \in 1 .. k |-> mem[j]]
    <3>2. DOMAIN t \subseteq DOMAIN mem /\ \A j \in DOMAIN t : t[j].id = mem[j].id
      BY StateTyped
    <3>3. Distinct(t)
      BY <1>1, <3>2, PrefixDistinct
    <3> QED BY <3>1, <3>3
  <2> QED BY <2>1, ClosedFile, EmptyDistinct
<1> QED BY <1>1, <1>2 DEF IdsInv, SaveClose

\* A damage of the file keeps them: a record that does not match its checksum is not loaded.
LEMMA CorruptIds ==
  ASSUME IInv, IdsInv, Corrupt
  PROVE  IdsInv'
<1>1. Distinct(db'.recs)
  <2>1. ASSUME NEW k \in DOMAIN db.recs, db' = [db EXCEPT !.recs[k].ok = FALSE]
        PROVE  Distinct(db'.recs)
    <3>1. /\ DOMAIN db'.recs = DOMAIN db.recs
          /\ \A j \in DOMAIN db.recs : db'.recs[j].id = db.recs[j].id
      BY <2>1, DamagedFile, StateTyped
    <3> QED BY <3>1, PrefixDistinct DEF IdsInv
  <2> QED BY <2>1, EmptyDistinct DEF Corrupt
<1> QED BY <1>1 DEF IdsInv, Corrupt, Stopped

\* An update and the start of a deletion keep them.
LEMMA UpdateIds ==
  ASSUME IInv, IdsInv, NEW k \in DOMAIN mem, Update(k) \/ Delete(k)
  PROVE  IdsInv'
<1>1. CASE Update(k)
  <2>1. Distinct(mem')
    BY <1>1, UpdatedMem, PrefixDistinct DEF IdsInv, Update
  <2> QED BY <1>1, <2>1 DEF IdsInv, Update
<1>2. CASE Delete(k)
  BY <1>2 DEF IdsInv, Delete, Distinct, DistinctBut
<1> QED BY <1>1, <1>2

\* Every step keeps them, where no signal is taken within a deletion.
LEMMA NextIds ==
  ASSUME IInv, IdsInv, [Next]_vars, "shift" \notin SignalAt
  PROVE  IdsInv'
<1>1. CASE UNCHANGED vars
  BY <1>1 DEF vars, IdsInv, FromFile
<1>2. CASE InitLogger \/ OpenDb \/ Crash
  <2>1. Distinct(db'.recs)
    BY <1>2 DEF IdsInv, InitLogger, OpenDb, Crash
  <2>2. CASE \E how \in Stopped : Halt(how)
    BY <2>1, <2>2, HaltIds
  <2>3. CASE pc' \in {"init", "admin"} /\ UNCHANGED <<mem, tmp>> /\ pc # "shift"
    BY <2>1, <2>3 DEF IdsInv
  <2>4. CASE pc = "init" /\ pc' = "load" /\ UNCHANGED <<mem, tmp, n>>
    <3>1. mem = <<>>
      BY <2>4 DEF IInv, LoopInv
    <3>2. FromFile' /\ Distinct(mem')
      BY <2>4, <3>1, EmptyDistinct DEF FromFile
    <3> QED BY <2>1, <2>4, <3>2 DEF IdsInv
  <2> QED BY <1>2, <2>2, <2>3, <2>4 DEF InitLogger, OpenDb, Crash, Stopped
<1>3. CASE LoadDone \/ ReadFails \/ Exit \/ Start \/ MakeDir
  BY <1>3 DEF IdsInv, LoadDone, ReadFails, Exit, Start, MakeDir, Stopped
<1>4. CASE BootstrapAdmin
  <2>1. CASE MayCreate(AdminId)
    BY <1>4, <2>1, CreateIds, IdsAssumption DEF BootstrapAdmin
  <2>2. CASE ~MayCreate(AdminId)
    BY <1>4, <2>2 DEF BootstrapAdmin, IdsInv
  <2> QED BY <2>1, <2>2
<1>5. ASSUME NEW i \in Ids, Create(i) PROVE IdsInv'
  BY <1>5, CreateIds DEF Create
<1>6. CASE Signal
  BY <1>6, EmptyDistinct DEF Signal, IdsInv
<1>7. CASE SaveOpen
  <2>1. CASE Return
    BY <1>7, <2>1, ReturnIds DEF SaveOpen, IdsInv
  <2>2. CASE tmp' = Bad /\ pc' = "write" /\ UNCHANGED mem
    BY <1>7, <2>2, EmptyDistinct DEF SaveOpen, IdsInv
  <2> QED BY <1>7, <2>1, <2>2 DEF SaveOpen
<1>8. CASE SaveWrite
  <2>1. CASE Return
    BY <1>8, <2>1, ReturnIds DEF SaveWrite, IdsInv
  <2>2. CASE pc' = "close" /\ UNCHANGED <<mem, tmp>>
    BY <1>8, <2>2 DEF SaveWrite, IdsInv
  <2> QED BY <1>8, <2>1, <2>2 DEF SaveWrite
<1>9. CASE SaveRename
  BY <1>9, ReturnIds DEF SaveRename, IdsInv
<1> QED BY <1>1, <1>2, <1>3, <1>4, <1>5, <1>6, <1>7, <1>8, <1>9, LoadRecordIds, ShiftIds,
       SaveCloseIds, CorruptIds, UpdateIds DEF Next, Step

\* Unless a signal finds acct_delete in its loop, an id names one account in memory at every
\* prompt; and it does in the file whatever stops the program.
THEOREM IdsAreUnique ==
  ASSUME "shift" \notin SignalAt
  PROVE  Spec => []UniqueIds
<1>1. Init => IInv /\ IdsInv
  BY InitTypes, EmptyDistinct DEF Init, IdsInv
<1>2. (IInv /\ IdsInv) /\ [Next]_vars => (IInv /\ IdsInv)'
  BY NextTypes, NextIds
<1>3. IdsInv => UniqueIds
  BY DEF IdsInv, UniqueIds
<1> QED BY <1>1, <1>2, <1>3, PTL DEF Spec

-----------------------------------------------------------------------------
(* The account file keeps DurableStore's promise, where a signal finds the program at a prompt or *)
(* in a save                                                                                      *)

\* The states before the file is loaded.
Early == {"boot", "init", "load"}

SignalsWait == SignalAt \cap (Early \cup {"shift"}) = {}

\* DurableStore's state.
CurrentSet == IF Up THEN Content(Current) ELSE {}
SavedSet == IF db.state = "good" THEN Content(db.recs) ELSE {}
Pair == [id : Ids, rev : 0 .. MaxRev]

\* What the loop of db_load_accounts has made of the first n records.
LoadedSoFar ==
  Content(mem) = {[id |-> db.recs[k].id, rev |-> db.recs[k].rev] :
                    k \in {j \in DOMAIN db.recs : j <= n /\ db.recs[j].ok}}

StoreInv ==
  /\ loaded <=> pc \notin Stopped \cup Early
  /\ ~loaded => fault = "none"
  /\ db.state = "good" => Len(db.recs) <= db.count
  /\ pc = "load" => db.state = "good" /\ LoadedSoFar

\* The content of a sequence of records is of pairs of an id and a version.
LEMMA ContentTyped ==
  ASSUME NEW s \in Seq(Record)
  PROVE  Content(s) \subseteq Pair
<1>1. ASSUME NEW k \in DOMAIN s PROVE [id |-> s[k].id, rev |-> s[k].rev] \in Pair
  <2>1. s[k] \in Record
    OBVIOUS
  <2> QED BY <2>1 DEF Record, Pair
<1> QED BY <1>1 DEF Content

\* A sequence with one of its members removed is of the same members.
LEMMA RemovedTyped ==
  ASSUME NEW S, NEW s \in Seq(S), NEW i \in 1 .. Len(s)
  PROVE  RemoveAt(s, i) \in Seq(S)
BY DEF RemoveAt

\* An empty sequence has no content.
LEMMA ContentEmpty == Content(<<>>) = {}
BY DEF Content

\* What is cut short says nothing that the whole does not say.
LEMMA PrefixContent ==
  ASSUME NEW S, NEW s \in Seq(S), NEW t \in Seq(S), IsPrefix(s, t)
  PROVE  Len(s) <= Len(t) /\ Content(s) \subseteq Content(t)
<1>1. /\ Len(s) <= Len(t) /\ DOMAIN s \subseteq DOMAIN t
      /\ \A k \in DOMAIN s : s[k] = t[k]
  BY DEF IsPrefix
<1> QED BY <1>1 DEF Content

\* A record that is loaded adds what it says to the content.
LEMMA ContentAppend ==
  ASSUME NEW s \in Seq(Kept), NEW r \in Kept
  PROVE  Content(Append(s, r)) = Content(s) \cup {[id |-> r.id, rev |-> r.rev]}
<1> DEFINE t == Append(s, r)
           pair(x) == [id |-> x.id, rev |-> x.rev]
<1>1. /\ DOMAIN t = DOMAIN s \cup {Len(s) + 1} /\ t[Len(s) + 1] = r
      /\ \A k \in DOMAIN s : t[k] = s[k]
  OBVIOUS
<1>2. r.ok
  BY DEF Kept
<1> HIDE DEF t
<1>3. Content(t) = {pair(t[k]) : k \in {j \in DOMAIN t : t[j].ok}}
  BY DEF Content
<1>4. Content(s) = {pair(s[k]) : k \in {j \in DOMAIN s : s[j].ok}}
  BY DEF Content
<1> HIDE DEF pair
<1>5. Content(t) = Content(s) \cup {pair(r)}
  BY <1>1, <1>2, <1>3, <1>4
<1> QED BY <1>5 DEF t, pair

\* A stop keeps the invariant of the refinement.
LEMMA StoreInvHalt ==
  ASSUME StoreInv, NEW how \in Stopped, Halt(how), db'.state = "good" => Len(db'.recs) <= db'.count
  PROVE  StoreInv'
BY DEF StoreInv, Halt, Stopped, Early

\* The return from a save keeps it.
LEMMA StoreInvReturn ==
  ASSUME StoreInv, Return, db'.state = "good" => Len(db'.recs) <= db'.count,
         pc \notin Stopped \cup Early
  PROVE  StoreInv'
<1>1. CASE Halt("off")
  BY <1>1, StoreInvHalt DEF Stopped
<1>2. CASE pc' = "ready" /\ loaded' = loaded /\ fault' = "none"
  BY <1>2 DEF StoreInv, Stopped, Early
<1> QED BY <1>1, <1>2 DEF Return

\* The loading of a record keeps it.
LEMMA StoreInvLoad ==
  ASSUME IInv, StoreInv, LoadRecord
  PROVE  StoreInv'
<1>1. /\ n < Len(db.recs) /\ pc = "load" /\ pc' = "load" /\ n' = n + 1
      /\ db' = db /\ loaded' = loaded /\ fault' = fault
  BY DEF LoadRecord, Loading
<1>2. n \in Nat /\ n + 1 \in DOMAIN db.recs
  BY <1>1, StateTyped
<1> DEFINE pair(x) == [id |-> x.id, rev |-> x.rev]
           r == db.recs[n + 1]
           D == DOMAIN db.recs
<1>3. Content(mem) = {pair(db.recs[k]) : k \in {j \in D : j <= n /\ db.recs[j].ok}}
  BY <1>1 DEF StoreInv, LoadedSoFar
<1>4. \A j \in D : j <= n + 1 <=> j <= n \/ j = n + 1
  BY <1>2, StateTyped
<1>5. r \in Record
  BY <1>2, StateTyped
<1>6. Content(mem') = {pair(db.recs[k]) : k \in {j \in D : j <= n + 1 /\ db.recs[j].ok}}
  <2>1. CASE r.ok /\ mem' = Append(mem, r)
    <3>1. r \in Kept
      BY <1>5, <2>1 DEF Kept
    <3>2. Content(mem') = Content(mem) \cup {pair(r)}
      BY <2>1, <3>1, ContentAppend, StateTyped
    <3> HIDE DEF pair
    <3> QED BY <1>2, <1>3, <1>4, <2>1, <3>2
  <2>2. CASE ~r.ok /\ mem' = mem
    <3> HIDE DEF pair
    <3> QED BY <1>2, <1>3, <1>4, <2>2
  <2> QED BY <2>1, <2>2 DEF LoadRecord, Accepted
<1>7. LoadedSoFar'
  BY <1>1, <1>6 DEF LoadedSoFar
<1> QED BY <1>1, <1>7 DEF StoreInv

\* The opening of the file keeps it.
LEMMA StoreInvOpenDb ==
  ASSUME IInv, StoreInv, OpenDb
  PROVE  StoreInv'
<1>1. db' = db /\ mem = <<>> /\ n = 0 /\ (db'.state = "good" => Len(db'.recs) <= db'.count)
  BY DEF OpenDb, IInv, LoopInv, StoreInv
<1>2. CASE Halt("refused")
  BY <1>1, <1>2, StoreInvHalt DEF Stopped
<1>3. CASE pc = "init" /\ pc' = "admin" /\ loaded' = TRUE
  BY <1>1, <1>3 DEF StoreInv, Stopped, Early
<1>4. CASE pc = "init" /\ db.state = "good" /\ pc' = "load" /\ UNCHANGED <<mem, n, loaded, fault>>
  <2>1. {j \in DOMAIN db.recs : j <= 0 /\ db.recs[j].ok} = {}
    BY StateTyped
  <2>2. LoadedSoFar'
    BY <1>1, <1>4, <2>1, ContentEmpty DEF LoadedSoFar
  <2> QED BY <1>1, <1>4, <2>2 DEF StoreInv, Stopped, Early
<1> QED BY <1>2, <1>3, <1>4 DEF OpenDb

\* The renaming keeps it: what is in its place is whole.
LEMMA StoreInvRename ==
  ASSUME IInv, ReadyFile, StoreInv, SaveRename
  PROVE  StoreInv'
<1>1. db'.state = "good" => Len(db'.recs) <= db'.count
  <2>1. CASE db' = db
    BY <2>1 DEF StoreInv
  <2>2. CASE db' = tmp /\ Whole(tmp)
    BY <2>2, StateTyped DEF Whole
  <2>3. CASE db' = tmp /\ CutShort(tmp)
    BY <2>3, PrefixContent, EmptyFiles, StateTyped DEF CutShort, Kept, File
  <2> QED BY <2>1, <2>2, <2>3 DEF SaveRename, ReadyFile
<1> QED BY <1>1, StoreInvReturn DEF SaveRename, Stopped, Early

\* A damage of the file keeps it.
LEMMA StoreInvCorrupt ==
  ASSUME IInv, StoreInv, Corrupt
  PROVE  StoreInv'
<1>1. db'.state = "good" => Len(db'.recs) <= db'.count
  <2>1. ASSUME NEW k \in DOMAIN db.recs, db' = [db EXCEPT !.recs[k].ok = FALSE]
        PROVE  db'.state = "good" => Len(db'.recs) <= db'.count
    BY <2>1, DamagedFile, StateTyped DEF StoreInv
  <2> QED BY <2>1, EmptyFiles DEF Corrupt
<1> QED BY <1>1 DEF StoreInv, Corrupt, Stopped

\* Every step keeps it, where signals wait for the end of a save.
LEMMA NextStoreInv ==
  ASSUME IInv, ReadyFile, StoreInv, [Next]_vars, SignalsWait
  PROVE  StoreInv'
<1>0. db' = db => (db'.state = "good" => Len(db'.recs) <= db'.count)
  BY DEF StoreInv
<1>1. CASE UNCHANGED vars
  BY <1>1 DEF vars, StoreInv, LoadedSoFar
<1>2. CASE InitLogger \/ Crash
  <2>1. CASE \E how \in Stopped : Halt(how)
    BY <1>0, <1>2, <2>1, StoreInvHalt DEF InitLogger, Crash
  <2>2. CASE pc = "boot" /\ pc' = "init" /\ UNCHANGED <<loaded, fault>>
    BY <1>2, <1>0, <2>2 DEF StoreInv, InitLogger, Crash, Stopped, Early
  <2> QED BY <1>2, <2>1, <2>2 DEF InitLogger, Crash, Stopped
<1>3. CASE LoadDone \/ ReadFails \/ BootstrapAdmin \/ Shift \/ SaveClose \/ Start \/ MakeDir \/ Exit
  BY <1>3 DEF StoreInv, LoadDone, ReadFails, BootstrapAdmin, Shift, SaveClose, Start, MakeDir, Exit, Stopped, Early
<1>4. CASE \/ \E i \in Ids : Create(i)
           \/ \E k \in DOMAIN mem : Update(k) \/ Delete(k)
  BY <1>4 DEF StoreInv, Create, Update, Delete, Stopped, Early
<1>5. CASE Signal
  <2>1. pc \notin Stopped \cup Early
    BY <1>5, SignalAssumption DEF Signal, SignalsWait
  <2> QED BY <1>5, <2>1 DEF Signal, StoreInv, Stopped, Early
<1>6. CASE SaveOpen \/ SaveWrite
  <2>1. db' = db /\ pc \notin Stopped \cup Early
    BY <1>6 DEF SaveOpen, SaveWrite, Stopped, Early
  <2>2. CASE Return
    BY <1>0, <2>1, <2>2, StoreInvReturn
  <2>3. CASE pc' \in {"write", "close"} /\ loaded' = loaded
    BY <2>1, <2>3 DEF StoreInv, Stopped, Early
  <2> QED BY <1>6, <2>2, <2>3 DEF SaveOpen, SaveWrite
<1> QED BY <1>1, <1>2, <1>3, <1>4, <1>5, <1>6, StoreInvLoad, StoreInvOpenDb, StoreInvRename,
       StoreInvCorrupt DEF Next, Step

\* The steps of DurableStore, of the state that stands for its own.
AbsStart ==
  /\ ~Up /\ Up' /\ SavedSet' = SavedSet
  /\ \/ fault' = "none" /\ CurrentSet' = SavedSet
     \/ fault' = "load" /\ CurrentSet' \subseteq SavedSet
AbsChange == Up /\ Up' /\ CurrentSet' \subseteq Pair /\ SavedSet' = SavedSet /\ fault' = fault
AbsPrepare ==
  /\ Up /\ Up' /\ fault' \in {"none", "save"}
  /\ CurrentSet' = CurrentSet /\ SavedSet' = SavedSet
AbsSave ==
  /\ Up /\ fault' = "none"
  /\ SavedSet' = CurrentSet \/ (fault = "save" /\ SavedSet' \subseteq CurrentSet)
  /\ CurrentSet' = IF Up' THEN CurrentSet ELSE {}
AbsStop == Up /\ ~Up' /\ CurrentSet' = {} /\ SavedSet' = SavedSet /\ fault' = "none"
AbsDecay ==
  ~Up /\ SavedSet' \subseteq SavedSet /\ ~Up' /\ CurrentSet' = CurrentSet /\ fault' = fault
AbsStutter == Up' = Up /\ CurrentSet' = CurrentSet /\ SavedSet' = SavedSet /\ fault' = fault
AbsNext == AbsStart \/ AbsChange \/ AbsPrepare \/ AbsSave \/ AbsStop \/ AbsDecay \/ AbsStutter

\* A step between the abstract states is one of the durable store, or a stutter.
LEMMA AbsIsStore ==
  ASSUME AbsNext
  PROVE  [Store!Next]_Store!vars
<1>1. Up \in BOOLEAN /\ Up' \in BOOLEAN
  BY DEF Up
<1> QED BY <1>1 DEF AbsNext, AbsStart, AbsChange, AbsPrepare, AbsSave, AbsStop, AbsDecay,
     AbsStutter, CurrentSet, SavedSet, Pair, Store!Next, Store!vars, Store!Start, Store!Change,
     Store!Prepare, Store!Save, Store!Stop, Store!Decay

\* A step of a run that has not loaded the file, and does not, changes nothing.
LEMMA EarlyStutters ==
  ASSUME ~Up, ~Up', db' = db, fault' = fault
  PROVE  AbsStutter
BY DEF AbsStutter, CurrentSet, SavedSet, Up

\* One that changes memory is a change.
LEMMA RunningChanges ==
  ASSUME IInv', Up, Up', db' = db, fault' = fault
  PROVE  AbsChange
<1>1. mem' \in Seq(Record)
  BY DEF IInv, TypeOK
<1>2. pc' = "shift" => n' \in 1 .. Len(mem')
  BY DEF IInv, LoopInv
<1>3. Current' \in Seq(Record)
  BY <1>1, <1>2, RemovedTyped DEF Current
<1>4. Content(Current') \subseteq Pair
  BY <1>3, ContentTyped
<1>5. CurrentSet' = Content(Current')
  BY DEF CurrentSet, Content
<1> QED BY <1>4, <1>5 DEF AbsChange, SavedSet

\* One of a save that leaves memory and the file alone only prepares it.
LEMMA SavingPrepares ==
  ASSUME Up, Up', UNCHANGED <<mem, db>>, pc # "shift", pc' # "shift", fault' \in {"none", "save"}
  PROVE  AbsPrepare
BY DEF AbsPrepare, CurrentSet, SavedSet, Current, Content

\* One that stops the program loses what was not saved.
LEMMA HaltStops ==
  ASSUME StoreInv, NEW how \in Stopped, Halt(how), db' = db
  PROVE  AbsStop \/ AbsStutter
<1>1. ~Up' /\ fault' = "none"
  BY DEF Halt, Up
<1>2. ~Up => fault = "none"
  BY DEF StoreInv, Up
<1> QED BY <1>1, <1>2, EarlyStutters DEF AbsStop, CurrentSet, SavedSet

\* The return from a save that left the file alone is a step of the durable store.
LEMMA ReturnSteps ==
  ASSUME StoreInv, Return, db' = db, Up, pc # "shift"
  PROVE  AbsNext
<1>1. CASE Halt("off")
  BY <1>1, HaltStops DEF AbsNext, Stopped
<1>2. CASE pc' = "ready" /\ fault' = "none" /\ UNCHANGED <<mem, loaded>>
  <2>1. Up'
    BY <1>2 DEF Up, Stopped
  <2> QED BY <1>2, <2>1, SavingPrepares DEF AbsNext
<1> QED BY <1>1, <1>2 DEF Return

\* The start of a run that has a file finds in memory what the file holds, or, where a read
\* failed, some of it.
LEMMA LoadDoneStarts ==
  ASSUME IInv, StoreInv, LoadDone \/ ReadFails
  PROVE  AbsStart
<1>1. /\ pc = "load" /\ pc' = "admin" /\ loaded' = TRUE /\ mem' = mem /\ db' = db
      /\ (~Loading /\ fault' = fault) \/ fault' = "load"
  BY DEF LoadDone, ReadFails
<1>2. /\ ~loaded /\ fault = "none" /\ db.state = "good" /\ Len(db.recs) <= db.count
      /\ LoadedSoFar
  BY <1>1 DEF StoreInv, Early
<1>3. Content(mem) \subseteq Content(db.recs)
  BY <1>2 DEF LoadedSoFar, Content
<1>4. ASSUME ~Loading PROVE Content(mem) = Content(db.recs)
  <2>1. \A j \in DOMAIN db.recs : j <= n
    BY <1>2, <1>4, StateTyped DEF Loading
  <2>2. {j \in DOMAIN db.recs : j <= n /\ db.recs[j].ok} = {j \in DOMAIN db.recs : db.recs[j].ok}
    BY <2>1
  <2> QED BY <1>2, <2>2 DEF LoadedSoFar, Content
<1>5. /\ ~Up /\ Up' /\ SavedSet' = SavedSet /\ SavedSet = Content(db.recs)
      /\ CurrentSet' = Content(mem)
  BY <1>1, <1>2 DEF Up, CurrentSet, SavedSet, Current, Content, Stopped
<1> QED BY <1>1, <1>2, <1>3, <1>4, <1>5 DEF AbsStart

\* So is the opening of the file: a start, if it finds none to load, or the end of the run.
LEMMA OpenDbSteps ==
  ASSUME IInv, StoreInv, OpenDb
  PROVE  AbsNext
<1>1. pc = "init" /\ db' = db /\ mem = <<>> /\ ~loaded
  BY DEF OpenDb, IInv, LoopInv, StoreInv, Early
<1>2. CASE Halt("refused")
  BY <1>1, <1>2, HaltStops DEF AbsNext, Stopped
<1>3. CASE /\ pc' = "admin" /\ loaded' = TRUE /\ UNCHANGED mem
           /\ fault' = IF db.state = "absent" THEN "none" ELSE "load"
  <2>1. Content(mem) = {}
    BY <1>1, ContentEmpty
  <2>2. ~Up /\ Up' /\ SavedSet' = SavedSet /\ CurrentSet' = {}
    BY <1>1, <1>3, <2>1 DEF Up, CurrentSet, SavedSet, Current, Content, Stopped
  <2>3. db.state = "absent" => SavedSet = {}
    BY DEF SavedSet
  <2>4. AbsStart
    BY <1>3, <2>2, <2>3 DEF AbsStart
  <2> QED BY <2>4 DEF AbsNext
<1>4. CASE pc' = "load" /\ UNCHANGED <<loaded, fault>>
  BY <1>1, <1>4, EarlyStutters DEF AbsNext, Up
<1> QED BY <1>2, <1>3, <1>4 DEF OpenDb

\* The rename makes all of memory durable, or less where the flush failed, or leaves the
\* old file.
LEMMA SaveRenameSteps ==
  ASSUME IInv, ReadyFile, StoreInv, SaveRename
  PROVE  AbsNext
<1>1. pc = "rename" /\ Up
  BY DEF SaveRename, StoreInv, Up, Stopped, Early
<1>2. CASE db' = db
  BY <1>1, <1>2, ReturnSteps DEF SaveRename
<1>3. CASE db' = tmp
  <2>1. CurrentSet = Content(mem)
    BY <1>1 DEF CurrentSet, Current, Content
  <2>2. SavedSet' = CurrentSet \/ (fault = "save" /\ SavedSet' \subseteq CurrentSet)
    <3>1. CASE Whole(tmp)
      BY <1>3, <2>1, <3>1 DEF Whole, SavedSet, Content
    <3>2. CASE fault = "save" /\ tmp = Bad
      BY <1>3, <3>2, EmptyFiles DEF SavedSet
    <3>3. CASE fault = "save" /\ tmp.state = "good" /\ IsPrefix(tmp.recs, mem)
      <4>1. tmp.recs \in Seq(Record) /\ mem \in Seq(Record)
        BY StateTyped DEF File, Kept
      <4>2. Content(tmp.recs) \subseteq Content(mem)
        BY <3>3, <4>1, PrefixContent
      <4>3. SavedSet' = Content(tmp.recs)
        BY <1>3, <3>3 DEF SavedSet, Content
      <4> QED BY <2>1, <3>3, <4>2, <4>3
    <3> QED BY <1>1, <3>1, <3>2, <3>3 DEF ReadyFile, CutShort
  <2>3. CASE Halt("off")
    <3>1. ~Up' /\ fault' = "none"
      BY <2>3 DEF Halt, Up
    <3> QED BY <1>1, <2>2, <3>1 DEF AbsNext, AbsSave, CurrentSet
  <2>4. CASE pc' = "ready" /\ fault' = "none" /\ UNCHANGED <<mem, loaded>>
    <3>1. Up' /\ CurrentSet' = Content(mem)
      BY <1>1, <2>4 DEF Up, CurrentSet, Current, Content, Stopped
    <3> QED BY <1>1, <2>1, <2>2, <2>4, <3>1 DEF AbsNext, AbsSave
  <2> QED BY <2>3, <2>4 DEF SaveRename, Return
<1> QED BY <1>2, <1>3 DEF SaveRename

\* A damage of the file is the decay of the durable store.
LEMMA CorruptDecays ==
  ASSUME IInv, StoreInv, Corrupt
  PROVE  AbsDecay
<1>1. ~Up /\ ~Up' /\ fault' = fault
  BY DEF Corrupt, Up
<1>2. SavedSet' \subseteq SavedSet
  <2>1. CASE db' = Bad
    BY <2>1, EmptyFiles DEF SavedSet
  <2>2. ASSUME NEW k \in DOMAIN db.recs, db' = [db EXCEPT !.recs[k].ok = FALSE]
        PROVE  SavedSet' \subseteq SavedSet
    <3>1. /\ DOMAIN db'.recs = DOMAIN db.recs /\ db'.state = db.state
          /\ \A j \in DOMAIN db.recs : /\ db'.recs[j].id = db.recs[j].id
                                       /\ db'.recs[j].rev = db.recs[j].rev
                                       /\ db'.recs[j].ok => db.recs[j].ok
      BY <2>2, DamagedFile, StateTyped
    <3>2. Content(db'.recs) \subseteq Content(db.recs)
      BY <3>1 DEF Content
    <3>3. SavedSet' = IF db'.state = "good" THEN Content(db'.recs) ELSE {}
      BY DEF SavedSet, Content
    <3> QED BY <3>1, <3>2, <3>3 DEF SavedSet
  <2> QED BY <2>1, <2>2 DEF Corrupt
<1> QED BY <1>1, <1>2 DEF AbsDecay, CurrentSet

\* Every step is a step of the durable store, or a stutter.
LEMMA NextSteps ==
  ASSUME IInv, IInv', ReadyFile, StoreInv, [Next]_vars, SignalsWait
  PROVE  AbsNext
<1>1. CASE UNCHANGED vars
  BY <1>1 DEF AbsNext, AbsStutter, Up, CurrentSet, SavedSet, Current, Content, vars
<1>2. CASE InitLogger \/ LoadRecord \/ Start \/ MakeDir
  <2>1. db' = db /\ ~Up
    BY <1>2 DEF InitLogger, LoadRecord, Start, MakeDir, Up, StoreInv, Early
  <2>2. ~Up' /\ fault' = fault
    BY <1>2 DEF InitLogger, LoadRecord, Start, MakeDir, Up, StoreInv, Early, Halt, Stopped
  <2> QED BY <2>1, <2>2, EarlyStutters DEF AbsNext
<1>3. CASE \/ BootstrapAdmin \/ Shift \/ Exit
           \/ \E i \in Ids : Create(i)
           \/ \E k \in DOMAIN mem : Update(k) \/ Delete(k)
  <2>1. db' = db /\ fault' = fault /\ Up
    BY <1>3 DEF BootstrapAdmin, Shift, Exit, Create, Update, Delete, Up, StoreInv, Early, Stopped
  <2>2. Up'
    BY <1>3, <2>1 DEF BootstrapAdmin, Shift, Exit, Create, Update, Delete, Up, Stopped
  <2> QED BY <2>1, <2>2, RunningChanges DEF AbsNext
<1>4. CASE Signal
  <2>1. pc \notin Stopped \cup Early
    BY <1>4, SignalAssumption DEF Signal, SignalsWait
  <2>2. Up /\ Up' /\ db' = db /\ fault' = fault
    BY <1>4, <2>1 DEF Up, StoreInv, Signal, Stopped
  <2> QED BY <2>2, RunningChanges DEF AbsNext
<1>5. CASE SaveOpen \/ SaveWrite \/ SaveClose
  <2>1. db' = db /\ Up /\ pc # "shift"
    BY <1>5 DEF SaveOpen, SaveWrite, SaveClose, StoreInv, Up, Stopped, Early
  <2>2. CASE Return
    BY <2>1, <2>2, ReturnSteps
  <2>3. CASE pc' \in {"write", "close", "rename"} /\ UNCHANGED <<mem, loaded>>
    <3>1. Up' /\ pc' # "shift"
      BY <2>1, <2>3 DEF Up, Stopped
    <3>2. CASE fault' = fault
      BY <2>1, <3>1, <3>2, RunningChanges DEF AbsNext
    <3>3. CASE fault' \in {"none", "save"}
      BY <2>1, <2>3, <3>1, <3>3, SavingPrepares DEF AbsNext
    <3> QED BY <1>5, <2>3, <3>2, <3>3 DEF SaveOpen, SaveWrite, SaveClose, Return, Halt
  <2> QED BY <1>5, <2>2, <2>3 DEF SaveOpen, SaveWrite, SaveClose
<1>6. CASE Crash
  BY <1>6, HaltStops DEF Crash, AbsNext, Stopped
<1>7. CASE LoadDone \/ ReadFails \/ Corrupt
  BY <1>7, LoadDoneStarts, CorruptDecays DEF AbsNext
<1> QED BY <1>1, <1>2, <1>3, <1>4, <1>5, <1>6, <1>7, OpenDbSteps, SaveRenameSteps DEF Next, Step

\* The account file keeps DurableStore's promise: a start finds what was last saved, less what
\* the disk has lost; a save makes all of memory durable at once or not at all; a stop loses what
\* was not saved and nothing else.  Where the disk fails unnoticed, a load that could not read the
\* file and the save whose flush failed may lose accounts, and neither makes any up.
THEOREM FileIsDurable ==
  ASSUME SignalsWait
  PROVE  Spec => Durable
<1>1. Init => IInv /\ ReadyFile /\ StoreInv
  BY InitTypes, EmptyFiles DEF Init, ReadyFile, StoreInv, Stopped, Early
<1>2. IInv /\ ReadyFile /\ StoreInv /\ [Next]_vars => (IInv /\ ReadyFile /\ StoreInv)'
  BY NextTypes, ReadyFileStep, NextStoreInv
<1>3. Init => Store!Init
  BY EmptyFiles DEF Init, Store!Init, Up
<1>4. IInv /\ IInv' /\ ReadyFile /\ StoreInv /\ [Next]_vars => [Store!Next]_Store!vars
  BY NextSteps, AbsIsStore
<1> QED BY <1>1, <1>2, <1>3, <1>4, PTL DEF Spec, Durable, Store!Spec

=============================================================================
