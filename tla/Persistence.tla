----------------------------- MODULE Persistence -----------------------------
(***************************************************************************)
(* The account file: database.c, and of main.c the start, the shutdown and   *)
(* the signal handler.  The program is one thread, but it may be stopped     *)
(* between any two steps, and handle_signal may run between any two, save    *)
(* what it finds in memory, and exit.                                        *)
(*                                                                          *)
(*   mem      g_accounts[0 .. g_account_count-1]                            *)
(*   db       data/accounts.dat                                             *)
(*   tmp      data/accounts.tmp while it is written (one that is left behind *)
(*            is truncated by the next save and never read: it is not kept)  *)
(*   dir      whether data/ exists                                          *)
(*   pc       where the program is; n is the index of the loop it is in     *)
(*   exiting  whether the save under way is the last one                    *)
(*   loaded   history: whether db_init has returned in this run             *)
(*   fault    history: which unnoticed failure of the disk the next save may *)
(*            make lasting: one of the load, or one of the save under way    *)
(*                                                                          *)
(* A record is its account's id and a revision that stands for all its other *)
(* fields; ok says whether its checksum matches them.  An operation of the   *)
(* account engine is one step, save acct_delete's loop, and one of those     *)
(* that succeed is followed by db_save_accounts.                             *)
(***************************************************************************)
EXTENDS Naturals, Sequences, FiniteSets, SequencesExt

CONSTANTS Ids, AdminId,
          MaxAccounts,  \* MAX_ACCOUNTS
          MaxRev,       \* bound: revisions of a record
          MaxRevised,   \* bound: records with a revision, at a time
          MaxDamaged,   \* bound: damaged records of the file
          SignalAt,     \* the values of pc at which a signal may arrive
          Faults        \* what the disk may fail at: opening the logs, opening the
                        \* account file, reading it, flushing what fclose writes

ASSUME IdsAssumption == AdminId \in Ids
ASSUME BoundsAssumption ==
  /\ MaxAccounts \in Nat \ {0}
  /\ MaxRev \in Nat /\ MaxRevised \in Nat /\ MaxDamaged \in Nat

ASSUME FaultsAssumption == Faults \subseteq {"log", "open", "read", "flush"}

VARIABLES mem, db, tmp, dir, pc, n, exiting, loaded, fault
vars == <<mem, db, tmp, dir, pc, n, exiting, loaded, fault>>

Record == [id : Ids, rev : 0 .. MaxRev, ok : BOOLEAN]

\* "bad" is a file without a whole header, or with one that fails its checks.
File == [state : {"absent", "bad", "good"}, count : Nat, recs : Seq(Record)]

Absent == [state |-> "absent", count |-> 0, recs |-> <<>>]
Bad    == [state |-> "bad", count |-> 0, recs |-> <<>>]

Stopped == {"off", "refused"}   \* refused: main returned 1

PCs == Stopped \cup {"boot", "init", "load", "admin", "ready", "shift",
                     "open", "write", "close", "rename"}

ASSUME SignalAssumption == SignalAt \subseteq PCs \ Stopped

\* No record whose checksum does not match is ever in memory (README:117, "tampered
\* records rejected on DB load"), nor one more than it has room for.
TypeOK ==
  /\ mem \in Seq({r \in Record : r.ok}) /\ Len(mem) <= MaxAccounts
  /\ db \in File /\ tmp \in File
  /\ dir \in BOOLEAN
  /\ pc \in PCs
  /\ n \in 0 .. MaxAccounts
  /\ exiting \in BOOLEAN /\ loaded \in BOOLEAN
  /\ fault \in {"none", "load", "save"}
  /\ ~dir => db = Absent

-----------------------------------------------------------------------------
IdsOf(s) == {s[k].id : k \in DOMAIN s}

NewRecord(i) == [id |-> i, rev |-> 0, ok |-> TRUE]

\* The program ends: nothing but the files is left.
Halt(how) ==
  /\ pc' = how
  /\ mem' = <<>>
  /\ n' = 0
  /\ tmp' = Absent
  /\ exiting' = FALSE
  /\ loaded' = FALSE
  /\ fault' = "none"

\* db_save_accounts returns, whatever its result: no caller looks at it.
Return ==
  \/ exiting /\ Halt("off")
  \/ /\ ~exiting
     /\ pc' = "ready" /\ n' = 0 /\ tmp' = Absent /\ fault' = "none"
     /\ UNCHANGED <<mem, exiting, loaded>>

-----------------------------------------------------------------------------
Init ==
  /\ mem = <<>> /\ n = 0
  /\ db = Absent /\ tmp = Absent
  /\ dir \in BOOLEAN
  /\ pc = "off"
  /\ exiting = FALSE /\ loaded = FALSE
  /\ fault = "none"

\* An operator creates data/ by hand.
MakeDir ==
  /\ pc \in Stopped
  /\ dir' = TRUE
  /\ UNCHANGED <<mem, db, tmp, pc, n, exiting, loaded, fault>>

Start ==
  /\ pc \in Stopped
  /\ pc' = "boot"
  /\ UNCHANGED <<mem, db, tmp, dir, n, exiting, loaded, fault>>

\* logger_init opens its files in data/, which only db_init creates.
InitLogger ==
  /\ pc = "boot"
  /\ \/ dir /\ pc' = "init" /\ UNCHANGED <<mem, tmp, n, exiting, loaded, fault>>
     \/ (~dir \/ "log" \in Faults) /\ Halt("refused")
  /\ UNCHANGED <<db, dir>>

\* Any failure of fopen is a first run: the file need not be absent.
FirstRun == db.state = "absent" \/ "open" \in Faults

\* db_init, and db_load_accounts up to its loop.
OpenDb ==
  /\ pc = "init"
  /\ dir' = TRUE
  /\ \/ /\ FirstRun
        /\ pc' = "admin" /\ loaded' = TRUE
        /\ fault' = IF db.state = "absent" THEN "none" ELSE "load"
        /\ UNCHANGED <<mem, tmp, n, exiting>>
     \/ /\ db.state = "bad" \/ (db.state = "good" /\ "read" \in Faults)
        /\ Halt("refused")
     \/ db.state = "good" /\ pc' = "load" /\ UNCHANGED <<mem, tmp, n, exiting, loaded, fault>>
  /\ UNCHANGED db

\* The checksum matches.
Accepted(r) == r.ok

Loading == n < db.count /\ n < Len(db.recs)   \* a file that was cut short ends the loop

\* Mutant: a rejected record is tried again.
LoadRecord_Retry ==
  /\ pc = "load"
  /\ Loading
  /\ \/ Accepted(db.recs[n + 1]) /\ mem' = Append(mem, db.recs[n + 1]) /\ n' = n + 1
     \/ ~Accepted(db.recs[n + 1]) /\ UNCHANGED <<mem, n>>
  /\ UNCHANGED <<db, tmp, dir, pc, exiting, loaded, fault>>

LoadRecord ==
  /\ pc = "load"
  /\ Loading
  /\ \/ Accepted(db.recs[n + 1]) /\ mem' = Append(mem, db.recs[n + 1])
     \/ ~Accepted(db.recs[n + 1]) /\ UNCHANGED mem
  /\ n' = n + 1
  /\ UNCHANGED <<db, tmp, dir, pc, exiting, loaded, fault>>

\* Mutant: the last record of the file is left out.
LoadDone_Short ==
  /\ pc = "load"
  /\ n + 1 >= db.count
  /\ pc' = "admin" /\ n' = 0 /\ loaded' = TRUE
  /\ UNCHANGED <<mem, db, tmp, dir, exiting, fault>>

LoadDone ==
  /\ pc = "load"
  /\ ~Loading
  /\ pc' = "admin" /\ n' = 0 /\ loaded' = TRUE
  /\ UNCHANGED <<mem, db, tmp, dir, exiting, fault>>

\* A read that fails ends the loop as the end of the file does, and the load succeeds.
ReadFails ==
  /\ pc = "load"
  /\ Loading /\ "read" \in Faults
  /\ fault' = "load"
  /\ pc' = "admin" /\ n' = 0 /\ loaded' = TRUE
  /\ UNCHANGED <<mem, db, tmp, dir, exiting>>

\* acct_create's tests.
\* Mutant: an array that is full is not noticed.
MayCreate_Unbounded(i) == i \notin IdsOf(mem)

MayCreate(i) == Len(mem) < MaxAccounts /\ i \notin IdsOf(mem)

BootstrapAdmin ==
  /\ pc = "admin"
  /\ \/ /\ MayCreate(AdminId)
        /\ mem' = Append(mem, NewRecord(AdminId))
        /\ pc' = "open"
     \/ /\ ~MayCreate(AdminId)
        /\ pc' = "ready"
        /\ UNCHANGED mem
  /\ UNCHANGED <<db, tmp, dir, n, exiting, loaded, fault>>

-----------------------------------------------------------------------------
Create(i) ==
  /\ pc = "ready"
  /\ MayCreate(i)
  /\ mem' = Append(mem, NewRecord(i))
  /\ pc' = "open"
  /\ UNCHANGED <<db, tmp, dir, n, exiting, loaded, fault>>

\* An operation changes a record.  One that is refused may have changed it too
\* (acct_reset_daily_if_needed), but is not followed by a save.
Update(k) ==
  /\ pc = "ready"
  /\ mem[k].rev < MaxRev
  /\ Cardinality({j \in DOMAIN mem : mem[j].rev > 0}) < MaxRevised
  /\ mem' = [mem EXCEPT ![k].rev = @ + 1]
  /\ pc' \in {"open", "ready"}
  /\ UNCHANGED <<db, tmp, dir, n, exiting, loaded, fault>>

\* acct_delete moves the later records down one by one.
Delete(k) ==
  /\ pc = "ready"
  /\ mem[k].id # AdminId
  /\ pc' = "shift"
  /\ n' = k
  /\ UNCHANGED <<mem, db, tmp, dir, exiting, loaded, fault>>

\* Mutant: g_account_count is not decremented.
Shift_KeepsCount ==
  /\ pc = "shift"
  /\ \/ n < Len(mem) /\ mem' = [mem EXCEPT ![n] = mem[n + 1]] /\ n' = n + 1 /\ UNCHANGED pc
     \/ n = Len(mem) /\ n' = 0 /\ pc' = "open" /\ UNCHANGED mem
  /\ UNCHANGED <<db, tmp, dir, exiting, loaded, fault>>

Shift ==
  /\ pc = "shift"
  /\ \/ n < Len(mem) /\ mem' = [mem EXCEPT ![n] = mem[n + 1]] /\ n' = n + 1 /\ UNCHANGED pc
     \/ n = Len(mem) /\ mem' = Front(mem) /\ n' = 0 /\ pc' = "open"
  /\ UNCHANGED <<db, tmp, dir, exiting, loaded, fault>>

Exit ==
  /\ pc = "ready"
  /\ exiting' = TRUE
  /\ pc' = "open"
  /\ UNCHANGED <<mem, db, tmp, dir, n, loaded, fault>>

\* handle_signal: a save begins at once, inside whatever was going on.
Signal ==
  /\ pc \in SignalAt
  /\ ~exiting
  /\ exiting' = TRUE
  /\ pc' = "open"
  /\ n' = 0
  /\ tmp' = Absent
  /\ UNCHANGED <<mem, db, dir, loaded, fault>>

-----------------------------------------------------------------------------
\* fopen(tmp, "wb"), which truncates; or its failure.
SaveOpen ==
  /\ pc = "open"
  /\ dir' = TRUE
  /\ \/ /\ tmp' = Bad /\ pc' = "write" /\ n' = 0 /\ fault' = "none"
        /\ UNCHANGED <<mem, exiting, loaded>>
     \/ Return
  /\ UNCHANGED db

\* The fwrites of the header and of the n records.  If one fails, the file is
\* given up.
\* Mutant: a failing fwrite only ends the loop.
SaveWrite_GoesOn ==
  /\ pc = "write"
  /\ n' \in 0 .. Len(mem)
  /\ pc' = "close"
  /\ UNCHANGED <<mem, db, tmp, dir, exiting, loaded, fault>>

SaveWrite ==
  /\ pc = "write"
  /\ \/ n' = Len(mem) /\ pc' = "close" /\ UNCHANGED <<mem, tmp, exiting, loaded, fault>>
     \/ Return
  /\ UNCHANGED <<db, dir>>

\* A file with the first k records, their checksums computed anew.
Written(k) ==
  [state |-> "good", count |-> Len(mem), recs |-> [j \in 1 .. k |-> [mem[j] EXCEPT !.ok = TRUE]]]

\* fclose flushes what stdio has buffered; its result is not looked at.
SaveClose ==
  /\ pc = "close"
  /\ \/ tmp' = Written(n) /\ UNCHANGED fault
     \/ /\ "flush" \in Faults
        /\ tmp' = Bad \/ \E k \in 0 .. n : tmp' = Written(k)
        /\ fault' = "save"
  /\ pc' = "rename"
  /\ UNCHANGED <<mem, db, dir, n, exiting, loaded>>

SaveRename ==
  /\ pc = "rename"
  /\ db' \in {tmp, db}
  /\ Return
  /\ UNCHANGED dir

-----------------------------------------------------------------------------
\* The process is killed.
Crash ==
  /\ pc \notin Stopped
  /\ Halt("off")
  /\ UNCHANGED <<db, dir>>

\* The disk loses a record, or the header.
Corrupt ==
  /\ pc \in Stopped
  /\ db.state = "good"
  /\ \/ /\ Cardinality({k \in DOMAIN db.recs : ~db.recs[k].ok}) < MaxDamaged
        /\ \E k \in DOMAIN db.recs : db' = [db EXCEPT !.recs[k].ok = FALSE]
     \/ db' = Bad
  /\ UNCHANGED <<mem, tmp, dir, pc, n, exiting, loaded, fault>>

\* What the program does by itself, once it has been asked for something.
Step ==
  \/ InitLogger \/ OpenDb \/ LoadRecord \/ LoadDone \/ BootstrapAdmin
  \/ Shift
  \/ SaveOpen \/ SaveWrite \/ SaveClose \/ SaveRename

Next ==
  \/ Step
  \/ Start \/ MakeDir
  \/ \E i \in Ids : Create(i)
  \/ \E k \in DOMAIN mem : Update(k)
  \/ \E k \in DOMAIN mem : Delete(k)
  \/ Exit
  \/ Signal
  \/ ReadFails
  \/ Crash
  \/ Corrupt

Spec == Init /\ [][Next]_vars

\* The processor goes on running the program.
FairSpec == Spec /\ WF_vars(Step)

-----------------------------------------------------------------------------
(* Properties *)

\* An id names one account: in memory at every prompt, and in the file always.
\* (acct_delete's loop passes through states with the same id twice.)
Distinct(s) == \A j, k \in DOMAIN s : s[j].id = s[k].id => j = k

UniqueIds == (pc = "ready" => Distinct(mem)) /\ Distinct(db.recs)

\* README:119, as far as the code keeps it: the file is replaced only by all of the
\* memory, header and records agreeing, unless the flush of this very save failed in
\* fclose (database.c:183).  Then it is replaced by one without a whole header, or by the
\* first records under a header that counts them all.
Whole(f) == f.state = "good" /\ f.recs = mem /\ f.count = Len(mem)

CutShort(f) == f = Bad \/ (f.state = "good" /\ IsPrefix(f.recs, mem) /\ f.count = Len(mem))

SaveIsWhole ==
  [][db' # db /\ pc \notin Stopped => Whole(db') \/ (fault = "save" /\ CutShort(db'))]_vars

\* The account file keeps DurableStore's promise.
Content(s) == {[id |-> s[k].id, rev |-> s[k].rev] : k \in {j \in DOMAIN s : s[j].ok}}

Up == loaded /\ pc \notin Stopped

Current == IF pc = "shift" THEN RemoveAt(mem, n) ELSE mem

Store == INSTANCE DurableStore WITH
           Record  <- [id : Ids, rev : 0 .. MaxRev],
           up      <- Up,
           current <- IF Up THEN Content(Current) ELSE {},
           saved   <- IF db.state = "good" THEN Content(db.recs) ELSE {},
           trouble <- fault

Durable == Store!Spec

\* Whatever is under way, start, deletion, save or shutdown, the program comes
\* back to a prompt or stops.
PromptOrStop == (pc \notin Stopped) ~> (pc \in Stopped \cup {"ready"})

\* main.c:47, "saving data and shutting down": a run that has not yet loaded the
\* file takes no account out of it, even when a signal makes it save.
SavesWhatWasLoaded ==
  [][pc \notin Stopped /\ ~loaded => Content(db.recs) \subseteq Content(db'.recs)]_vars

\* README:119, "no half-written states ever possible": what replaces the file is whole.
NoHalfWritten == [][db' # db /\ pc \notin Stopped => Whole(db')]_vars

\* README:313, "no partial states": the file never names an account twice, wherever a
\* signal makes the program save.
NoAccountTwice == Distinct(db.recs)

\* database.c:62, "First run - no file yet": where the administrator is looked for, memory
\* holds what the file holds, and nothing only if there is no file to load.
StartsFromFile ==
  pc = "admin" => Content(mem) = IF db.state = "good" THEN Content(db.recs) ELSE {}

\* README:228, data/ is "Auto-created on first run": what makes the program refuse to run
\* is a damaged file only.
RefusesOnlyDamage == pc = "refused" => db.state = "bad"
=============================================================================
