---------------------------- MODULE SessionProofs ----------------------------
(* Proofs about Session. *)
EXTENDS Session, TLAPS

\* The inductive invariant: who has a session, and what that says of accts.
IInv == TypeOK /\ SessionSound /\ LockedAfterThree /\ AdminPresent

Places == {"main", "menu", "handler", "authorised", "pause"}
Ops    == UserOps \cup AdminOps \cup {"none"}

-----------------------------------------------------------------------------
(* What a step may do to the four variables *)

\* The record of a new account is well formed.
LEMMA NewCredentialType ==
  ASSUME NEW pin \in Pins \cup {DefaultPin}
  PROVE  NewCredential(pin) \in Credential
BY TimesAssumption DEF NewCredential, Credential

\* Replacing one record leaves the others, and the accounts there are.
LEMMA UpdateAccts ==
  ASSUME TypeOK, NEW i \in DOMAIN accts, NEW a \in Credential,
         accts' = [accts EXCEPT ![i] = a]
  PROVE  /\ DOMAIN accts' = DOMAIN accts
         /\ accts' \in [DOMAIN accts' -> Credential]
         /\ accts'[i] = a
         /\ \A j \in DOMAIN accts : j # i => accts'[j] = accts[j]
BY DEF TypeOK

\* A step that leaves every account as it was keeps the parts of the invariant
\* that are about accts alone.
LEMMA SameAccts ==
  ASSUME IInv, UNCHANGED accts
  PROVE  LockedAfterThree' /\ AdminPresent'
BY DEF IInv, LockedAfterThree, AdminPresent

\* The record an account gets whose status changes.
LEMMA StatusChanged ==
  ASSUME NEW a \in Credential, NEW status \in {"ACTIVE", "FROZEN", "LOCKED"}
  PROVE  /\ [a EXCEPT !.status = status] \in Credential
         /\ [a EXCEPT !.status = status].status = status
         /\ [a EXCEPT !.status = status].attempts = a.attempts
         /\ [a EXCEPT !.status = status].pin = a.pin
BY DEF Credential

\* The record an account gets whose PIN changes.
LEMMA PinChanged ==
  ASSUME NEW a \in Credential, NEW pin \in Pins
  PROVE  /\ [a EXCEPT !.pin = pin] \in Credential
         /\ [a EXCEPT !.pin = pin].status = a.status
         /\ [a EXCEPT !.pin = pin].attempts = a.attempts
BY DEF Credential

\* The record an account gets whose failed attempts are forgotten.
LEMMA AttemptsCleared ==
  ASSUME NEW a \in Credential
  PROVE  /\ [a EXCEPT !.attempts = 0] \in Credential
         /\ [a EXCEPT !.attempts = 0].status = a.status
         /\ [a EXCEPT !.attempts = 0].attempts = 0
         /\ [a EXCEPT !.attempts = 0].pin = a.pin
BY TimesAssumption DEF Credential

\* A failed attempt counts one more and locks at three.
LEMMA FailedFields ==
  ASSUME NEW a \in Credential, a.attempts < MaxAttempts, a.status = "ACTIVE"
  PROVE  /\ Failed(a) \in Credential
         /\ Failed(a).pin = a.pin
         /\ Failed(a).status \in {"ACTIVE", "LOCKED"}
         /\ Failed(a).status = "LOCKED" => Failed(a).attempts >= 3
         /\ Failed(a).attempts > a.attempts
         /\ Failed(a).attempts >= 3 => Failed(a).status = "LOCKED"
<1> DEFINE n == a.attempts + 1
           s == IF a.attempts >= 2 THEN "LOCKED" ELSE a.status
<1>1. n \in 0 .. MaxAttempts /\ s \in {"ACTIVE", "LOCKED"} /\ (s = "LOCKED" <=> n >= 3) /\ n > a.attempts
  BY TimesAssumption DEF Credential
<1>2. Failed(a) = [a EXCEPT !.attempts = n, !.status = s]
  BY DEF Failed
<1> HIDE DEF n, s
<1>3. /\ [a EXCEPT !.attempts = n, !.status = s] \in Credential
      /\ [a EXCEPT !.attempts = n, !.status = s].pin = a.pin
      /\ [a EXCEPT !.attempts = n, !.status = s].status = s
      /\ [a EXCEPT !.attempts = n, !.status = s].attempts = n
  BY <1>1 DEF Credential
<1> QED BY <1>1, <1>2, <1>3

-----------------------------------------------------------------------------
(* Steps that leave accts alone *)

\* A step whose session ends, or goes on without touching accts, keeps the
\* invariant if it arrives at a place that allows it.
LEMMA QuietStep ==
  ASSUME IInv, UNCHANGED accts,
         idle' \in 0 .. Timeout + 1,
         ui' \in [at : Places, op : Ops],
         \/ session' = session
         \/ session' = NoSession,
         ui'.at = "main" => session' = NoSession,
         ui'.at \in {"menu", "handler", "authorised"} => session' # NoSession,
         ui'.at \in {"handler", "authorised"} => ui'.op \in OpsOf(session'.role)
  PROVE  IInv'
<1>1. TypeOK'
  BY DEF IInv, TypeOK, Places, Ops
<1>2. SessionSound'
  BY DEF IInv, SessionSound
<1> QED BY <1>1, <1>2, SameAccts DEF IInv

\* Going to a place names no request.
LEMMA GotoUi ==
  ASSUME NEW p \in Places, Goto(p)
  PROVE  ui' \in [at : Places, op : Ops] /\ ui'.at = p
BY DEF Goto, Ops

\* A session that is open belongs to an account.
LEMMA SessionId ==
  ASSUME IInv, session # NoSession
  PROVE  /\ session.id \in DOMAIN accts
         /\ accts[session.id] \in Credential
         /\ accts[session.id].status = "ACTIVE"
         /\ accts[session.id].attempts = 0
         /\ session.role = RoleOf(session.id)
BY DEF IInv, SessionSound, TypeOK

\* Choosing a request.
LEMMA ChooseKeeps ==
  ASSUME IInv, NEW op \in UserOps \cup AdminOps, Choose(op)
  PROVE  IInv'
<1>1. session # NoSession /\ UNCHANGED accts /\ op \in OpsOf(session.role)
  BY DEF Choose, IInv, SessionSound
<1>2. CASE SessionGone /\ Goto("pause")
  BY <1>1, <1>2, GotoUi, QuietStep, TimesAssumption DEF SessionGone, ClearSession, Places
<1>3. CASE ~Expired /\ op = "view" /\ Goto("pause") /\ UNCHANGED session
                    /\ idle' = IF op = "changepin" THEN idle ELSE 0
  BY <1>1, <1>3, GotoUi, QuietStep, TimesAssumption DEF Places, IInv, TypeOK
<1>4. CASE ~Expired /\ ui' = [at |-> "handler", op |-> op] /\ UNCHANGED session
                    /\ idle' = IF op = "changepin" THEN idle ELSE 0
  <2>1. ui' \in [at : Places, op : Ops] /\ ui'.at = "handler" /\ ui'.op = op
    BY <1>4 DEF Places, Ops
  <2>2. idle' \in 0 .. Timeout + 1
    BY <1>4, TimesAssumption DEF IInv, TypeOK
  <2> QED BY <1>1, <1>4, <2>1, <2>2, QuietStep
<1> QED BY <1>2, <1>3, <1>4 DEF Choose

\* The PIN asked for during a request was wrong, or came too late.
LEMMA RefusedKeeps ==
  ASSUME IInv, NEW pin, NotReauthenticated(pin)
  PROVE  IInv'
<1>1. idle' \in 0 .. Timeout + 1 /\ (session' = session \/ session' = NoSession)
  BY TimesAssumption DEF NotReauthenticated, SessionGone, ClearSession, IInv, TypeOK
<1> QED BY <1>1, GotoUi, QuietStep DEF NotReauthenticated, Places

\* The PIN that lets a withdrawal or a transfer through.
LEMMA AuthoriseKeeps ==
  ASSUME IInv, NEW pin, Authorise(pin)
  PROVE  IInv'
<1>1. CASE NotReauthenticated(pin)
  BY <1>1, RefusedKeeps
<1>2. CASE idle' = 0 /\ ui' = [ui EXCEPT !.at = "authorised"] /\ UNCHANGED <<accts, session>>
  <2>1. session # NoSession /\ ui.op \in OpsOf(session.role) /\ ui \in [at : Places, op : Ops]
    BY DEF Authorise, IInv, SessionSound, TypeOK, Places, Ops
  <2>2. ui' \in [at : Places, op : Ops] /\ ui'.at = "authorised" /\ ui'.op = ui.op
    BY <1>2, <2>1 DEF Places
  <2> QED BY <1>2, <2>1, <2>2, QuietStep, TimesAssumption
<1> QED BY <1>1, <1>2 DEF Authorise

\* Steps that end at the pause with the session as it was.
LEMMA PauseKeeps ==
  ASSUME IInv, Goto("pause"), UNCHANGED <<accts, session>>, idle' = 0 \/ idle' = idle
  PROVE  IInv'
<1>1. idle' \in 0 .. Timeout + 1
  BY TimesAssumption DEF IInv, TypeOK
<1> QED BY <1>1, GotoUi, QuietStep DEF Places

\* The menu loop.
LEMMA ContinueKeeps ==
  ASSUME IInv, Continue
  PROVE  IInv'
<1>1. UNCHANGED accts /\ idle' \in 0 .. Timeout + 1
  BY TimesAssumption DEF Continue, SessionGone, IInv, TypeOK
<1>2. CASE session' = NoSession /\ Goto("main")
  BY <1>1, <1>2, GotoUi, QuietStep DEF Places
<1>3. CASE session # NoSession /\ Goto("menu") /\ UNCHANGED session
  BY <1>1, <1>3, GotoUi, QuietStep DEF Places
<1> QED BY <1>2, <1>3 DEF Continue, SessionGone, ClearSession

\* Logging out.
LEMMA LogoutKeeps ==
  ASSUME IInv, Logout
  PROVE  IInv'
BY GotoUi, QuietStep, TimesAssumption DEF Logout, ClearSession, Places

\* Time passing.
LEMMA TickKeeps ==
  ASSUME IInv, Tick
  PROVE  IInv'
<1>1. idle' \in 0 .. Timeout + 1
  BY TimesAssumption DEF Tick, Expired, IInv, TypeOK
<1>2. ui' \in [at : Places, op : Ops]
  BY DEF Tick, IInv, TypeOK, Places, Ops
<1>3. ui' = ui /\ session' = session /\ accts' = accts
  BY DEF Tick
<1> QED BY <1>1, <1>2, <1>3, QuietStep DEF IInv, SessionSound

-----------------------------------------------------------------------------
(* Steps that change accts *)

\* Opening an account.
LEMMA RegisterKeeps ==
  ASSUME IInv, NEW i \in Ids, NEW pin \in Pins, Register(i, pin)
  PROVE  IInv'
<1> DEFINE a == NewCredential(pin)
<1>1. a \in Credential /\ a.status = "ACTIVE"
  BY NewCredentialType DEF NewCredential
<1>2. /\ ui' = ui /\ ui.at = "main" /\ session' = session /\ session = NoSession /\ idle' = idle
      /\ i \notin DOMAIN accts /\ i # AdminId
      /\ accts' = With(accts, i, a)
  BY DEF Register, IInv, SessionSound
<1> HIDE DEF a
<1>3. /\ DOMAIN accts' = DOMAIN accts \cup {i}
      /\ accts' \in [DOMAIN accts \cup {i} -> Credential]
      /\ accts'[i] = a
      /\ \A j \in DOMAIN accts : j # i => accts'[j] = accts[j]
  <2>1. accts \in [DOMAIN accts -> Credential] /\ DOMAIN accts \in SUBSET Ids
    BY DEF IInv, TypeOK
  <2> QED BY <1>1, <1>2, <2>1 DEF With
<1>4. TypeOK'
  BY <1>2, <1>3 DEF IInv, TypeOK
<1>5. SessionSound'
  BY <1>2 DEF SessionSound
<1>6. LockedAfterThree'
  BY <1>1, <1>3 DEF IInv, LockedAfterThree
<1>7. AdminPresent'
  BY <1>2, <1>3 DEF IInv, AdminPresent
<1> QED BY <1>4, <1>5, <1>6, <1>7 DEF IInv

\* One account gets another record: the invariant holds if the record is
\* allowed, and the session, which stays or is opened by this step, allows it.
LEMMA OneAccount ==
  ASSUME IInv, NEW i \in DOMAIN accts, NEW a \in Credential,
         accts' = [accts EXCEPT ![i] = a],
         a.status = "LOCKED" => a.attempts >= 3,
         i = AdminId => a.status \in {"ACTIVE", "LOCKED"},
         idle' \in 0 .. Timeout + 1,
         ui' \in [at : Places, op : Ops],
         ui'.at \in {"main", "menu", "pause"},
         ui'.at = "main" => session' = NoSession,
         ui'.at = "menu" => session' # NoSession,
         \/ session' = session /\ (session # NoSession /\ session.id = i =>
                                     a.status = "ACTIVE" /\ a.attempts = 0)
         \/ /\ session' = [id |-> i, role |-> RoleOf(i)]
            /\ a.status = "ACTIVE" /\ a.attempts = 0
  PROVE  IInv'
<1>1. /\ DOMAIN accts' = DOMAIN accts
      /\ accts' \in [DOMAIN accts' -> Credential]
      /\ accts'[i] = a
      /\ \A j \in DOMAIN accts : j # i => accts'[j] = accts[j]
  BY UpdateAccts DEF IInv
<1>2. i \in Ids /\ NoId \notin Ids
  BY IdsAssumption DEF IInv, TypeOK
<1>3. session' \in [id : Ids, role : {"USER", "ADMIN"}] \cup {NoSession}
  BY <1>2 DEF IInv, TypeOK, RoleOf
<1>4. TypeOK'
  BY <1>1, <1>3 DEF IInv, TypeOK, Places, Ops
<1>5. SessionSound'
  <2>1. CASE session' = session /\ (session # NoSession /\ session.id = i =>
                                     a.status = "ACTIVE" /\ a.attempts = 0)
    BY <1>1, <2>1 DEF IInv, SessionSound
  <2>2. CASE /\ session' = [id |-> i, role |-> RoleOf(i)]
             /\ a.status = "ACTIVE" /\ a.attempts = 0
    <3>1. session'.id = i /\ session'.role = RoleOf(i)
      BY <2>2
    <3> QED BY <1>1, <2>2, <3>1 DEF SessionSound
  <2> QED BY <2>1, <2>2
<1>6. LockedAfterThree'
  BY <1>1 DEF IInv, LockedAfterThree
<1>7. AdminPresent'
  BY <1>1 DEF IInv, AdminPresent
<1> QED BY <1>4, <1>5, <1>6, <1>7 DEF IInv

\* An account that exists has a record, and what the invariant says of it.
LEMMA AcctAt ==
  ASSUME IInv, NEW i \in DOMAIN accts
  PROVE  /\ accts[i] \in Credential
         /\ accts[i].status = "LOCKED" => accts[i].attempts >= 3
         /\ i = AdminId => accts[i].status \in {"ACTIVE", "LOCKED"}
BY DEF IInv, TypeOK, LockedAfterThree, AdminPresent

\* Logging in, or failing to.
LEMMA LoginKeeps ==
  ASSUME IInv, NEW i \in Ids, NEW pin \in Pins \cup {DefaultPin}, Login(i, pin)
  PROVE  IInv'
<1>1. /\ i \in DOMAIN accts /\ accts[i].status = "ACTIVE"
      /\ ui.at = "main" /\ session = NoSession
      /\ 0 \in 0 .. MaxAttempts /\ 0 \in 0 .. Timeout + 1
  BY TimesAssumption DEF Login, IInv, SessionSound
<1>2. CASE /\ accts' = [accts EXCEPT ![i].attempts = 0]
           /\ session' = [id |-> i, role |-> RoleOf(i)]
           /\ idle' = 0
           /\ Goto("menu")
  <2> DEFINE a == [accts[i] EXCEPT !.attempts = 0]
  <2>1. a \in Credential /\ a.status = "ACTIVE" /\ a.attempts = 0
    BY <1>1, AcctAt, AttemptsCleared
  <2>2. accts' = [accts EXCEPT ![i] = a]
    BY <1>2
  <2>3. session' # NoSession
    <3>1. session'.id = i /\ NoSession.id = NoId
      BY <1>2 DEF NoSession
    <3> QED BY <3>1, IdsAssumption
  <2>4. ui' \in [at : Places, op : Ops] /\ ui'.at = "menu"
    BY <1>2, GotoUi DEF Places
  <2> HIDE DEF a
  <2> QED BY <1>1, <1>2, <2>1, <2>2, <2>3, <2>4, OneAccount
<1>3. CASE /\ accts[i].attempts < MaxAttempts
           /\ accts' = [accts EXCEPT ![i] = Failed(@)]
           /\ UNCHANGED <<session, idle, ui>>
  <2>1. /\ Failed(accts[i]) \in Credential
        /\ Failed(accts[i]).status \in {"ACTIVE", "LOCKED"}
        /\ Failed(accts[i]).status = "LOCKED" => Failed(accts[i]).attempts >= 3
    BY <1>1, <1>3, AcctAt, FailedFields
  <2>2. accts' = [accts EXCEPT ![i] = Failed(accts[i])]
    BY <1>3
  <2>3. /\ idle' \in 0 .. Timeout + 1
        /\ ui' \in [at : Places, op : Ops]
        /\ ui'.at = "main" /\ session' = session
    BY <1>1, <1>3 DEF IInv, TypeOK, Places, Ops
  <2> QED BY <1>1, <2>1, <2>2, <2>3, OneAccount
<1> QED BY <1>2, <1>3 DEF Login

\* Changing one's PIN.
LEMMA ChangePinKeeps ==
  ASSUME IInv, NEW old, NEW new \in Pins, ChangePin(old, new)
  PROVE  IInv'
<1>1. CASE NotReauthenticated(old)
  BY <1>1, RefusedKeeps
<1>2. CASE /\ accts' = [accts EXCEPT ![session.id].pin = new]
           /\ Goto("pause")
           /\ UNCHANGED <<session, idle>>
  <2> DEFINE i == session.id
             a == [accts[i] EXCEPT !.pin = new]
  <2>1. session # NoSession
    BY DEF ChangePin, At, IInv, SessionSound
  <2>2. i \in DOMAIN accts /\ accts[i].status = "ACTIVE" /\ accts[i].attempts = 0
    BY <2>1, SessionId
  <2>3. a \in Credential /\ a.status = "ACTIVE" /\ a.attempts = 0
    BY <2>2, AcctAt, PinChanged
  <2>4. accts' = [accts EXCEPT ![i] = a]
    BY <1>2
  <2>5. ui' \in [at : Places, op : Ops] /\ ui'.at = "pause" /\ idle' \in 0 .. Timeout + 1
    BY <1>2, GotoUi DEF Places, IInv, TypeOK
  <2> HIDE DEF a, i
  <2> QED BY <1>2, <2>2, <2>3, <2>4, <2>5, OneAccount
<1> QED BY <1>1, <1>2 DEF ChangePin

\* An administrator's session: no request of theirs touches the session's own
\* account if it touches only others.
LEMMA AdminSession ==
  ASSUME IInv, ui.at = "handler", ui.op \in AdminOps \ {"view"}
  PROVE  session # NoSession /\ session.id = AdminId /\ session.role = "ADMIN"
<1>1. session # NoSession /\ ui.op \in OpsOf(session.role)
  BY DEF IInv, SessionSound
<1>2. session.role = RoleOf(session.id)
  BY <1>1, SessionId
<1>3. session.role = "ADMIN"
  BY <1>1 DEF OpsOf, UserOps, AdminOps
<1> QED BY <1>1, <1>2, <1>3 DEF RoleOf

\* Freezing.
LEMMA FreezeKeeps ==
  ASSUME IInv, NEW i \in Ids, NEW pin, Freeze(i, pin)
  PROVE  IInv'
<1>1. CASE NotReauthenticated(pin)
  BY <1>1, RefusedKeeps
<1>2. CASE /\ accts' = [accts EXCEPT ![i].status = "FROZEN"]
           /\ idle' = 0
           /\ Goto("pause")
           /\ UNCHANGED session
  <2> DEFINE a == [accts[i] EXCEPT !.status = "FROZEN"]
  <2>1. i \in DOMAIN accts /\ i # AdminId /\ session.id = AdminId
    BY AdminSession DEF Freeze, Removable, At, AdminOps
  <2>2. a \in Credential /\ a.status = "FROZEN"
    BY <2>1, AcctAt, StatusChanged
  <2>3. accts' = [accts EXCEPT ![i] = a]
    BY <1>2
  <2>4. ui' \in [at : Places, op : Ops] /\ ui'.at = "pause" /\ idle' \in 0 .. Timeout + 1
    BY <1>2, GotoUi, TimesAssumption DEF Places
  <2> HIDE DEF a
  <2> QED BY <1>2, <2>1, <2>2, <2>3, <2>4, OneAccount
<1> QED BY <1>1, <1>2 DEF Freeze

\* Unfreezing.
LEMMA UnfreezeKeeps ==
  ASSUME IInv, NEW i \in Ids, Unfreeze(i)
  PROVE  IInv'
<1> DEFINE a == [accts[i] EXCEPT !.status = "ACTIVE"]
<1>1. i \in DOMAIN accts /\ accts[i].status = "FROZEN" /\ session.id = AdminId
  BY AdminSession DEF Unfreeze, At, AdminOps
<1>2. i # AdminId
  BY <1>1, AcctAt
<1>3. a \in Credential /\ a.status = "ACTIVE"
  BY <1>1, AcctAt, StatusChanged
<1>4. accts' = [accts EXCEPT ![i] = a] /\ UNCHANGED <<session, idle>> /\ Goto("pause")
  BY DEF Unfreeze
<1>5. ui' \in [at : Places, op : Ops] /\ ui'.at = "pause" /\ idle' \in 0 .. Timeout + 1
  BY <1>4, GotoUi DEF Places, IInv, TypeOK
<1> HIDE DEF a
<1> QED BY <1>1, <1>2, <1>3, <1>4, <1>5, OneAccount

\* What admin_reset_account_pin leaves: the stale copy, locked as it was.
LEMMA ResetPinResult ==
  ASSUME IInv, NEW i \in DOMAIN accts, NEW new \in Pins,
         accts' = Update(Unlock(accts, i), i, [accts[i] EXCEPT !.pin = new])
  PROVE  accts' = [accts EXCEPT ![i] = [accts[i] EXCEPT !.pin = new]]
<1> DEFINE a == [accts[i] EXCEPT !.pin = new]
           f == Unlock(accts, i)
<1>1. DOMAIN f = DOMAIN accts /\ \A j \in DOMAIN accts : j # i => f[j] = accts[j]
  BY DEF Unlock
<1>2. accts' = [f EXCEPT ![i] = a]
  BY DEF Update
<1>3. accts = [j \in DOMAIN accts |-> accts[j]] /\ f = [j \in DOMAIN accts |-> f[j]]
  BY <1>1 DEF IInv, TypeOK, Unlock
<1> HIDE DEF f, a
<1>4. [f EXCEPT ![i] = a] = [accts EXCEPT ![i] = a]
  BY <1>1, <1>3
<1> QED BY <1>2, <1>4 DEF a

\* Resetting a locked account's PIN.
LEMMA ResetPinKeeps ==
  ASSUME IInv, NEW i \in Ids, NEW new \in Pins, ResetPin(i, new)
  PROVE  IInv'
<1> DEFINE a == [accts[i] EXCEPT !.pin = new]
<1>1. /\ i \in DOMAIN accts /\ accts[i].status = "LOCKED"
      /\ session # NoSession /\ session.id = AdminId
  BY AdminSession DEF ResetPin, At, AdminOps
<1>2. i # session.id
  BY <1>1, SessionId
<1>3. a \in Credential /\ a.status = "LOCKED" /\ a.attempts >= 3
  BY <1>1, AcctAt, PinChanged
<1>4. accts' = [accts EXCEPT ![i] = a] /\ UNCHANGED <<session, idle>> /\ Goto("pause")
  BY <1>1, ResetPinResult DEF ResetPin
<1>5. ui' \in [at : Places, op : Ops] /\ ui'.at = "pause" /\ idle' \in 0 .. Timeout + 1
  BY <1>4, GotoUi DEF Places, IInv, TypeOK
<1> HIDE DEF a
<1> QED BY <1>1, <1>2, <1>3, <1>4, <1>5, OneAccount

\* Deleting.
LEMMA DeleteKeeps ==
  ASSUME IInv, NEW i \in Ids, NEW pin, Delete(i, pin)
  PROVE  IInv'
<1>1. CASE NotReauthenticated(pin)
  BY <1>1, RefusedKeeps
<1>2. CASE /\ accts' = Without(accts, i)
           /\ idle' = 0
           /\ Goto("pause")
           /\ UNCHANGED session
  <2>1. i # AdminId /\ session.id = AdminId /\ session # NoSession
    BY AdminSession DEF Delete, Removable, At, AdminOps
  <2>2. /\ DOMAIN accts' = DOMAIN accts \ {i}
        /\ accts' \in [DOMAIN accts' -> Credential]
        /\ \A j \in DOMAIN accts \ {i} : accts'[j] = accts[j]
    BY <1>2 DEF Without, IInv, TypeOK
  <2>3. ui' \in [at : Places, op : Ops] /\ ui'.at = "pause" /\ idle' \in 0 .. Timeout + 1
    BY <1>2, GotoUi, TimesAssumption DEF Places
  <2>4. TypeOK'
    BY <1>2, <2>2, <2>3 DEF IInv, TypeOK, Places, Ops
  <2>5. SessionSound'
    BY <1>2, <2>1, <2>2, <2>3 DEF IInv, SessionSound
  <2>6. LockedAfterThree' /\ AdminPresent'
    BY <2>1, <2>2 DEF IInv, LockedAfterThree, AdminPresent
  <2> QED BY <2>4, <2>5, <2>6 DEF IInv
<1> QED BY <1>1, <1>2 DEF Delete

\* Running the program again.
LEMMA RestartKeeps ==
  ASSUME IInv, Restart
  PROVE  IInv'
<1>1. accts' = accts
  BY DEF Restart, CreateAdminIfAbsent, IInv, AdminPresent
<1> QED BY <1>1, GotoUi, QuietStep, TimesAssumption DEF Restart, Places

-----------------------------------------------------------------------------
\* The first run starts with the administrator alone.
LEMMA InitKeeps == Init => IInv
<1> SUFFICES ASSUME Init PROVE IInv
  OBVIOUS
<1> DEFINE f == [i \in {} |-> NewCredential(DefaultPin)]
           a == NewCredential(DefaultPin)
<1>1. a \in Credential /\ a.status = "ACTIVE"
  BY NewCredentialType DEF NewCredential
<1>2. accts = With(f, AdminId, a)
  BY DEF Init, CreateAdminIfAbsent
<1>3. f \in [{} -> Credential] /\ AdminId \in Ids
  BY IdsAssumption
<1> HIDE DEF f, a
<1>4. DOMAIN accts = {} \cup {AdminId} /\ accts \in [{} \cup {AdminId} -> Credential] /\ accts[AdminId] = a
  BY <1>1, <1>2, <1>3 DEF With
<1>5. DOMAIN accts = {AdminId} /\ accts \in [{AdminId} -> Credential]
  BY <1>4
<1>6. TypeOK
  BY <1>3, <1>5, TimesAssumption DEF Init, TypeOK
<1>7. SessionSound
  BY DEF Init, SessionSound
<1> QED BY <1>1, <1>4, <1>5, <1>6, <1>7 DEF IInv, LockedAfterThree, AdminPresent

\* Every step keeps the inductive invariant.
LEMMA NextKeeps == IInv /\ [Next]_vars => IInv'
<1> SUFFICES ASSUME IInv, [Next]_vars PROVE IInv'
  OBVIOUS
<1>1. ASSUME NEW i \in Ids, NEW pin \in Pins, Register(i, pin) PROVE IInv'
  BY <1>1, RegisterKeeps
<1>2. ASSUME NEW i \in Ids, NEW pin \in Pins \cup {DefaultPin}, Login(i, pin) PROVE IInv'
  BY <1>2, LoginKeeps
<1>3. CASE Request
  <2>1. ASSUME NEW op \in UserOps \cup AdminOps, Choose(op) PROVE IInv'
    BY <2>1, ChooseKeeps
  <2>2. ASSUME NEW pin \in Pins \cup {DefaultPin}, Authorise(pin) PROVE IInv'
    BY <2>2, AuthoriseKeeps
  <2>3. CASE MoveMoney
    BY <2>3, PauseKeeps DEF MoveMoney
  <2>4. ASSUME NEW old \in Pins \cup {DefaultPin}, NEW new \in Pins, ChangePin(old, new) PROVE IInv'
    BY <2>4, ChangePinKeeps
  <2>5. ASSUME NEW i \in Ids, NEW pin \in Pins \cup {DefaultPin}, Freeze(i, pin) PROVE IInv'
    BY <2>5, FreezeKeeps
  <2>6. ASSUME NEW i \in Ids, NEW pin \in Pins \cup {DefaultPin}, Delete(i, pin) PROVE IInv'
    BY <2>6, DeleteKeeps
  <2>7. ASSUME NEW i \in Ids, Unfreeze(i) PROVE IInv'
    BY <2>7, UnfreezeKeeps
  <2>8. ASSUME NEW i \in Ids, NEW new \in Pins, ResetPin(i, new) PROVE IInv'
    BY <2>8, ResetPinKeeps
  <2>9. CASE ApplyInterest
    BY <2>9, PauseKeeps DEF ApplyInterest
  <2>10. CASE Abort
    BY <2>10, PauseKeeps DEF Abort
  <2> QED BY <1>3, <2>1, <2>2, <2>3, <2>4, <2>5, <2>6, <2>7, <2>8, <2>9, <2>10 DEF Request
<1>4. CASE Continue
  BY <1>4, ContinueKeeps
<1>5. CASE Logout
  BY <1>5, LogoutKeeps
<1>6. CASE Tick
  BY <1>6, TickKeeps
<1>7. CASE Restart
  BY <1>7, RestartKeeps
<1>8. CASE UNCHANGED vars
  BY <1>8 DEF vars, IInv, TypeOK, SessionSound, LockedAfterThree, AdminPresent
<1> QED BY <1>1, <1>2, <1>3, <1>4, <1>5, <1>6, <1>7, <1>8 DEF Next

\* The inductive invariant holds of every reachable state.
THEOREM Invariant == Spec => []IInv
BY InitKeeps, NextKeeps, PTL DEF Spec

\* Every variable keeps its type, the expired tick included.
THEOREM TypeCorrect == Spec => []TypeOK
<1>1. IInv => TypeOK
  BY DEF IInv
<1> QED BY Invariant, <1>1, PTL

\* No session is open at the main menu, none outlives its account, and every
\* session's account is active with no failed attempt.
THEOREM SessionsAreSound == Spec => []SessionSound
<1>1. IInv => SessionSound
  BY DEF IInv
<1> QED BY Invariant, <1>1, PTL

\* Locked means at least three failed attempts.
THEOREM LockedNeedsThree == Spec => []LockedAfterThree
<1>1. IInv => LockedAfterThree
  BY DEF IInv
<1> QED BY Invariant, <1>1, PTL

\* The administrator's account is there, neither frozen nor closed.
THEOREM AdminStays == Spec => []AdminPresent
<1>1. IInv => AdminPresent
  BY DEF IInv
<1> QED BY Invariant, <1>1, PTL
-----------------------------------------------------------------------------
(* Action properties: what one step may do to accts *)

\* The failed attempts of a record that is replaced: as they were, forgotten by a
\* login, or counted by a wrong PIN.
Counted(i, a) ==
  \/ a.attempts = accts[i].attempts
  \/ a.attempts = 0 /\ session'.id = i
  \/ /\ a.attempts > accts[i].attempts
     /\ a.attempts >= 3 => a.status = "LOCKED"

\* A record may be replaced by this one: the administrator's own only by a login
\* attempt, which changes no PIN; a PIN by its owner or a reset; a status to FROZEN
\* by an administrator just authenticated.
Allowed(i, a) ==
  /\ i = AdminId => accts[i].status = "ACTIVE" /\ a.pin = accts[i].pin
  /\ a.pin # accts[i].pin =>
       \/ session.id = i /\ ~Expired
       \/ session.role = "ADMIN" /\ accts[i].status = "LOCKED"
  /\ a.status = "FROZEN" /\ accts[i].status # "FROZEN" => session.role = "ADMIN" /\ ~Expired
  /\ Counted(i, a)

\* A step opens an account, removes one, or replaces one record, or none.
OneChange ==
  \/ UNCHANGED accts
  \/ \E i \in Ids \ DOMAIN accts, a \in Credential : accts' = With(accts, i, a)
  \/ \E i \in DOMAIN accts \ {AdminId} :
       accts' = Without(accts, i) /\ session.role = "ADMIN" /\ ~Expired
  \/ \E i \in DOMAIN accts, a \in Credential :
       accts' = [accts EXCEPT ![i] = a] /\ Allowed(i, a)

\* A login attempt.
LEMMA LoginChange ==
  ASSUME IInv, NEW i \in Ids, NEW pin, Login(i, pin)
  PROVE  OneChange
<1>1. i \in DOMAIN accts /\ accts[i].status = "ACTIVE" /\ accts[i] \in Credential
  BY AcctAt DEF Login
<1>2. CASE /\ accts' = [accts EXCEPT ![i].attempts = 0]
           /\ session' = [id |-> i, role |-> RoleOf(i)]
  <2> DEFINE a == [accts[i] EXCEPT !.attempts = 0]
  <2>1. a \in Credential /\ a.status = "ACTIVE" /\ a.pin = accts[i].pin /\ a.attempts = 0
    BY <1>1, AttemptsCleared
  <2>2. accts' = [accts EXCEPT ![i] = a]
    BY <1>2
  <2> HIDE DEF a
  <2>3. session'.id = i
    BY <1>2
  <2>4. Allowed(i, a)
    BY <1>1, <2>1, <2>3 DEF Allowed, Counted
  <2> QED BY <1>1, <2>1, <2>2, <2>4 DEF OneChange
<1>3. CASE accts[i].attempts < MaxAttempts /\ accts' = [accts EXCEPT ![i] = Failed(@)]
  <2> DEFINE a == Failed(accts[i])
  <2>1. /\ a \in Credential /\ a.status # "FROZEN" /\ a.pin = accts[i].pin
        /\ a.attempts > accts[i].attempts
        /\ a.attempts >= 3 => a.status = "LOCKED"
    BY <1>1, <1>3, FailedFields
  <2>2. accts' = [accts EXCEPT ![i] = a]
    BY <1>3
  <2> HIDE DEF a
  <2>3. Allowed(i, a)
    BY <1>1, <2>1 DEF Allowed, Counted
  <2> QED BY <1>1, <2>1, <2>2, <2>3 DEF OneChange
<1> QED BY <1>2, <1>3 DEF Login

\* A PIN change: the administrator's menu has none, so the owner is a customer.
LEMMA ChangePinChange ==
  ASSUME IInv, NEW old, NEW new \in Pins, ChangePin(old, new)
  PROVE  OneChange
<1>1. CASE NotReauthenticated(old)
  BY <1>1 DEF NotReauthenticated, OneChange
<1>2. CASE MayChangePin(old) /\ accts' = [accts EXCEPT ![session.id].pin = new]
  <2> DEFINE i == session.id
             a == [accts[i] EXCEPT !.pin = new]
  <2>1. session # NoSession /\ "changepin" \in OpsOf(session.role)
    BY DEF ChangePin, At, IInv, SessionSound
  <2>2. /\ i \in DOMAIN accts /\ accts[i] \in Credential
        /\ accts[i].status = "ACTIVE" /\ session.role = RoleOf(i)
    BY <2>1, SessionId
  <2>3. i # AdminId
    BY <2>1, <2>2 DEF OpsOf, AdminOps, RoleOf
  <2>4. a \in Credential /\ a.status = "ACTIVE" /\ a.attempts = accts[i].attempts
    BY <2>2, PinChanged
  <2>5. accts' = [accts EXCEPT ![i] = a] /\ ~Expired
    BY <1>2 DEF MayChangePin
  <2> HIDE DEF a
  <2>6. Allowed(i, a)
    BY <2>3, <2>4, <2>5 DEF Allowed, Counted
  <2> QED BY <2>2, <2>4, <2>5, <2>6 DEF OneChange
<1> QED BY <1>1, <1>2 DEF ChangePin

\* Freezing.
LEMMA FreezeChange ==
  ASSUME IInv, NEW i \in Ids, NEW pin, Freeze(i, pin)
  PROVE  OneChange
<1>1. CASE NotReauthenticated(pin)
  BY <1>1 DEF NotReauthenticated, OneChange
<1>2. CASE Reauthenticated(pin) /\ accts' = [accts EXCEPT ![i].status = "FROZEN"]
  <2> DEFINE a == [accts[i] EXCEPT !.status = "FROZEN"]
  <2>1. i \in DOMAIN accts /\ i # AdminId /\ session.role = "ADMIN" /\ ~Expired
    BY <1>2, AdminSession DEF Freeze, Removable, At, AdminOps, Reauthenticated
  <2>2. a \in Credential /\ a.pin = accts[i].pin /\ a.attempts = accts[i].attempts
    BY <2>1, AcctAt, StatusChanged
  <2>3. accts' = [accts EXCEPT ![i] = a]
    BY <1>2
  <2> HIDE DEF a
  <2>4. Allowed(i, a)
    BY <2>1, <2>2 DEF Allowed, Counted
  <2> QED BY <2>1, <2>2, <2>3, <2>4 DEF OneChange
<1> QED BY <1>1, <1>2 DEF Freeze

\* Unfreezing: never the administrator, who is never frozen.
LEMMA UnfreezeChange ==
  ASSUME IInv, NEW i \in Ids, Unfreeze(i)
  PROVE  OneChange
<1> DEFINE a == [accts[i] EXCEPT !.status = "ACTIVE"]
<1>1. i \in DOMAIN accts /\ accts[i].status = "FROZEN" /\ accts' = [accts EXCEPT ![i] = a]
  BY DEF Unfreeze
<1>2. /\ a \in Credential /\ a.status = "ACTIVE" /\ a.pin = accts[i].pin /\ i # AdminId
      /\ a.attempts = accts[i].attempts
  BY <1>1, AcctAt, StatusChanged
<1> HIDE DEF a
<1>3. Allowed(i, a)
  BY <1>2 DEF Allowed, Counted
<1> QED BY <1>1, <1>2, <1>3 DEF OneChange

\* Resetting a PIN: never the administrator's, whose session is open and so not
\* locked.
LEMMA ResetPinChange ==
  ASSUME IInv, NEW i \in Ids, NEW new \in Pins, ResetPin(i, new)
  PROVE  OneChange
<1> DEFINE a == [accts[i] EXCEPT !.pin = new]
<1>1. /\ i \in DOMAIN accts /\ accts[i].status = "LOCKED"
      /\ session # NoSession /\ session.id = AdminId /\ session.role = "ADMIN"
  BY AdminSession DEF ResetPin, At, AdminOps
<1>2. i # AdminId
  BY <1>1, SessionId
<1>3. a \in Credential /\ a.status = "LOCKED" /\ a.attempts = accts[i].attempts
  BY <1>1, AcctAt, PinChanged
<1>4. accts' = [accts EXCEPT ![i] = a]
  BY <1>1, ResetPinResult DEF ResetPin
<1> HIDE DEF a
<1>5. Allowed(i, a)
  BY <1>1, <1>2, <1>3 DEF Allowed, Counted
<1> QED BY <1>1, <1>3, <1>4, <1>5 DEF OneChange

\* Deleting.
LEMMA DeleteChange ==
  ASSUME IInv, NEW i \in Ids, NEW pin, Delete(i, pin)
  PROVE  OneChange
<1>1. CASE NotReauthenticated(pin)
  BY <1>1 DEF NotReauthenticated, OneChange
<1>2. CASE Reauthenticated(pin) /\ accts' = Without(accts, i)
  <2>1. i \in DOMAIN accts /\ i # AdminId /\ session.role = "ADMIN" /\ ~Expired
    BY <1>2, AdminSession DEF Delete, Removable, At, AdminOps, Reauthenticated
  <2> QED BY <1>2, <2>1 DEF OneChange
<1> QED BY <1>1, <1>2 DEF Delete

\* Every step is one change.
LEMMA NextChange == IInv /\ [Next]_vars => OneChange
<1> SUFFICES ASSUME IInv, [Next]_vars PROVE OneChange
  OBVIOUS
<1>1. ASSUME NEW i \in Ids, NEW pin \in Pins, Register(i, pin) PROVE OneChange
  <2>1. NewCredential(pin) \in Credential
    BY NewCredentialType
  <2> QED BY <1>1, <2>1 DEF Register, OneChange
<1>2. ASSUME NEW i \in Ids, NEW pin \in Pins \cup {DefaultPin}, Login(i, pin) PROVE OneChange
  BY <1>2, LoginChange
<1>3. CASE Request
  <2>1. ASSUME NEW op \in UserOps \cup AdminOps, Choose(op) PROVE OneChange
    BY <2>1 DEF Choose, OneChange
  <2>2. ASSUME NEW pin \in Pins \cup {DefaultPin}, Authorise(pin) PROVE OneChange
    BY <2>2 DEF Authorise, NotReauthenticated, OneChange
  <2>3. CASE MoveMoney
    BY <2>3 DEF MoveMoney, OneChange
  <2>4. ASSUME NEW old \in Pins \cup {DefaultPin}, NEW new \in Pins, ChangePin(old, new)
        PROVE OneChange
    BY <2>4, ChangePinChange
  <2>5. ASSUME NEW i \in Ids, NEW pin \in Pins \cup {DefaultPin}, Freeze(i, pin) PROVE OneChange
    BY <2>5, FreezeChange
  <2>6. ASSUME NEW i \in Ids, NEW pin \in Pins \cup {DefaultPin}, Delete(i, pin) PROVE OneChange
    BY <2>6, DeleteChange
  <2>7. ASSUME NEW i \in Ids, Unfreeze(i) PROVE OneChange
    BY <2>7, UnfreezeChange
  <2>8. ASSUME NEW i \in Ids, NEW new \in Pins, ResetPin(i, new) PROVE OneChange
    BY <2>8, ResetPinChange
  <2>9. CASE ApplyInterest \/ Abort
    BY <2>9 DEF ApplyInterest, Abort, OneChange
  <2> QED BY <1>3, <2>1, <2>2, <2>3, <2>4, <2>5, <2>6, <2>7, <2>8, <2>9 DEF Request
<1>4. CASE Continue \/ Logout \/ Tick \/ UNCHANGED vars
  BY <1>4 DEF Continue, Logout, Tick, vars, OneChange
<1>5. CASE Restart
  BY <1>5 DEF Restart, CreateAdminIfAbsent, IInv, AdminPresent, OneChange
<1> QED BY <1>1, <1>2, <1>3, <1>4, <1>5 DEF Next

\* What a change leaves of the accounts there were.
LEMMA ChangeEffect ==
  ASSUME IInv, OneChange, NEW j \in DOMAIN accts
  PROVE  /\ j \notin DOMAIN accts' => j # AdminId /\ session.role = "ADMIN" /\ ~Expired
         /\ j \in DOMAIN accts' => accts'[j] = accts[j] \/ Allowed(j, accts'[j])
<1>1. CASE UNCHANGED accts
  BY <1>1
<1>2. CASE \E i \in Ids \ DOMAIN accts, a \in Credential : accts' = With(accts, i, a)
  BY <1>2 DEF With
<1>3. CASE \E i \in DOMAIN accts \ {AdminId} :
             accts' = Without(accts, i) /\ session.role = "ADMIN" /\ ~Expired
  BY <1>3 DEF Without
<1>4. CASE \E i \in DOMAIN accts, a \in Credential :
             accts' = [accts EXCEPT ![i] = a] /\ Allowed(i, a)
  <2>1. PICK i \in DOMAIN accts, a \in Credential : accts' = [accts EXCEPT ![i] = a] /\ Allowed(i, a)
    BY <1>4
  <2>2. DOMAIN accts' = DOMAIN accts /\ accts'[i] = a /\ (j # i => accts'[j] = accts[j])
    BY <2>1, UpdateAccts DEF IInv
  <2> QED BY <2>1, <2>2
<1> QED BY <1>1, <1>2, <1>3, <1>4 DEF OneChange

\* The administrator's account after a step.
LEMMA AdminEffect ==
  ASSUME IInv, [Next]_vars
  PROVE  /\ accts'[AdminId].pin = accts[AdminId].pin
         /\ accts[AdminId].status = "LOCKED" => accts'[AdminId] = accts[AdminId]
<1>1. AdminId \in DOMAIN accts /\ AdminId \in DOMAIN accts'
  BY NextKeeps DEF IInv, AdminPresent
<1> QED BY <1>1, NextChange, ChangeEffect DEF Allowed

\* Once locked, the administrator's account stays as it is, restarts included.
THEOREM AdminLockIsFinal == Spec => AdminLockIsForever
<1>1. IInv /\ [Next]_vars => [accts[AdminId].status = "LOCKED" => accts'[AdminId] = accts[AdminId]]_vars
  BY AdminEffect
<1> QED BY Invariant, <1>1, PTL DEF Spec, AdminLockIsForever

\* Why DefaultPinGoes fails: in every state of every run the administrator's PIN is the
\* default one, whatever anyone does.  The administrator's menu offers no change, and the
\* reset of a locked account needs a session the locked one cannot open.
THEOREM AdminPinNeverChanges == Spec => [](accts[AdminId].pin = DefaultPin)
<1> DEFINE P == accts[AdminId].pin = DefaultPin
<1>1. Init => P
  BY DEF Init, CreateAdminIfAbsent, With, NewCredential
<1>2. IInv /\ P /\ [Next]_vars => P'
  BY AdminEffect
<1> QED BY Invariant, <1>1, <1>2, PTL DEF Spec

\* Every PIN change is the owner's, in time, or a reset of a locked account.
THEOREM PinChangesAreAuthorised == Spec => PinChangesAuthorised
<1> DEFINE P == \A i \in DOMAIN accts \cap DOMAIN accts' :
                  accts'[i].pin # accts[i].pin =>
                    \/ session.id = i /\ ~Expired
                    \/ session.role = "ADMIN" /\ accts[i].status = "LOCKED"
<1>1. IInv /\ [Next]_vars => [P]_vars
  BY NextChange, ChangeEffect DEF Allowed
<1> QED BY Invariant, <1>1, PTL DEF Spec, PinChangesAuthorised

\* Every freeze and deletion happens in an administrator's unexpired session.
THEOREM SuspensionsAreFresh == Spec => SuspensionIsFresh
<1> DEFINE P == \A i \in DOMAIN accts :
                  (i \notin DOMAIN accts' \/ (accts'[i].status = "FROZEN" /\ accts[i].status # "FROZEN")) =>
                    session.role = "ADMIN" /\ ~Expired
<1>1. IInv /\ [Next]_vars => [P]_vars
  BY NextChange, ChangeEffect DEF Allowed
<1> QED BY Invariant, <1>1, PTL DEF Spec, SuspensionIsFresh

\* Every failed attempt counts, and from the third on each one locks, whatever freezes
\* and unfreezes come between; only a login, or the administrator, forgets any.
THEOREM GuessesCount == Spec => GuessesAreCounted
<1> DEFINE P == \A i \in DOMAIN accts \cap DOMAIN accts' :
                  /\ accts'[i].attempts < accts[i].attempts =>
                       session'.id = i \/ (session.role = "ADMIN" /\ accts[i].status = "LOCKED")
                  /\ accts'[i].attempts > accts[i].attempts /\ accts'[i].attempts >= 3 =>
                       accts'[i].status = "LOCKED"
<1>1. ASSUME IInv, [Next]_vars, NEW i \in DOMAIN accts \cap DOMAIN accts'
      PROVE  /\ accts'[i].attempts < accts[i].attempts =>
                  session'.id = i \/ (session.role = "ADMIN" /\ accts[i].status = "LOCKED")
             /\ accts'[i].attempts > accts[i].attempts /\ accts'[i].attempts >= 3 =>
                  accts'[i].status = "LOCKED"
  <2>1. accts[i].attempts \in Nat /\ accts'[i].attempts \in Nat
    BY <1>1, NextKeeps, TimesAssumption DEF IInv, TypeOK, Credential
  <2>2. accts'[i] = accts[i] \/ Counted(i, accts'[i])
    BY <1>1, NextChange, ChangeEffect DEF Allowed
  <2> QED BY <2>1, <2>2 DEF Counted
<1>2. IInv /\ [Next]_vars => [P]_vars
  BY <1>1
<1> QED BY Invariant, <1>2, PTL DEF Spec, GuessesAreCounted
=============================================================================
