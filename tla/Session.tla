------------------------------- MODULE Session -------------------------------
(***************************************************************************)
(* Login, the one session, its expiry, and the menus that lead to each       *)
(* request: auth.c, admin.c and the menus of main.c.  A request prompts for  *)
(* several answers, and any time may pass at each prompt: a handler's last   *)
(* check of the session may be long gone when it does its work.              *)
(*                                                                          *)
(*   accts    what g_accounts holds for authentication                      *)
(*   session  g_session: the account logged in and its role                 *)
(*   idle     the time since g_session.last_activity                        *)
(*   ui       the prompt the program waits at, and the request it serves    *)
(*                                                                          *)
(* Money is left to Accounts: a request that only moves money ends here      *)
(* without changing accts.  Every change of accts is saved before the next   *)
(* prompt, so a restart finds it; a save that fails is Persistence's matter. *)
(***************************************************************************)
EXTENDS Naturals

CONSTANTS Ids, AdminId, NoId,  \* account ids, ADMIN_ID, and no id
          Pins, DefaultPin,    \* the PINs sec_validate_pin_format accepts; "000000"
          Timeout,             \* SESSION_TIMEOUT
          MaxAttempts          \* bound: failed attempts counted

ASSUME IdsAssumption == AdminId \in Ids /\ NoId \notin Ids
ASSUME TimesAssumption == Timeout \in Nat /\ MaxAttempts \in Nat

VARIABLES accts, session, idle, ui
vars == <<accts, session, idle, ui>>

UserOps  == {"view", "deposit", "withdraw", "transfer", "changepin"}
AdminOps == {"view", "freeze", "unfreeze", "delete", "resetpin", "interest"}

Credential == [status   : {"ACTIVE", "FROZEN", "LOCKED"},
               attempts : 0 .. MaxAttempts,   \* failed_pin_attempts
               pin      : Pins \cup {DefaultPin}]

NoSession == [id |-> NoId, role |-> "NONE"]

TypeOK ==
  /\ DOMAIN accts \subseteq Ids
  /\ accts \in [DOMAIN accts -> Credential]
  /\ session \in [id : Ids, role : {"USER", "ADMIN"}] \cup {NoSession}
  /\ idle \in 0 .. Timeout + 1
  /\ ui \in [at : {"main", "menu", "handler", "authorised", "pause"},
             op : UserOps \cup AdminOps \cup {"none"}]

-----------------------------------------------------------------------------
RoleOf(i) == IF i = AdminId THEN "ADMIN" ELSE "USER"

OpsOf(role) == IF role = "ADMIN" THEN AdminOps ELSE UserOps

Expired == idle > Timeout

At(place, op) == ui.at = place /\ ui.op = op

Goto(place) == ui' = [at |-> place, op |-> "none"]

\* Mutant: the role is left behind.
ClearSession_KeepsRole == session' = [session EXCEPT !.id = NoId]

ClearSession == session' = NoSession

\* auth_is_authenticated finds the session expired, and clears it.
SessionGone == Expired /\ ClearSession /\ idle' = 0

NewCredential(pin) == [status |-> "ACTIVE", attempts |-> 0, pin |-> pin]

With(f, i, a) == [j \in DOMAIN f \cup {i} |-> IF j = i THEN a ELSE f[j]]
Without(f, i) == [j \in DOMAIN f \ {i} |-> f[j]]

\* Mutant: a restart installs the administrator again.
CreateAdminIfAbsent_Always(f) == With(f, AdminId, NewCredential(DefaultPin))

CreateAdminIfAbsent(f) ==
  IF AdminId \in DOMAIN f THEN f ELSE With(f, AdminId, NewCredential(DefaultPin))

\* acct_increment_failed_pin: locks from the third failure in a row on.
\* Mutant: locks at the third only.
Failed_Exactly(a) ==
  [a EXCEPT !.attempts = @ + 1, !.status = IF a.attempts = 2 THEN "LOCKED" ELSE @]

Failed(a) ==
  [a EXCEPT !.attempts = @ + 1, !.status = IF a.attempts >= 2 THEN "LOCKED" ELSE @]

-----------------------------------------------------------------------------
Init ==
  /\ accts = CreateAdminIfAbsent([i \in {} |-> NewCredential(DefaultPin)])
  /\ session = NoSession
  /\ idle = 0
  /\ ui = [at |-> "main", op |-> "none"]

Register(i, pin) ==
  /\ ui.at = "main"
  /\ i \in Ids \ (DOMAIN accts \cup {AdminId})
  /\ accts' = With(accts, i, NewCredential(pin))
  /\ UNCHANGED <<session, idle, ui>>

\* auth_login.  LOCKED and FROZEN accounts are refused before the PIN is read.
Login(i, pin) ==
  /\ ui.at = "main"
  /\ i \in DOMAIN accts
  /\ accts[i].status = "ACTIVE"
  /\ \/ /\ pin = accts[i].pin
        /\ accts' = [accts EXCEPT ![i].attempts = 0]
        /\ session' = [id |-> i, role |-> RoleOf(i)]
        /\ idle' = 0
        /\ Goto("menu")
     \/ /\ pin # accts[i].pin
        /\ accts[i].attempts < MaxAttempts
        /\ accts' = [accts EXCEPT ![i] = Failed(@)]
        /\ UNCHANGED <<session, idle, ui>>

\* A menu choice.  The handler it calls checks the session first, and refreshes
\* it, except user_change_pin.  A request without further effect just shows.
Choose(op) ==
  /\ ui.at = "menu"
  /\ op \in OpsOf(session.role)
  /\ UNCHANGED accts
  /\ \/ SessionGone /\ Goto("pause")
     \/ /\ ~Expired
        /\ idle' = IF op = "changepin" THEN idle ELSE 0
        /\ IF op = "view" THEN Goto("pause") ELSE ui' = [at |-> "handler", op |-> op]
        /\ UNCHANGED session

\* A handler returns early: a bad amount, an unsuitable account, a refusal by
\* the account engine, an answer other than "y".
Abort ==
  /\ ui.at \in {"handler", "authorised"}
  /\ Goto("pause")
  /\ UNCHANGED <<accts, session, idle>>

\* The while condition of the menu loops, from the pause after a request or from
\* an invalid choice.  Only menu_user refreshes the session.
\* Mutant: the loop is left without clearing the session.
Continue_KeepsSession ==
  /\ ui.at \in {"menu", "pause"}
  /\ UNCHANGED <<accts, session>>
  /\ \/ (session = NoSession \/ Expired) /\ Goto("main") /\ UNCHANGED idle
     \/ session # NoSession /\ ~Expired /\ Goto("menu") /\ UNCHANGED idle

Continue ==
  /\ ui.at \in {"menu", "pause"}
  /\ UNCHANGED accts
  /\ \/ session = NoSession /\ Goto("main") /\ UNCHANGED <<session, idle>>
     \/ session # NoSession /\ SessionGone /\ Goto("main")
     \/ /\ session # NoSession
        /\ ~Expired
        /\ idle' = IF session.role = "USER" THEN 0 ELSE idle
        /\ Goto("menu")
        /\ UNCHANGED session

Logout ==
  /\ ui.at = "menu"
  /\ ClearSession
  /\ idle' = 0
  /\ Goto("main")
  /\ UNCHANGED accts

-----------------------------------------------------------------------------
\* auth_reauth.  A wrong PIN here is not counted as a failed attempt.
\* Mutant: the session is not checked.
Reauthenticated_NoCheck(pin) == pin = accts[session.id].pin

Reauthenticated(pin) == ~Expired /\ pin = accts[session.id].pin

NotReauthenticated(pin) ==
  /\ Goto("pause")
  /\ UNCHANGED accts
  /\ \/ SessionGone
     \/ ~Expired /\ pin # accts[session.id].pin /\ UNCHANGED <<session, idle>>

\* user_withdraw and user_transfer ask for the PIN, then for a note or a
\* confirmation, ...
Authorise(pin) ==
  /\ ui.at = "handler"
  /\ ui.op \in {"withdraw", "transfer"}
  /\ \/ NotReauthenticated(pin)
     \/ /\ Reauthenticated(pin)
        /\ idle' = 0
        /\ ui' = [ui EXCEPT !.at = "authorised"]
        /\ UNCHANGED <<accts, session>>

\* ... and then move the money, as user_deposit does, with no further check.  An
\* operation that succeeds refreshes the session.
MoveMoney ==
  /\ At("handler", "deposit") \/ ui.at = "authorised"
  /\ idle' = 0
  /\ Goto("pause")
  /\ UNCHANGED <<accts, session>>

\* Mutant: auth_change_pin does not check the session.
MayChangePin_NoCheck(old) == old = accts[session.id].pin

MayChangePin(old) == ~Expired /\ old = accts[session.id].pin

ChangePin(old, new) ==
  /\ At("handler", "changepin")
  /\ \/ NotReauthenticated(old)
     \/ /\ MayChangePin(old)
        /\ accts' = [accts EXCEPT ![session.id].pin = new]
        /\ Goto("pause")
        /\ UNCHANGED <<session, idle>>

-----------------------------------------------------------------------------
\* admin_freeze_account and admin_delete_account: the PIN is the last answer.
Removable(i) == i \in DOMAIN accts /\ i # AdminId

Freeze(i, pin) ==
  /\ At("handler", "freeze")
  /\ Removable(i)
  /\ accts[i].status # "FROZEN"
  /\ \/ NotReauthenticated(pin)
     \/ /\ Reauthenticated(pin)
        /\ accts' = [accts EXCEPT ![i].status = "FROZEN"]
        /\ idle' = 0
        /\ Goto("pause")
        /\ UNCHANGED session

Delete(i, pin) ==
  /\ At("handler", "delete")
  /\ Removable(i)
  /\ \/ NotReauthenticated(pin)
     \/ /\ Reauthenticated(pin)
        /\ accts' = Without(accts, i)
        /\ idle' = 0
        /\ Goto("pause")
        /\ UNCHANGED session

Unfreeze(i) ==
  /\ At("handler", "unfreeze")
  /\ i \in DOMAIN accts
  /\ accts[i].status = "FROZEN"
  /\ accts' = [accts EXCEPT ![i].status = "ACTIVE"]
  /\ Goto("pause")
  /\ UNCHANGED <<session, idle>>

\* admin_reset_account_pin copies the record, unlocks it, and then stores the
\* copy, with the new PIN and the old status and attempts, over it.
Unlock(f, i) == [f EXCEPT ![i].status = "ACTIVE", ![i].attempts = 0]

Update(f, i, a) == [f EXCEPT ![i] = a]

ResetPin(i, new) ==
  /\ At("handler", "resetpin")
  /\ i \in DOMAIN accts
  /\ accts[i].status = "LOCKED"
  /\ LET a == [accts[i] EXCEPT !.pin = new]
     IN  accts' = Update(Unlock(accts, i), i, a)
  /\ Goto("pause")
  /\ UNCHANGED <<session, idle>>

ApplyInterest ==
  /\ At("handler", "interest")
  /\ Goto("pause")
  /\ UNCHANGED <<accts, session, idle>>

-----------------------------------------------------------------------------
\* Time passes at a prompt.
Tick ==
  /\ session # NoSession
  /\ ~Expired
  /\ idle' = idle + 1
  /\ UNCHANGED <<accts, session, ui>>

\* The program stops at a prompt, by a signal or without one, and is run again.
Restart ==
  /\ accts' = CreateAdminIfAbsent(accts)
  /\ session' = NoSession
  /\ idle' = 0
  /\ Goto("main")

Request ==
  \/ \E op \in UserOps \cup AdminOps : Choose(op)
  \/ \E pin \in Pins \cup {DefaultPin} : Authorise(pin)
  \/ MoveMoney
  \/ \E old \in Pins \cup {DefaultPin}, new \in Pins : ChangePin(old, new)
  \/ \E i \in Ids, pin \in Pins \cup {DefaultPin} : Freeze(i, pin)
  \/ \E i \in Ids, pin \in Pins \cup {DefaultPin} : Delete(i, pin)
  \/ \E i \in Ids : Unfreeze(i)
  \/ \E i \in Ids, new \in Pins : ResetPin(i, new)
  \/ ApplyInterest
  \/ Abort

Next ==
  \/ \E i \in Ids, pin \in Pins : Register(i, pin)
  \/ \E i \in Ids, pin \in Pins \cup {DefaultPin} : Login(i, pin)
  \/ Request
  \/ Continue
  \/ Logout
  \/ Tick
  \/ Restart

Spec == Init /\ [][Next]_vars

\* An administrator who wants another PIN asks for it whenever the menu offers the change
\* in time, and then gives the old one and a new one.
AsksForChange == session.role = "ADMIN" /\ Choose("changepin") /\ UNCHANGED session

GivesNewPin ==
  /\ session.role = "ADMIN"
  /\ \E new \in Pins : ChangePin(accts[session.id].pin, new) /\ accts' # accts

WillingSpec == Spec /\ SF_vars(AsksForChange) /\ SF_vars(GivesNewPin)

-----------------------------------------------------------------------------
(* Properties *)

\* Whenever a session is open, its account exists, is neither locked nor frozen
\* and has no failed attempt pending, and the role is the account's own; the
\* main menu, where anyone may log in or register, is never reached with a
\* session open, and a request is never served without one or for the other
\* role.  (Expiry is noticed in seven places of auth.c, admin.c and main.c.)
SessionSound ==
  /\ ui.at = "main" => session = NoSession
  /\ ui.at \in {"menu", "handler", "authorised"} => session # NoSession
  /\ ui.at \in {"handler", "authorised"} => ui.op \in OpsOf(session.role)
  /\ session # NoSession =>
       /\ session.id \in DOMAIN accts
       /\ accts[session.id].status = "ACTIVE"
       /\ accts[session.id].attempts = 0
       /\ session.role = RoleOf(session.id)

\* Only failed attempts lock an account, never fewer than three.
LockedAfterThree ==
  \A i \in DOMAIN accts : accts[i].status = "LOCKED" => accts[i].attempts >= 3

\* The administrator's account is never deleted nor frozen.
AdminPresent ==
  AdminId \in DOMAIN accts /\ accts[AdminId].status \in {"ACTIVE", "LOCKED"}

\* A locked administrator stays locked for ever, with the same PIN, across
\* restarts: admin_reset_account_pin is the only way out of LOCKED, and needs
\* the administrator's session.
AdminLockIsForever ==
  [][accts[AdminId].status = "LOCKED" => accts'[AdminId] = accts[AdminId]]_vars

\* A PIN changes only in its owner's session, before it expires, or in the
\* administrator's, on a locked account.
PinChangesAuthorised ==
  [][\A i \in DOMAIN accts \cap DOMAIN accts' :
       accts'[i].pin # accts[i].pin =>
         \/ session.id = i /\ ~Expired
         \/ session.role = "ADMIN" /\ accts[i].status = "LOCKED"]_vars

\* README:116, "admin delete ... require live PIN confirmation mid-session": an
\* account is frozen or removed only in an administrator's session that has not
\* expired, however long the prompts before took.
SuspensionIsFresh ==
  [][\A i \in DOMAIN accts :
       (i \notin DOMAIN accts' \/ (accts'[i].status = "FROZEN" /\ accts[i].status # "FROZEN")) =>
         session.role = "ADMIN" /\ ~Expired]_vars

\* README:115, "Session auto-expires after 15 minutes of inactivity; all
\* subsequent requests rejected": nothing is carried out in an expired session.
CarriedOut ==
  \/ MoveMoney
  \/ ApplyInterest
  \/ \E i \in Ids : Unfreeze(i)
  \/ accts' # accts

NoWorkAfterExpiry == [][CarriedOut /\ session # NoSession => ~Expired]_vars

\* admin.c:362, "Account unlocked and PIN reset": a PIN reset of a locked account
\* unlocks it.
ResetUnlocks ==
  [][\A i \in DOMAIN accts \cap DOMAIN accts' :
       accts[i].status = "LOCKED" /\ accts'[i].pin # accts[i].pin =>
         accts'[i].status = "ACTIVE"]_vars

\* auth.c:187, "MUST be changed on first login", and README:713: an administrator who comes
\* back for ever, and takes the change of PIN whenever it is offered, is rid of the default
\* PIN in the end.
DefaultPinGoes ==
  []<>(ui.at = "menu" /\ session.role = "ADMIN" /\ ~Expired) => <>(accts[AdminId].pin # DefaultPin)

\* README:309, "Hard lock after 3 failed attempts": unfreezing makes a locked account
\* active with its failures still counted (account.c:278), so the lock holds only
\* in this sense: every wrong PIN from the third on locks, however often the account
\* was frozen and unfrozen since, and no failure is forgotten but by a login with
\* the right PIN or, in the administrator's session, on a locked account.
GuessesAreCounted ==
  [][\A i \in DOMAIN accts \cap DOMAIN accts' :
       /\ accts'[i].attempts < accts[i].attempts =>
            session'.id = i \/ (session.role = "ADMIN" /\ accts[i].status = "LOCKED")
       /\ accts'[i].attempts > accts[i].attempts /\ accts'[i].attempts >= 3 =>
            accts'[i].status = "LOCKED"]_vars
=============================================================================
