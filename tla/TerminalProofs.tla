--------------------------- MODULE TerminalProofs ---------------------------
(* Proofs about Terminal, for PINs, lines and answers of any length. *)
EXTENDS Terminal, FiniteSetTheorems, TLAPS

-----------------------------------------------------------------------------
(* The requests and their prompts *)

Kinds == {Line, AnyLine, Pin, LaterPin, AdminPin, Pause}

Requests == {"login", "register", "exit", "deposit", "withdraw", "transfer", "changepin",
             "suspend", "unfreeze", "resetpin", "interest", "detail", "search", "audit"}

Ops == Menus \cup {"pause"} \cup UNION {Offers(m) : m \in Menus}

\* Every request a menu offers is one the model knows.
LEMMA OfferedOps ==
  /\ \A m \in Menus : Offers(m) \subseteq Requests
  /\ Ops \subseteq Menus \cup {"pause"} \cup Requests
  /\ \A m \in Menus : Offers(m) \subseteq Ops
<1>1. \A m \in Menus : Offers(m) \subseteq Requests
  BY DEF Menus, Offers, Requests
<1> QED BY <1>1 DEF Ops

\* The kinds of prompts, and how each one is read and tested.
LEMMA KindFacts ==
  ASSUME NEW p \in Kinds
  PROVE  /\ p.read \in {"line", "pin", "key"} /\ p.test \in {"now", "later", "any"}
         /\ p.max \in Nat /\ p.max > 1
         /\ p.read = "line" <=> p \in {Line, AnyLine}
         /\ p.read = "pin" <=> p \in {Pin, LaterPin, AdminPin}
         /\ p.read = "key" <=> p = Pause
         /\ p.read = "line" => p.max = LineMax
         /\ p.read = "pin" => p.max > 2 /\ p.max \in {PinLen + 1, PinLen + 2}
         /\ p.read = "key" => p.max = 2
         /\ p.max = PinLen + 1 /\ p.read = "pin" => p = AdminPin
         /\ p.test = "now" <=> p \in {Line, Pin, AdminPin}
BY SizesAssumption DEF Kinds, Line, AnyLine, Pin, LaterPin, AdminPin, Pause

\* The script of every operation, written out.
LEMMA Scripts ==
  /\ \A op \in Menus : Script(op) = <<Line>>
  /\ Script("pause") = <<Pause>>
  /\ Script("login") = <<Line, Pin>>
  /\ Script("register") = <<Line, Line, Line, AnyLine, AnyLine, Line, Pin, Pin, Line>>
  /\ Script("exit") = <<Line>>
  /\ Script("deposit") = <<Line, AnyLine, Line>>
  /\ Script("withdraw") = <<Line, Pin, AnyLine>>
  /\ Script("transfer") = <<Line, Line, Pin, Line>>
  /\ Script("changepin") = <<LaterPin, LaterPin, Pin>>
  /\ Script("suspend") = <<Line, Line, AdminPin>>
  /\ Script("unfreeze") = <<Line>>
  /\ Script("resetpin") = <<Line, AdminPin>>
  /\ Script("interest") = <<Line>>
  /\ Script("detail") = <<Line>>
  /\ Script("search") = <<AnyLine, AnyLine>>
  /\ Script("audit") = <<AnyLine>>
BY DEF Script, Menus, LoginPrompts, RegisterPrompts, ExitPrompts, DepositPrompts, WithdrawPrompts,
   TransferPrompts, ChangePinPrompts, SuspendPrompts, UnfreezePrompts, ResetPinPrompts,
   InterestPrompts, DetailPrompts, SearchPrompts, AuditPrompts

\* What the proofs need of a request's prompts.
GoodScript(s, op) ==
  /\ s \in Seq(Kinds) /\ Len(s) \in Nat /\ Len(s) > 0 /\ DOMAIN s = 1 .. Len(s)
  /\ \A k \in DOMAIN s : s[k] \in Kinds
  /\ \A k \in DOMAIN s : s[k] = AdminPin => k = Len(s) /\ op \in Requests \ {"login", "exit"}
  /\ s[Len(s)] \in {AnyLine, LaterPin, Pause} => op \in {"pause", "withdraw", "search", "audit"}
  /\ op = "pause" <=> s[1] = Pause

\* The last prompt of a request.
GoodLast(p, op) ==
  /\ p \in Kinds
  /\ op \in Requests
  /\ p = AdminPin => op \notin {"login", "exit"}
  /\ p \in {AnyLine, LaterPin, Pause} => op \in {"withdraw", "search", "audit"}

Middle == Kinds \ {AdminPin, Pause}

\* A script of at most three prompts is good when its last prompt is.
LEMMA ShortScripts ==
  ASSUME NEW op, NEW p, GoodLast(p, op), op # "pause", Pause # AdminPin
  PROVE  /\ p # Pause => GoodScript(<<p>>, op)
         /\ \A q \in Middle : GoodScript(<<q, p>>, op)
         /\ \A q, r \in Middle : GoodScript(<<q, r, p>>, op)
<1>1. p \in Kinds /\ (p = AdminPin => op \in Requests \ {"login", "exit"})
      /\ (p \in {AnyLine, LaterPin, Pause} => op \in {"pause", "withdraw", "search", "audit"})
  BY DEF GoodLast
<1>2. p # Pause => GoodScript(<<p>>, op)
  <2> DEFINE s == <<p>>
  <2> SUFFICES ASSUME p # Pause PROVE GoodScript(s, op)
    OBVIOUS
  <2>1. s \in Seq(Kinds) /\ Len(s) = 1 /\ DOMAIN s = 1 .. 1 /\ s[1] = p
    BY <1>1
  <2> HIDE DEF s
  <2>2. \A k \in DOMAIN s : k = 1
    BY <2>1
  <2> QED BY <1>1, <2>1, <2>2 DEF GoodScript
<1>3. ASSUME NEW q \in Middle PROVE GoodScript(<<q, p>>, op)
  <2> DEFINE s == <<q, p>>
  <2>0. q \in Kinds /\ q # AdminPin /\ q # Pause
    BY DEF Middle
  <2>1. s \in Seq(Kinds) /\ Len(s) = 2 /\ DOMAIN s = 1 .. 2 /\ s[1] = q /\ s[2] = p
    BY <1>1, <2>0
  <2> HIDE DEF s
  <2>2. \A k \in DOMAIN s : k = 1 \/ k = 2
    BY <2>1
  <2> QED BY <1>1, <2>0, <2>1, <2>2 DEF GoodScript
<1>4. ASSUME NEW q \in Middle, NEW r \in Middle PROVE GoodScript(<<q, r, p>>, op)
  <2> DEFINE s == <<q, r, p>>
  <2>0. q \in Kinds /\ q # AdminPin /\ q # Pause /\ r \in Kinds /\ r # AdminPin
    BY DEF Middle
  <2>1. s \in Seq(Kinds) /\ Len(s) = 3 /\ DOMAIN s = 1 .. 3 /\ s[1] = q /\ s[2] = r /\ s[3] = p
    BY <1>1, <2>0
  <2> HIDE DEF s
  <2>2. \A k \in DOMAIN s : k = 1 \/ k = 2 \/ k = 3
    BY <2>1
  <2> QED BY <1>1, <2>0, <2>1, <2>2 DEF GoodScript
<1> QED BY <1>2, <1>3, <1>4

\* Every script is good: it is not empty, of known prompts, and tests where it may.
LEMMA GoodScripts ==
  ASSUME NEW op \in Ops
  PROVE  GoodScript(Script(op), op)
<1>1. op \in Menus \cup {"pause"} \cup Requests
  BY OfferedOps
<1>3. /\ Line # AdminPin /\ AnyLine # AdminPin /\ Pin # AdminPin /\ LaterPin # AdminPin /\ Pause # AdminPin
      /\ Line # Pause /\ AnyLine # Pause /\ Pin # Pause /\ LaterPin # Pause
      /\ Line \notin {AnyLine, LaterPin, Pause} /\ Pin \notin {AnyLine, LaterPin, Pause}
      /\ AdminPin \notin {AnyLine, LaterPin, Pause}
  BY SizesAssumption DEF Line, AnyLine, Pin, LaterPin, AdminPin, Pause
<1>4. /\ Line \in Kinds /\ AnyLine \in Kinds /\ Pin \in Kinds /\ LaterPin \in Kinds /\ AdminPin \in Kinds
      /\ Pause \in Kinds
      /\ Line \in Middle /\ AnyLine \in Middle /\ Pin \in Middle /\ LaterPin \in Middle
  BY <1>3 DEF Kinds, Middle
<1>5. CASE op \in Menus \cup {"pause"}
  <2> DEFINE p == IF op = "pause" THEN Pause ELSE Line
             s == <<p>>
  <2>1. p \in Kinds /\ p # AdminPin /\ (op = "pause" <=> p = Pause) /\ p \in {Line, Pause}
    BY <1>3, <1>4
  <2>2. s = Script(op)
    BY <1>5, Scripts DEF Menus
  <2> HIDE DEF p
  <2>3. s \in Seq(Kinds) /\ Len(s) = 1 /\ DOMAIN s = 1 .. 1 /\ s[1] = p
    BY <2>1
  <2> HIDE DEF s
  <2>4. \A k \in DOMAIN s : k = 1
    BY <2>3
  <2>5. p \in {AnyLine, LaterPin, Pause} => op = "pause"
    BY <1>3, <2>1
  <2>6. GoodScript(s, op)
    BY <2>1, <2>3, <2>4, <2>5 DEF GoodScript
  <2> QED BY <2>2, <2>6
<1>6. CASE op = "register"
  <2> DEFINE s == <<Line, Line, Line, AnyLine, AnyLine, Line, Pin, Pin, Line>>
  <2>1. /\ s \in Seq(Kinds) /\ Len(s) = 9 /\ DOMAIN s = 1 .. 9 /\ s[1] = Line /\ s[9] = Line
        /\ \A k \in 1 .. 9 : s[k] \in {Line, AnyLine, Pin}
    BY <1>4
  <2>2. s = Script(op)
    BY <1>6, Scripts
  <2> HIDE DEF s
  <2>3. \A k \in 1 .. 9 : s[k] \in Kinds /\ s[k] # AdminPin
    BY <1>3, <1>4, <2>1
  <2>4. op # "pause" /\ s[1] # Pause /\ s[Len(s)] \notin {AnyLine, LaterPin, Pause}
    BY <1>3, <1>6, <2>1
  <2>5. GoodScript(s, op)
    BY <2>1, <2>3, <2>4 DEF GoodScript
  <2> QED BY <2>2, <2>5
<1>7. CASE op \in {"unfreeze", "interest", "detail", "exit", "audit"}
  <2>1. Script(op) = <<Line>> \/ (Script(op) = <<AnyLine>> /\ op = "audit")
    BY <1>7, Scripts
  <2>2. op \in Requests /\ op # "pause" /\ GoodLast(Line, op) /\ (op = "audit" => GoodLast(AnyLine, op))
    BY <1>3, <1>4, <1>7 DEF GoodLast, Requests
  <2> QED BY <1>3, <2>1, <2>2, ShortScripts
<1>8. CASE op \in {"login", "resetpin", "search"}
  <2>1. \/ Script(op) = <<Line, Pin>>
        \/ Script(op) = <<Line, AdminPin>> /\ op = "resetpin"
        \/ Script(op) = <<AnyLine, AnyLine>> /\ op = "search"
    BY <1>8, Scripts
  <2>2. op # "pause" /\ GoodLast(Pin, op) /\ (op = "resetpin" => GoodLast(AdminPin, op))
        /\ (op = "search" => GoodLast(AnyLine, op))
    BY <1>3, <1>4, <1>8 DEF GoodLast, Requests
  <2> QED BY <1>3, <1>4, <2>1, <2>2, ShortScripts
<1>9. CASE op \in {"deposit", "withdraw", "changepin", "suspend"}
  <2>1. \/ Script(op) = <<Line, AnyLine, Line>>
        \/ Script(op) = <<Line, Pin, AnyLine>> /\ op = "withdraw"
        \/ Script(op) = <<LaterPin, LaterPin, Pin>>
        \/ Script(op) = <<Line, Line, AdminPin>> /\ op = "suspend"
    BY <1>9, Scripts
  <2>2. op # "pause" /\ GoodLast(Line, op) /\ GoodLast(Pin, op)
        /\ (op = "suspend" => GoodLast(AdminPin, op)) /\ (op = "withdraw" => GoodLast(AnyLine, op))
    BY <1>3, <1>4, <1>9 DEF GoodLast, Requests
  <2> QED BY <1>3, <1>4, <2>1, <2>2, ShortScripts
<1>10. CASE op = "transfer"
  <2> DEFINE s == <<Line, Line, Pin, Line>>
  <2>1. /\ s \in Seq(Kinds) /\ Len(s) = 4 /\ DOMAIN s = 1 .. 4 /\ s[1] = Line /\ s[4] = Line
        /\ \A k \in 1 .. 4 : s[k] \in {Line, Pin}
    BY <1>4
  <2>2. s = Script(op)
    BY <1>10, Scripts
  <2> HIDE DEF s
  <2>3. \A k \in 1 .. 4 : s[k] \in Kinds /\ s[k] # AdminPin
    BY <1>3, <1>4, <2>1
  <2> QED BY <1>3, <1>10, <2>1, <2>2, <2>3 DEF GoodScript, Requests
<1> QED BY <1>1, <1>5, <1>6, <1>7, <1>8, <1>9, <1>10 DEF Requests

-----------------------------------------------------------------------------
(* Every prompt is reached with an empty buffer, and no buffer is exceeded *)

Outcomes == {"open", "refused", "done"}
Uis == [op : Ops, step : Nat, menu : Menus, outcome : Outcomes, n : Nat]

PromptOf(u) == Script(u.op)[u.step]

\* A PIN's last character, or a pause's key, ends the prompt: it is never still asked with a full
\* buffer.
UiOK(u) ==
  /\ u \in Uis /\ u.step \in DOMAIN Script(u.op)
  /\ PromptOf(u).read = "line" => u.n < LineMax
  /\ PromptOf(u).read # "line" => u.n < PromptOf(u).max - 1

\* The prompt at any step of a script is of a known kind.
LEMMA PromptKind ==
  ASSUME NEW u \in Uis, u.step \in DOMAIN Script(u.op)
  PROVE  PromptOf(u) \in Kinds
<1>1. u.op \in Ops
  BY DEF Uis
<1> QED BY <1>1, GoodScripts DEF GoodScript, PromptOf

\* At a prompt of which nothing has been read.
LEMMA FreshOK ==
  ASSUME NEW u \in Uis, u.step \in DOMAIN Script(u.op), u.n = 0
  PROVE  UiOK(u)
<1>1. PromptOf(u) \in Kinds
  BY PromptKind
<1> DEFINE p == PromptOf(u)
<1> HIDE DEF p
<1>2. p.read = "line" => 0 < LineMax
  BY SizesAssumption
<1>3. p.read # "line" => 0 < p.max - 1
  BY <1>1, KindFacts DEF p
<1> QED BY <1>2, <1>3 DEF p, UiOK

\* An operation begins at its first prompt.
LEMMA AtFresh ==
  ASSUME NEW op \in Ops, NEW menu \in Menus, NEW outcome \in Outcomes,
         NEW u, u = At(op, menu, outcome)
  PROVE  /\ u \in Uis /\ u.step \in DOMAIN Script(u.op) /\ u.n = 0
         /\ u.op = op /\ u.menu = menu /\ u.outcome = outcome
<1>1. 1 \in DOMAIN Script(op)
  BY GoodScripts DEF GoodScript
<1> QED BY <1>1 DEF At, Uis

\* The menus and the pause are operations too.
LEMMA MenuOps == Menus \subseteq Ops /\ "pause" \in Ops /\ {"main", "user", "admin"} = Menus
BY DEF Ops, Menus

\* Where a prompt that has read m characters leads to.
Fresh(u) == u \in Uis /\ u.step \in DOMAIN Script(u.op) /\ u.n = 0

\* A refusal ends the operation undone, and the screen waits for a key.
LEMMA RefusedFresh ==
  ASSUME UiOK(ui), Refused
  PROVE  Fresh(ui') /\ ui'.outcome # "done" /\ (ui.op # "exit" => ui'.op = "pause")
<1>1. ui.menu \in Menus
  BY DEF UiOK, Uis
<1> QED BY <1>1, MenuOps, AtFresh DEF Refused, Fresh, Outcomes

\* An answer that is taken leads to the next prompt of the same operation.
LEMMA GoesOnFresh ==
  ASSUME UiOK(ui), NEW m, GoesOn(m)
  PROVE  Fresh(ui') /\ (ui'.outcome = "done" => ui.outcome = "done")
         /\ ui'.op = ui.op /\ ui.step < Len(Script(ui.op))
<1> DEFINE o == IF m = 0 /\ Prompt.test = "later" THEN "refused" ELSE ui.outcome
<1>1. ui \in Uis /\ o \in Outcomes /\ (o = "done" => ui.outcome = "done")
  BY DEF UiOK, Uis, Outcomes
<1> DEFINE k == ui.step + 1
<1>2. ui' = [ui EXCEPT !.step = k, !.n = 0, !.outcome = o]
  BY DEF GoesOn
<1> HIDE DEF o
<1>3. ui.step \in Nat /\ ui.op \in Ops /\ ui.step < Len(Script(ui.op))
  BY <1>1 DEF GoesOn, Uis
<1>4. k \in DOMAIN Script(ui.op) /\ k \in Nat
  BY <1>3, GoodScripts DEF GoodScript
<1> HIDE DEF k
<1>5. ui' \in Uis /\ ui'.step = k /\ ui'.n = 0 /\ ui'.op = ui.op /\ ui'.outcome = o
  BY <1>1, <1>2, <1>3, <1>4 DEF Uis
<1> QED BY <1>1, <1>3, <1>4, <1>5 DEF Fresh

\* Only an answer to the last prompt that passes its test ends an operation as done.
LEMMA DoneFresh ==
  ASSUME UiOK(ui), NEW m, Done(m), ui.op \notin Menus \cup {"pause"}
  PROVE  /\ Fresh(ui') /\ ui.step = Len(Script(ui.op)) /\ Passes(m)
         /\ ui.op \notin {"login", "exit"} => ui'.op = "pause"
         /\ ui.op = "login" => ui'.outcome = "open"
<1>1. ui.menu \in Menus
  BY DEF UiOK, Uis
<1>2. \/ ui.op = "login" /\ \E menu \in {"user", "admin"} : ui' = At(menu, menu, "open")
      \/ ui.op = "exit" /\ ui' = At("main", "main", "done")
      \/ ui.op \notin {"login", "exit"} /\ ui' = At("pause", ui.menu, "done")
  BY DEF Done
<1>3. \A menu \in {"user", "admin"} : menu \in Menus /\ menu \in Ops
  BY MenuOps
<1>4. {"open", "done"} \subseteq Outcomes
  BY DEF Outcomes
<1>5. Fresh(ui') /\ (ui.op \notin {"login", "exit"} => ui'.op = "pause")
      /\ (ui.op = "login" => ui'.outcome = "open")
  BY <1>1, <1>2, <1>3, <1>4, MenuOps, AtFresh DEF Fresh
<1> QED BY <1>5 DEF Done

\* A choice in a menu leads to the first prompt of what was chosen.
LEMMA AfterMenuFresh ==
  ASSUME UiOK(ui), NEW m, AfterMenu(m), InMenu
  PROVE  Fresh(ui') /\ (m = 0 => ui'.outcome = "open")
<1>1. ui.op \in Menus /\ ui.op \in Ops /\ Offers(ui.op) \subseteq Ops
  BY MenuOps, OfferedOps DEF InMenu
<1>2. m = 0 => ~Chosen(m)
  BY DEF Chosen
<1>3. \/ ui' = At(ui.op, ui.op, "open")
      \/ ui' = At("main", "main", "open")
      \/ m # 0 /\ \E op \in Offers(ui.op) : ui' = At(op, ui.op, "open")
      \/ m # 0 /\ ui' = At("pause", ui.op, "done")
      \/ m # 0 /\ ui' = At("pause", "main", "done")
  BY <1>2 DEF AfterMenu
<1>4. {"open", "done"} \subseteq Outcomes
  BY DEF Outcomes
<1>5. \E op \in Ops, menu \in Menus, outcome \in Outcomes :
        ui' = At(op, menu, outcome) /\ (m = 0 => outcome = "open")
  BY <1>1, <1>3, <1>4, MenuOps
<1> QED BY <1>5, AtFresh DEF Fresh

\* A pause leads back to a menu.
LEMMA AfterPauseFresh ==
  ASSUME UiOK(ui), AfterPause
  PROVE  Fresh(ui') /\ ui'.outcome = "open"
<1>1. ui.menu \in Menus /\ ui.menu \in Ops
  BY MenuOps DEF UiOK, Uis
<1>2. "open" \in Outcomes
  BY DEF Outcomes
<1>3. ui' = At(ui.menu, ui.menu, "open") \/ ui' = At("main", "main", "open")
  BY DEF AfterPause
<1> QED BY <1>1, <1>2, <1>3, MenuOps, AtFresh DEF Fresh

\* The answer of any prompt leads to a prompt with nothing typed.
LEMMA AfterPromptFresh ==
  ASSUME UiOK(ui), NEW m, AfterPrompt(m)
  PROVE  Fresh(ui')
<1>1. CASE InMenu
  BY <1>1, AfterMenuFresh DEF AfterPrompt
<1>2. CASE ~InMenu /\ ui.op = "pause"
  BY <1>2, AfterPauseFresh DEF AfterPrompt
<1>3. CASE ~InMenu /\ ui.op # "pause"
  BY <1>3, RefusedFresh, GoesOnFresh, DoneFresh DEF AfterPrompt, InMenu
<1> QED BY <1>1, <1>2, <1>3

\* After the administrator's PIN comes the pause: it is the last thing a request asks for.
LEMMA AdminPinIsLast ==
  ASSUME UiOK(ui), NEW m, AfterPrompt(m), Prompt = AdminPin
  PROVE  ui'.op = "pause"
<1>1. ui.op \in Ops /\ ui.step \in DOMAIN Script(ui.op) /\ Script(ui.op)[ui.step] = AdminPin
  BY DEF UiOK, Uis, Prompt
<1>2. ui.step = Len(Script(ui.op)) /\ ui.op \in Requests \ {"login", "exit"}
  BY <1>1, GoodScripts DEF GoodScript
<1>3. ~InMenu /\ ui.op # "pause"
  BY <1>2 DEF InMenu, Menus, Requests
<1>4. Len(Script(ui.op)) \in Nat
  BY <1>1, GoodScripts DEF GoodScript
<1>5. ~GoesOn(m)
  BY <1>2, <1>4 DEF GoesOn
<1>6. Refused \/ Done(m)
  BY <1>3, <1>5 DEF AfterPrompt
<1> QED BY <1>2, <1>3, <1>6, RefusedFresh, DoneFresh DEF InMenu

\* An empty answer carries out nothing that asks for a confirmation.
LEMMA EmptyConfirmsNothing ==
  ASSUME UiOK(ui), AfterPrompt(0), ui.outcome = "open", ui'.outcome = "done"
  PROVE  ui.op \in {"withdraw", "search", "audit"}
<1>1. ~InMenu /\ ui.op # "pause"
  BY AfterMenuFresh, AfterPauseFresh DEF AfterPrompt
<1>2. Done(0)
  BY <1>1, RefusedFresh, GoesOnFresh DEF AfterPrompt
<1>3. ui.op \in Ops /\ ui.step = Len(Script(ui.op)) /\ Prompt.test # "now" /\ Prompt \in Kinds
  BY <1>2, PromptKind DEF UiOK, Uis, Done, Passes, Prompt, PromptOf
<1>4. Prompt \in {AnyLine, LaterPin, Pause}
  BY <1>3, KindFacts DEF Kinds
<1> QED BY <1>1, <1>3, <1>4, GoodScripts DEF GoodScript, Prompt

-----------------------------------------------------------------------------
(* The terminal's echo *)

KeySet == {"char", "erase", "enter"}
KeyStates == [answer : Seq(KeySet), typed : Nat, read : Nat, stale : BOOLEAN, pin : BOOLEAN]
Ttys == [echo : BOOLEAN, saved : BOOLEAN, eof : BOOLEAN]

\* No PIN is asked for with the echo on, and after one the echo is as read_pin_hidden found it.
EchoInv(u, t) ==
  /\ PromptOf(u).read = "pin" => ~t.echo
  /\ PromptOf(u).read # "pin" => t.echo \/ ~t.saved

BaseInv ==
  /\ UiOK(ui)
  /\ keys \in KeyStates /\ keys.read <= keys.typed /\ keys.typed <= Len(keys.answer)
  /\ tty \in Ttys
  /\ running \in BOOLEAN /\ legal \in BOOLEAN /\ exposed \in BOOLEAN
  /\ EchoInv(ui, tty)

\* The end of a prompt puts the terminal back, and the next prompt is a fresh one.
LEMMA EndsKeeps ==
  ASSUME BaseInv, NEW m, NEW enter, Ends(m, enter)
  PROVE  /\ Fresh(ui') /\ UiOK(ui') /\ tty' \in Ttys /\ running' \in BOOLEAN /\ EchoInv(ui', tty')
         /\ tty'.eof = tty.eof
<1>1. Fresh(ui') /\ UiOK(ui')
  BY AfterPromptFresh, FreshOK DEF BaseInv, Ends, Fresh
<1> DEFINE echo == IF Prompt.read = "pin" THEN Restored(enter) ELSE tty.echo
           next == PromptOf(ui')
           saved == IF next.read = "pin" THEN echo ELSE tty.saved
           shown == Echoes(echo, next)
<1>2. tty \in Ttys /\ EchoInv(ui, tty) /\ Prompt = PromptOf(ui)
  BY DEF BaseInv, Prompt, PromptOf
<1>3. tty' = [tty EXCEPT !.saved = saved, !.echo = shown]
  BY DEF Ends, PromptOf
<1>4. echo \in BOOLEAN /\ (Prompt.read = "pin" => echo = tty.saved)
      /\ (Prompt.read # "pin" => echo = tty.echo)
  BY <1>2 DEF Ttys, Restored
<1>5. tty.saved \in BOOLEAN
  BY <1>2 DEF Ttys
<1> HIDE DEF echo
<1>6. shown \in BOOLEAN /\ (shown <=> echo /\ next.read # "pin")
  BY <1>4 DEF Echoes
<1>7. saved \in BOOLEAN /\ (next.read = "pin" => saved = echo) /\ (next.read # "pin" => saved = tty.saved)
  BY <1>4, <1>5
<1> HIDE DEF saved, shown
<1>8. tty' \in Ttys /\ tty'.saved = saved /\ tty'.echo = shown /\ tty'.eof = tty.eof
  BY <1>2, <1>3, <1>6, <1>7 DEF Ttys
<1>9. EchoInv(ui', tty')
  <2>1. next.read = "pin" => ~tty'.echo
    BY <1>6, <1>8
  <2>2. CASE next.read # "pin" /\ Prompt.read = "pin"
    BY <1>4, <1>6, <1>7, <1>8, <2>2 DEF EchoInv
  <2>3. CASE next.read # "pin" /\ Prompt.read # "pin"
    BY <1>2, <1>4, <1>6, <1>7, <1>8, <2>3 DEF EchoInv
  <2> QED BY <2>1, <2>2, <2>3 DEF EchoInv
<1>10. running' \in BOOLEAN
  BY DEF Ends
<1> QED BY <1>1, <1>8, <1>9, <1>10

\* A key that does not end the prompt leaves room for another.
LEMMA TakenFits ==
  ASSUME UiOK(ui), NEW c \in KeySet, NEW m, m = Taken(c)
  PROVE  /\ m \in Nat
         /\ ~EndsAt(c, m) => /\ c # "enter" /\ Prompt.read # "key"
                             /\ Prompt.read = "line" => m < LineMax
                             /\ Prompt.read # "line" => m < Prompt.max - 1
<1>1. /\ ui.n \in Nat /\ Prompt \in Kinds
      /\ Prompt.read = "line" => ui.n < LineMax
      /\ Prompt.read # "line" => ui.n < Prompt.max - 1
  BY PromptKind DEF UiOK, Uis, Prompt, PromptOf
<1> DEFINE p == Prompt
           n == ui.n
<1>2. /\ p.read \in {"line", "pin", "key"} /\ p.max \in Nat /\ p.max > 1
      /\ p.read = "key" => p.max = 2
  BY <1>1, KindFacts
<1>3. CASE c = "enter" /\ p.read # "key"
  BY <1>1, <1>3 DEF Taken, EndsAt
<1>4. CASE p.read = "key"
  <2>1. m = 1
    BY <1>4 DEF Taken
  <2> QED BY <1>2, <1>4, <2>1 DEF EndsAt
<1>5. CASE c # "enter" /\ p.read = "line"
  <2>1. m = IF n < LineMax - 1 THEN n + 1 ELSE n
    BY <1>5 DEF Taken
  <2> QED BY <1>1, <1>5, <2>1, SizesAssumption
<1>6. CASE c # "enter" /\ p.read = "pin"
  <2>1. m = PinAfter(n, c)
    BY <1>6 DEF Taken
  <2>2. m \in Nat /\ m <= n + 1
    BY <1>1, <2>1 DEF PinAfter
  <2>3. ~EndsAt(c, m) => m # p.max - 1
    BY <1>6 DEF EndsAt
  <2> QED BY <1>1, <1>2, <1>6, <2>2, <2>3
<1> QED BY <1>2, <1>3, <1>4, <1>5, <1>6

-----------------------------------------------------------------------------
(* Every step keeps the types and the echo *)

\* An answer ends with ENTER; before it are characters, and erasures at a PIN prompt.
LEMMA AnswerKeys ==
  ASSUME NEW p, NEW s \in Answers(p)
  PROVE  /\ s \in Seq(KeySet) /\ Len(s) \in Nat /\ Len(s) > 0 /\ s[Len(s)] = "enter"
         /\ \A k \in 1 .. Len(s) - 1 : s[k] # "enter"
         /\ p.read # "pin" => \A k \in 1 .. Len(s) - 1 : s[k] = "char"
<1> DEFINE K == IF p.read = "pin" THEN {"char", "erase"} ELSE {"char"}
<1>1. PICK t \in Strings(K) : s = Append(t, "enter")
  BY DEF Answers
<1>2. PICK m \in 0 .. Longest : t \in [1 .. m -> K]
  BY <1>1 DEF Strings
<1>3. t \in Seq(K) /\ Len(t) = m /\ m \in Nat
  BY <1>2, SizesAssumption
<1>4. K \subseteq KeySet /\ "enter" \notin K /\ (p.read # "pin" => K = {"char"}) /\ "enter" \in KeySet
  BY DEF KeySet
<1> HIDE DEF K
<1>5. /\ s \in Seq(KeySet) /\ Len(s) = m + 1 /\ s[m + 1] = "enter"
      /\ \A k \in 1 .. m : s[k] = t[k] /\ t[k] \in K
  BY <1>1, <1>3, <1>4
<1> QED BY <1>3, <1>4, <1>5

\* Before any key there is nothing to read.
LEMMA NoKeysOK == NoKeys \in KeyStates /\ NoKeys.read = 0 /\ NoKeys.typed = 0 /\ NoKeys.answer = <<>>
                  /\ Len(NoKeys.answer) = 0
                  /\ NoKeys.read <= NoKeys.typed /\ NoKeys.typed <= Len(NoKeys.answer)
BY DEF NoKeys, KeyStates

\* The program starts in the main menu.
LEMMA StartMenuOK ==
  ASSUME NEW u, u = At("main", "main", "open")
  PROVE  UiOK(u) /\ PromptOf(u) = Line /\ PromptOf(u).read = "line" /\ u.n = 0
<1>1. u \in Uis /\ u.step \in DOMAIN Script(u.op) /\ u.n = 0 /\ u.op = "main" /\ u.step = 1
  BY MenuOps, AtFresh DEF Outcomes, At
<1>2. Script("main") = <<Line>>
  BY Scripts, MenuOps
<1>3. PromptOf(u) = Line
  BY <1>1, <1>2 DEF PromptOf
<1> QED BY <1>1, <1>3, FreshOK DEF Line

\* A new answer at the keyboard keeps the base invariant.
LEMMA AnswerBase ==
  ASSUME BaseInv, Answer
  PROVE  BaseInv'
<1>1. PICK s \in Answers(Prompt) :
        /\ keys' = [answer |-> s, typed |-> 0, read |-> 0, stale |-> FALSE, pin |-> Prompt.read = "pin"]
        /\ legal' = (legal /\ Fits(s, Prompt))
  BY DEF Answer
<1>2. s \in Seq(KeySet) /\ Len(s) \in Nat
  BY AnswerKeys
<1>3. keys' \in KeyStates /\ keys'.read <= keys'.typed /\ keys'.typed <= Len(keys'.answer)
  BY <1>1, <1>2 DEF KeyStates
<1>4. legal' \in BOOLEAN
  BY <1>1 DEF BaseInv
<1> QED BY <1>3, <1>4 DEF BaseInv, Answer

\* A key that is typed keeps it.
LEMMA TypeBase ==
  ASSUME BaseInv, Type
  PROVE  BaseInv'
<1>1. keys \in KeyStates /\ keys.typed < Len(keys.answer) /\ keys.read <= keys.typed
      /\ keys' = [keys EXCEPT !.typed = @ + 1]
  BY DEF BaseInv, Type
<1> DEFINE k == keys.typed + 1
<1>2. k \in Nat /\ Len(keys.answer) \in Nat /\ k <= Len(keys.answer) /\ keys.read <= k
  BY <1>1 DEF KeyStates
<1>3. keys' = [keys EXCEPT !.typed = k]
  BY <1>1
<1> HIDE DEF k
<1>4. keys' \in KeyStates /\ keys'.read <= keys'.typed /\ keys'.typed <= Len(keys'.answer)
  BY <1>1, <1>2, <1>3 DEF KeyStates
<1>5. exposed' \in BOOLEAN
  BY DEF BaseInv, Type
<1> QED BY <1>4, <1>5 DEF BaseInv, Type

\* The end of the input keeps it: the keys not yet typed never are.
LEMMA HangUpBase ==
  ASSUME BaseInv, HangUp
  PROVE  /\ BaseInv'
         /\ keys'.answer = SubSeq(keys.answer, 1, keys.typed) /\ Len(keys'.answer) = keys.typed
         /\ keys'.typed = keys.typed /\ keys'.read = keys.read /\ keys'.stale = keys.stale
         /\ keys'.pin = keys.pin
<1> DEFINE s == SubSeq(keys.answer, 1, keys.typed)
<1>1. keys \in KeyStates /\ keys.typed \in Nat /\ keys.typed <= Len(keys.answer)
      /\ keys.answer \in Seq(KeySet) /\ keys.read <= keys.typed
  BY DEF BaseInv, KeyStates
<1>2. s \in Seq(KeySet) /\ Len(s) = keys.typed
  BY <1>1
<1>3. keys' = [keys EXCEPT !.answer = s]
  BY DEF HangUp
<1> HIDE DEF s
<1>4. /\ keys' \in KeyStates /\ keys'.answer = s
      /\ keys'.typed = keys.typed /\ keys'.read = keys.read /\ keys'.stale = keys.stale
      /\ keys'.pin = keys.pin
  BY <1>1, <1>2, <1>3 DEF KeyStates
<1>5. tty' \in Ttys /\ tty'.echo = tty.echo /\ tty'.saved = tty.saved
  BY DEF BaseInv, HangUp, Ttys
<1>6. EchoInv(ui', tty')
  BY <1>5 DEF BaseInv, HangUp, EchoInv
<1> QED BY <1>1, <1>2, <1>4, <1>5, <1>6 DEF BaseInv, HangUp, s

\* The next key is one of the answer.
LEMMA NextKeyOK ==
  ASSUME BaseInv, keys.read < keys.typed
  PROVE  /\ NextKey \in KeySet /\ keys.read + 1 \in DOMAIN keys.answer
         /\ keys.read \in Nat /\ keys.typed \in Nat /\ Len(keys.answer) \in Nat
         /\ keys.read + 1 <= keys.typed /\ keys.typed <= Len(keys.answer)
<1>1. keys.answer \in Seq(KeySet) /\ keys.read \in Nat /\ keys.typed \in Nat /\ keys.typed <= Len(keys.answer)
  BY DEF BaseInv, KeyStates
<1> QED BY <1>1 DEF NextKey

\* The reading of a key keeps it: the buffer, the erasures and the end of the prompt.
LEMMA ReadKeyBase ==
  ASSUME BaseInv, ReadKey
  PROVE  BaseInv'
<1> DEFINE m == Taken(NextKey)
           e == EndsAt(NextKey, m)
           k == keys.read + 1
           z == keys.stale \/ e
<1>1. /\ keys.read < keys.typed
      /\ keys' = IF e /\ Len(Pending) = 1 THEN NoKeys ELSE [keys EXCEPT !.read = k, !.stale = z]
      /\ \/ e /\ Ends(m, NextKey = "enter")
         \/ ~e /\ ui' = [ui EXCEPT !.n = m] /\ UNCHANGED <<tty, running>>
      /\ UNCHANGED <<legal, exposed>>
  BY DEF ReadKey
<1>2. NextKey \in KeySet /\ k \in Nat /\ k <= keys.typed /\ keys.typed <= Len(keys.answer)
      /\ keys \in KeyStates /\ z \in BOOLEAN
  BY <1>1, NextKeyOK DEF BaseInv, KeyStates, EndsAt
<1>3. m \in Nat /\ (~e => /\ Prompt.read = "line" => m < LineMax
                          /\ Prompt.read # "line" => m < Prompt.max - 1)
  BY <1>2, TakenFits DEF BaseInv
<1> HIDE DEF m, e, k, z
<1>4. keys' \in KeyStates /\ keys'.read <= keys'.typed /\ keys'.typed <= Len(keys'.answer)
  <2>1. CASE keys' = NoKeys
    BY <2>1, NoKeysOK
  <2>2. CASE keys' = [keys EXCEPT !.read = k, !.stale = z]
    BY <1>2, <2>2 DEF KeyStates
  <2> QED BY <1>1, <2>1, <2>2
<1>5. CASE e /\ Ends(m, NextKey = "enter")
  BY <1>1, <1>4, <1>5, EndsKeeps DEF BaseInv
<1>6. CASE ~e /\ ui' = [ui EXCEPT !.n = m] /\ UNCHANGED <<tty, running>>
  <2>1. ui \in Uis /\ ui.step \in DOMAIN Script(ui.op) /\ EchoInv(ui, tty)
    BY DEF BaseInv, UiOK
  <2>2. ui' \in Uis /\ ui'.op = ui.op /\ ui'.step = ui.step /\ ui'.n = m
    BY <1>3, <1>6, <2>1 DEF Uis
  <2>3. PromptOf(ui') = Prompt /\ PromptOf(ui') = PromptOf(ui)
    BY <2>2 DEF PromptOf, Prompt
  <2>4. UiOK(ui')
    BY <1>3, <1>6, <2>1, <2>2, <2>3 DEF UiOK
  <2>5. EchoInv(ui', tty')
    BY <1>6, <2>1, <2>3 DEF EchoInv
  <2> QED BY <1>1, <1>4, <1>6, <2>4, <2>5 DEF BaseInv
<1> QED BY <1>1, <1>5, <1>6

\* The end of the input, an interrupt and a start keep it.
LEMMA OtherBase ==
  ASSUME BaseInv, ReadEof \/ Interrupt \/ Start
  PROVE  BaseInv'
<1>1. keys' = NoKeys /\ keys' \in KeyStates /\ keys'.read <= keys'.typed /\ keys'.typed <= Len(keys'.answer)
  <2>1. keys' = NoKeys
    BY DEF ReadEof, Interrupt, Start
  <2> QED BY <2>1, NoKeysOK
<1>2. CASE ReadEof
  BY <1>1, <1>2, EndsKeeps DEF BaseInv, ReadEof
<1>3. CASE Interrupt
  BY <1>1, <1>3 DEF BaseInv, Interrupt
<1>4. CASE Start
  <2>1. PICK echo \in {tty.echo, TRUE} : tty' = [echo |-> echo, saved |-> echo, eof |-> FALSE]
    BY <1>4 DEF Start
  <2>2. echo \in BOOLEAN
    BY DEF BaseInv, Ttys
  <2>3. tty' \in Ttys /\ tty'.echo = echo /\ tty'.saved = echo
    BY <2>1, <2>2 DEF Ttys
  <2>4. UiOK(ui') /\ PromptOf(ui').read = "line"
    BY <1>4, StartMenuOK DEF Start
  <2>5. EchoInv(ui', tty')
    BY <2>2, <2>3, <2>4 DEF EchoInv
  <2> QED BY <1>1, <1>4, <2>3, <2>4, <2>5 DEF BaseInv, Start
<1> QED BY <1>2, <1>3, <1>4

\* Every step keeps it.
LEMMA NextBase ==
  ASSUME BaseInv, [Next]_vars
  PROVE  BaseInv'
<1>1. CASE UNCHANGED vars
  BY <1>1 DEF vars, BaseInv
<1> QED BY <1>1, AnswerBase, TypeBase, HangUpBase, ReadKeyBase, OtherBase DEF Next

\* It is true at first.
LEMMA InitBase ==
  ASSUME Init
  PROVE  BaseInv
<1>1. UiOK(ui) /\ PromptOf(ui).read = "line"
  BY StartMenuOK DEF Init
<1>2. tty \in Ttys /\ tty.echo
  BY DEF Init, Ttys
<1>3. EchoInv(ui, tty)
  BY <1>1, <1>2 DEF EchoInv
<1>4. keys \in KeyStates /\ keys.read <= keys.typed /\ keys.typed <= Len(keys.answer)
  BY NoKeysOK DEF Init
<1> QED BY <1>1, <1>2, <1>3, <1>4 DEF Init, BaseInv

\* It implies the types, and that the echo comes back.
LEMMA BaseTypes ==
  ASSUME BaseInv
  PROVE  TypeOK /\ EchoComesBack
<1>1. Prompt = PromptOf(ui) /\ Prompt \in Kinds
  BY PromptKind DEF Prompt, PromptOf, BaseInv, UiOK
<1>2. /\ ui.op \in Ops /\ ui.menu \in Menus /\ ui.outcome \in Outcomes /\ ui.n \in Nat
      /\ ui.step \in DOMAIN Script(ui.op)
  BY DEF BaseInv, UiOK, Uis
<1>3. ui.n \in 0 .. Prompt.max - 1
  BY <1>1, <1>2, KindFacts, SizesAssumption DEF BaseInv, UiOK
<1>4. keys.answer \in Seq({"char", "erase", "enter"}) /\ keys.read \in Nat
      /\ keys.read <= keys.typed /\ keys.typed <= Len(keys.answer)
      /\ keys.stale \in BOOLEAN /\ keys.pin \in BOOLEAN
  BY DEF BaseInv, KeyStates, KeySet
<1>5. tty.echo \in BOOLEAN /\ tty.saved \in BOOLEAN /\ tty.eof \in BOOLEAN
  BY DEF BaseInv, Ttys
<1>6. TypeOK
  <2>1. {keys.stale, keys.pin, tty.echo, tty.saved, tty.eof, running, legal, exposed} \subseteq BOOLEAN
    BY <1>4, <1>5 DEF BaseInv
  <2>2. 0 <= keys.read
    BY <1>4
  <2> QED BY <1>2, <1>3, <1>4, <2>1, <2>2 DEF TypeOK, Ops, Outcomes
<1>7. EchoComesBack
  BY <1>1, <1>5 DEF EchoComesBack, BaseInv, EchoInv
<1> QED BY <1>6, <1>7

\* No buffer holds more than it has room for, and no answer is read past its end.
THEOREM BuffersHold == Spec => []TypeOK
<1>1. Init => BaseInv
  BY InitBase
<1>2. BaseInv /\ [Next]_vars => BaseInv'
  BY NextBase
<1>3. BaseInv => TypeOK
  BY BaseTypes
<1> QED BY <1>1, <1>2, <1>3, PTL DEF Spec

\* The echo comes back after every PIN, in whatever order the prompts come and however they end.
THEOREM EchoIsRestored == Spec => []EchoComesBack
<1>1. Init => BaseInv
  BY InitBase
<1>2. BaseInv /\ [Next]_vars => BaseInv'
  BY NextBase
<1>3. BaseInv => EchoComesBack
  BY BaseTypes
<1> QED BY <1>1, <1>2, <1>3, PTL DEF Spec

-----------------------------------------------------------------------------
(* The end of the input confirms nothing *)

\* What ends a prompt: ENTER, a pause's key, or the character that fills a PIN's buffer.  A line
\* that fills its buffer does not.
LEMMA EndsAtMeans ==
  ASSUME UiOK(ui), NEW c \in KeySet, NEW m, m = Taken(c), EndsAt(c, m)
  PROVE  \/ Prompt.read = "key"
         \/ Prompt.read # "key" /\ c = "enter" /\ m = ui.n
         \/ /\ Prompt.read = "pin" /\ c = "char" /\ m = PinAfter(ui.n, c)
            /\ m = Prompt.max - 1 /\ m = ui.n + 1
<1>1. /\ ui.n \in Nat /\ Prompt \in Kinds
      /\ Prompt.read # "line" => ui.n < Prompt.max - 1
  BY PromptKind DEF UiOK, Uis, Prompt, PromptOf
<1>2. /\ Prompt.read \in {"line", "pin", "key"} /\ Prompt.max \in Nat
      /\ Prompt.read = "line" => Prompt.max = LineMax
  BY <1>1, KindFacts
<1>3. CASE c = "enter" /\ Prompt.read # "key"
  BY <1>3 DEF Taken
<1>4. CASE c # "enter" /\ Prompt.read = "line"
  BY <1>2, <1>4 DEF EndsAt, Drops
<1>5. CASE c # "enter" /\ Prompt.read = "pin"
  <2>1. m = PinAfter(ui.n, c)
    BY <1>5 DEF Taken
  <2>2. m = Prompt.max - 1
    BY <1>5 DEF EndsAt
  <2>3. c # "erase"
    BY <1>1, <1>2, <1>5, <2>1, <2>2 DEF PinAfter
  <2>4. m = ui.n + 1 /\ c = "char"
    BY <1>5, <2>1, <2>3 DEF PinAfter, KeySet
  <2> QED BY <1>5, <2>1, <2>2, <2>4
<1> QED BY <1>2, <1>3, <1>4, <1>5

\* At the end of the input a request is carried out only if it shows something, or is a withdrawal
\* whose PIN was given.
THEOREM EofIsNoAnswer == Spec => EofConfirmsNothing
<1>1. Init => BaseInv
  BY InitBase
<1>2. BaseInv /\ [Next]_vars => BaseInv'
  BY NextBase
<1>3. BaseInv /\ [Next]_vars =>
        [tty.eof /\ ui.n = 0 /\ ui.outcome = "open" /\ ui'.outcome = "done" =>
           ui.op \in {"withdraw", "search", "audit"}]_vars
  <2> SUFFICES ASSUME BaseInv, [Next]_vars, ui.n = 0, ui.outcome = "open", ui'.outcome = "done"
               PROVE  ui.op \in {"withdraw", "search", "audit"}
    OBVIOUS
  <2>0. UiOK(ui)
    BY DEF BaseInv
  <2>1. CASE ui' = ui
    BY <2>1
  <2>2. CASE ReadEof
    BY <2>0, <2>2, EmptyConfirmsNothing DEF ReadEof, Ends
  <2>3. CASE Start
    <3>1. ui'.outcome = "open"
      BY <2>3 DEF Start, At
    <3> QED BY <3>1
  <2>4. CASE ReadKey
    <3> DEFINE m == Taken(NextKey)
               e == EndsAt(NextKey, m)
    <3>1. NextKey \in KeySet
      BY <2>4, NextKeyOK DEF ReadKey
    <3>2. \/ e /\ Ends(m, NextKey = "enter")
          \/ ~e /\ ui' = [ui EXCEPT !.n = m]
      BY <2>4 DEF ReadKey
    <3> HIDE DEF m
    <3>3. CASE ~e /\ ui' = [ui EXCEPT !.n = m]
      BY <2>0, <3>3 DEF UiOK, Uis
    <3>4. CASE e /\ Ends(m, NextKey = "enter")
      <4>1. AfterPrompt(m)
        BY <3>4 DEF Ends
      <4>2. CASE Prompt.read = "key"
        <5>1. Prompt = Pause /\ ui.op \in Ops /\ ui.step \in DOMAIN Script(ui.op)
          BY <2>0, <4>2, PromptKind, KindFacts DEF UiOK, Uis, Prompt, PromptOf
        <5>2. GoodScript(Script(ui.op), ui.op)
          BY <5>1, GoodScripts
        <5>3. CASE InMenu
          <6>1. Prompt = Line
            BY <2>0, <5>1, <5>3, Scripts DEF InMenu, Prompt
          <6> QED BY <4>2, <6>1 DEF Line
        <5>4. CASE ~InMenu /\ ui.op = "pause"
          BY <2>0, <4>1, <5>4, AfterPauseFresh DEF AfterPrompt
        <5>5. CASE ~InMenu /\ ui.op # "pause"
          <6>1. Refused \/ GoesOn(m) \/ Done(m)
            BY <4>1, <5>5 DEF AfterPrompt
          <6>2. Done(m)
            BY <2>0, <6>1, RefusedFresh, GoesOnFresh
          <6>3. ui.step = Len(Script(ui.op))
            BY <6>2 DEF Done
          <6> QED BY <5>1, <5>2, <5>5, <6>3 DEF GoodScript, Prompt
        <5> QED BY <5>3, <5>4, <5>5
      <4>3. CASE Prompt.read # "key"
        <5>1. Prompt \in Kinds
          BY <2>0, PromptKind DEF UiOK, Prompt, PromptOf
        <5>2. Prompt.read = "pin" => Prompt.max > 2 /\ Prompt.max \in Nat
          BY <5>1, KindFacts
        <5>3. m = 0
          <6>1. \/ m = ui.n
                \/ Prompt.read = "pin" /\ m = Prompt.max - 1 /\ m = ui.n + 1
            BY <2>0, <3>1, <3>4, <4>3, EndsAtMeans DEF m
          <6> QED BY <5>2, <6>1
        <5> QED BY <2>0, <4>1, <5>3, EmptyConfirmsNothing
      <4> QED BY <4>2, <4>3
    <3> QED BY <3>2, <3>3, <3>4
  <2>5. ui' = ui \/ ReadEof \/ Start \/ ReadKey
    BY DEF Next, vars, Answer, Type, HangUp, Interrupt
  <2> QED BY <2>1, <2>2, <2>3, <2>4, <2>5
<1> QED BY <1>1, <1>2, <1>3, PTL DEF Spec, EofConfirmsNothing

-----------------------------------------------------------------------------
(* How much of a PIN the buffer holds *)

\* n characters are left of the first k keys: the balance has come down to b and risen by n.
Track(s, k, n) ==
  \E b \in Int : /\ \E j \in 0 .. k : b = Balance(s, j)
                 /\ \A j \in 0 .. k : b <= Balance(s, j)
                 /\ n = Balance(s, k) - b

\* Which of the first k keys are the given one.
KeysOf(s, k, key) == {j \in 1 .. k : s[j] = key}

\* One more key of the answer is in the set of the key that it is.
LEMMA KeysStep ==
  ASSUME NEW s, NEW k \in Nat, NEW key
  PROVE  /\ KeysOf(s, k, key) \in SUBSET (1 .. k)
         /\ s[k + 1] = key => KeysOf(s, k + 1, key) = KeysOf(s, k, key) \cup {k + 1}
         /\ s[k + 1] # key => KeysOf(s, k + 1, key) = KeysOf(s, k, key)
<1>1. \A j : j \in 1 .. k + 1 <=> j \in 1 .. k \/ j = k + 1
  OBVIOUS
<1> QED BY <1>1 DEF KeysOf

\* One more key counts once.
LEMMA CountStep ==
  ASSUME NEW s, NEW k \in Nat, NEW key
  PROVE  /\ Cardinality(KeysOf(s, k, key)) \in Nat
         /\ s[k + 1] = key => Cardinality(KeysOf(s, k + 1, key)) = Cardinality(KeysOf(s, k, key)) + 1
         /\ s[k + 1] # key => Cardinality(KeysOf(s, k + 1, key)) = Cardinality(KeysOf(s, k, key))
<1> DEFINE A == KeysOf(s, k, key)
<1>1. IsFiniteSet(1 .. k) /\ A \in SUBSET (1 .. k)
  <2>1. IsFiniteSet(1 .. k)
    BY FS_Interval
  <2>2. A \in SUBSET (1 .. k)
    BY KeysStep
  <2> QED BY <2>1, <2>2
<1>2. k + 1 \notin A
  BY <1>1
<1> HIDE DEF A
<1>3. IsFiniteSet(A)
  BY <1>1, FS_Subset
<1>4. Cardinality(A) \in Nat
  BY <1>3, FS_CardinalityType
<1>5. Cardinality(A \cup {k + 1}) = Cardinality(A) + 1
  BY <1>2, <1>3, FS_AddElement
<1> QED BY <1>4, <1>5, KeysStep DEF A

\* The characters that the erasures leave: one more for a character, one less for an erasure.
LEMMA BalanceStep ==
  ASSUME NEW s, NEW k \in Nat
  PROVE  /\ Balance(s, k) \in Int
         /\ s[k + 1] = "char" => Balance(s, k + 1) = Balance(s, k) + 1
         /\ s[k + 1] = "erase" => Balance(s, k + 1) = Balance(s, k) - 1
<1>1. /\ Characters(s, k) = Cardinality(KeysOf(s, k, "char"))
      /\ Characters(s, k + 1) = Cardinality(KeysOf(s, k + 1, "char"))
      /\ Erasures(s, k) = Cardinality(KeysOf(s, k, "erase"))
      /\ Erasures(s, k + 1) = Cardinality(KeysOf(s, k + 1, "erase"))
  BY DEF Characters, Erasures, KeysOf
<1>2. /\ Characters(s, k) \in Nat
      /\ s[k + 1] = "char" => Characters(s, k + 1) = Characters(s, k) + 1
      /\ s[k + 1] = "erase" => Characters(s, k + 1) = Characters(s, k)
  BY <1>1, CountStep
<1>3. /\ Erasures(s, k) \in Nat
      /\ s[k + 1] = "char" => Erasures(s, k + 1) = Erasures(s, k)
      /\ s[k + 1] = "erase" => Erasures(s, k + 1) = Erasures(s, k) + 1
  BY <1>1, CountStep
<1>4. Balance(s, k) = Characters(s, k) - Erasures(s, k)
      /\ Balance(s, k + 1) = Characters(s, k + 1) - Erasures(s, k + 1)
  BY DEF Balance
<1> QED BY <1>2, <1>3, <1>4

\* Before any key the buffer is empty.
LEMMA TrackStart ==
  ASSUME NEW s
  PROVE  Track(s, 0, 0)
<1>1. {j \in 1 .. 0 : s[j] = "char"} = {} /\ {j \in 1 .. 0 : s[j] = "erase"} = {}
  OBVIOUS
<1>2. Balance(s, 0) = 0
  BY <1>1, FS_EmptySet DEF Balance, Characters, Erasures
<1>3. \A j \in 0 .. 0 : j = 0
  OBVIOUS
<1> QED BY <1>2, <1>3 DEF Track

\* One key more: a character is one more, an erasure one less unless there is none.
LEMMA TrackStep ==
  ASSUME NEW s, NEW k \in Nat, NEW n \in Nat, Track(s, k, n), s[k + 1] \in {"char", "erase"},
         NEW m, m = PinAfter(n, s[k + 1])
  PROVE  Track(s, k + 1, m)
<1> DEFINE B(j) == Balance(s, j)
<1>1. PICK b \in Int : /\ \E j \in 0 .. k : b = B(j)
                       /\ \A j \in 0 .. k : b <= B(j)
                       /\ n = B(k) - b
  BY DEF Track
<1>2. /\ B(k) \in Int
      /\ s[k + 1] = "char" => B(k + 1) = B(k) + 1 /\ m = n + 1
      /\ s[k + 1] = "erase" => B(k + 1) = B(k) - 1 /\ m = IF n > 0 THEN n - 1 ELSE 0
  BY BalanceStep DEF PinAfter
<1>3. \A j : j \in 0 .. k + 1 <=> j \in 0 .. k \/ j = k + 1
  OBVIOUS
<1>4. Track(s, k + 1, m) <=>
        \E a \in Int : /\ \E j \in 0 .. k + 1 : a = B(j)
                       /\ \A j \in 0 .. k + 1 : a <= B(j)
                       /\ m = B(k + 1) - a
  BY DEF Track
<1>5. \A j \in 0 .. k : B(j) \in Int
  BY BalanceStep
<1> HIDE DEF B
<1>6. CASE s[k + 1] = "char" \/ n > 0
  <2>1. b <= B(k + 1) /\ m = B(k + 1) - b
    BY <1>1, <1>2, <1>6
  <2> QED BY <1>1, <1>3, <1>4, <2>1
<1>7. CASE s[k + 1] = "erase" /\ ~(n > 0)
  <2> DEFINE a == B(k + 1)
  <2>1. a \in Int /\ a = b - 1 /\ m = a - a
    BY <1>1, <1>2, <1>7
  <2>2. \A j \in 0 .. k : a <= B(j)
    BY <1>1, <1>5, <2>1
  <2>3. a <= B(k + 1) /\ k + 1 \in 0 .. k + 1
    BY <2>1
  <2> QED BY <1>3, <1>4, <2>1, <2>2, <2>3
<1> QED BY <1>6, <1>7

\* What the invariant carries of the keys read is what a buffer holds of them.
LEMMA TrackHeld ==
  ASSUME NEW s, NEW k \in Nat, NEW n, Track(s, k, n)
  PROVE  Held(s, k) = n
<1> DEFINE T == {Balance(s, j) : j \in 0 .. k}
<1>1. PICK b \in Int : /\ \E j \in 0 .. k : b = Balance(s, j)
                       /\ \A j \in 0 .. k : b <= Balance(s, j)
                       /\ n = Balance(s, k) - b
  BY DEF Track
<1>2. \A x \in T : x \in Int
  BY BalanceStep
<1>3. b \in T /\ \A x \in T : b <= x
  BY <1>1
<1> HIDE DEF T
<1>4. \A c \in T : (\A x \in T : c <= x) => c = b
  BY <1>2, <1>3
<1>5. Min(T) = b
  BY <1>3, <1>4 DEF Min
<1> QED BY <1>1, <1>5 DEF Held, T

\* The keys that follow do not matter.
LEMMA SamePrefix ==
  ASSUME NEW s, NEW t, NEW k \in Nat, \A j \in 1 .. k : t[j] = s[j]
  PROVE  /\ Held(t, k) = Held(s, k)
         /\ \A n : Track(s, k, n) => Track(t, k, n)
<1>1. ASSUME NEW j \in 0 .. k PROVE Balance(t, j) = Balance(s, j)
  <2>1. {i \in 1 .. j : t[i] = "char"} = {i \in 1 .. j : s[i] = "char"}
    OBVIOUS
  <2>2. {i \in 1 .. j : t[i] = "erase"} = {i \in 1 .. j : s[i] = "erase"}
    OBVIOUS
  <2> QED BY <2>1, <2>2 DEF Balance, Characters, Erasures
<1>2. k \in 0 .. k
  OBVIOUS
<1>3. {Balance(t, j) : j \in 0 .. k} = {Balance(s, j) : j \in 0 .. k}
  BY <1>1
<1>4. Held(t, k) = Held(s, k)
  BY <1>1, <1>2, <1>3 DEF Held
<1>5. \A n : Track(s, k, n) => Track(t, k, n)
  BY <1>1, <1>2 DEF Track
<1> QED BY <1>4, <1>5

-----------------------------------------------------------------------------
(* While the answers fit, a prompt reads its own keys alone *)

\* ENTER comes last.
EnterLast(s) == \A k \in 1 .. Len(s) - 1 : s[k] # "enter"

\* A PIN that fits: it is never longer than a PIN, and fills the buffer with its last key at most.
PinRoom(s, max) ==
  /\ \A k \in 1 .. Len(s) : s[k] # "enter" => Held(s, k) <= PinLen
  /\ \A k \in 0 .. Len(s) - 1 : s[k + 1] # "enter" => Held(s, k) < max - 1

\* The keys still to be read: those of the prompt that is asked, of which the buffer holds what has
\* been read; or an ENTER that the administrator's PIN has left for the pause.
KeysFit ==
  keys.read < Len(keys.answer) =>
    /\ EnterLast(keys.answer)
    /\ ~keys.stale =>
         /\ keys.pin = (Prompt.read = "pin")
         /\ Prompt.read = "pin" => PinRoom(keys.answer, Prompt.max) /\ Track(keys.answer, keys.read, ui.n)
         /\ Prompt.read = "key" => keys.answer = <<"enter">>
    /\ keys.stale =>
         /\ ui.op = "pause"
         /\ keys.read + 1 = Len(keys.answer) /\ keys.answer[Len(keys.answer)] = "enter"
    /\ ~tty.eof => keys.answer[Len(keys.answer)] = "enter"

LegalInv ==
  legal =>
    /\ KeysFit
    /\ ~exposed
    /\ running /\ ~tty.eof /\ ~(keys.read < Len(keys.answer)) => ui.n = 0

\* The keys that are still to be read, as a number.
LEMMA PendingLeft ==
  ASSUME BaseInv
  PROVE  /\ Len(Pending) = Len(keys.answer) - keys.read
         /\ Pending = <<>> <=> ~(keys.read < Len(keys.answer))
         /\ keys.read + 1 = Len(keys.answer) => Pending = <<keys.answer[Len(keys.answer)]>>
<1>1. keys.answer \in Seq(KeySet) /\ keys.read \in Nat /\ keys.typed \in Nat
      /\ keys.read <= keys.typed /\ keys.typed <= Len(keys.answer)
  BY DEF BaseInv, KeyStates
<1> DEFINE s == keys.answer
           r == keys.read
           t == SubSeq(s, r + 1, Len(s))
<1>2. r <= Len(s) /\ Len(s) \in Nat
  BY <1>1
<1>3. t \in Seq(KeySet) /\ Len(t) = Len(s) - r /\ \A k \in 1 .. Len(s) - r : t[k] = s[r + k]
  BY <1>1, <1>2
<1>4. Pending = t
  BY DEF Pending
<1> HIDE DEF s, r, t
<1>5. t = <<>> <=> Len(t) = 0
  BY <1>3
<1>6. r + 1 = Len(s) => t = <<s[Len(s)]>>
  BY <1>1, <1>2, <1>3 DEF s, r
<1> QED BY <1>1, <1>2, <1>3, <1>4, <1>5, <1>6 DEF s, r

\* What it means that a PIN fits.
LEMMA FitsRoom ==
  ASSUME NEW p \in Kinds, NEW s \in Answers(p), Fits(s, p), p.read = "pin"
  PROVE  PinRoom(s, p.max)
<1>1. /\ \A k \in 0 .. Len(s) - 1 : Held(s, k) <= PinLen
      /\ \A k \in 0 .. Len(s) - 2 : Held(s, k) < p.max - 1
  BY DEF Fits
<1>2. Len(s) \in Nat /\ Len(s) > 0 /\ s[Len(s)] = "enter"
  BY AnswerKeys
<1>3. ASSUME NEW k \in 1 .. Len(s), s[k] # "enter" PROVE Held(s, k) <= PinLen
  <2>1. k \in 0 .. Len(s) - 1
    BY <1>2, <1>3
  <2> QED BY <1>1, <2>1
<1>4. ASSUME NEW k \in 0 .. Len(s) - 1, s[k + 1] # "enter" PROVE Held(s, k) < p.max - 1
  <2>1. k + 1 # Len(s)
    BY <1>2, <1>4
  <2>2. k \in 0 .. Len(s) - 2
    BY <1>2, <2>1
  <2> QED BY <1>1, <2>2
<1> QED BY <1>3, <1>4 DEF PinRoom

\* The prompt at hand is of a known kind, and read in a known way.
LEMMA PromptRead ==
  ASSUME BaseInv
  PROVE  Prompt \in Kinds /\ Prompt = PromptOf(ui) /\ Prompt.read \in {"line", "pin", "key"}
<1>1. Prompt \in Kinds /\ Prompt = PromptOf(ui)
  BY PromptKind DEF Prompt, PromptOf, BaseInv, UiOK
<1> QED BY <1>1, KindFacts

\* A new answer keeps the count of the characters in the buffer.
LEMMA AnswerLegal ==
  ASSUME BaseInv, LegalInv, Answer
  PROVE  LegalInv'
<1>1. PICK s \in Answers(Prompt) :
        /\ keys' = [answer |-> s, typed |-> 0, read |-> 0, stale |-> FALSE, pin |-> Prompt.read = "pin"]
        /\ legal' = (legal /\ Fits(s, Prompt))
  BY DEF Answer
<1>2. /\ running /\ ~tty.eof /\ Pending = <<>>
      /\ UNCHANGED <<ui, tty, running, exposed>>
  BY DEF Answer
<1>3. /\ keys'.answer = s /\ keys'.read = 0 /\ keys'.stale = FALSE
      /\ keys'.pin = (Prompt.read = "pin")
  BY <1>1
<1> SUFFICES ASSUME legal' PROVE LegalInv'
  BY DEF LegalInv
<1>4. legal /\ Fits(s, Prompt)
  BY <1>1
<1>5. ui.n = 0 /\ ~exposed
  BY <1>2, <1>4, PendingLeft DEF LegalInv
<1>6. s \in Seq(KeySet) /\ Len(s) \in Nat /\ Len(s) > 0 /\ s[Len(s)] = "enter" /\ EnterLast(s)
  BY AnswerKeys DEF EnterLast
<1>7. Prompt' = Prompt
  BY <1>2 DEF Prompt
<1>8. Prompt.read = "pin" => PinRoom(s, Prompt.max) /\ Track(s, 0, 0)
  BY <1>4, PromptRead, FitsRoom, TrackStart
<1>9. Prompt.read = "key" => s = <<"enter">>
  BY <1>4 DEF Fits
<1>10. KeysFit'
  BY <1>2, <1>3, <1>5, <1>6, <1>7, <1>8, <1>9 DEF KeysFit
<1>11. keys'.read < Len(keys'.answer)
  BY <1>3, <1>6
<1> QED BY <1>2, <1>5, <1>10, <1>11 DEF LegalInv

\* The echo is off while a PIN is typed, however far ahead of the program the person is.
LEMMA TypeLegal ==
  ASSUME BaseInv, LegalInv, Type
  PROVE  LegalInv'
<1>1. /\ keys.typed < Len(keys.answer) /\ ~tty.eof /\ UNCHANGED <<ui, tty, running, legal>>
      /\ keys' = [keys EXCEPT !.typed = @ + 1]
      /\ exposed' = (exposed \/ (keys.pin /\ tty.echo /\ keys.answer[keys.typed + 1] = "char"))
  BY DEF Type
<1>2. keys \in KeyStates /\ keys.read <= keys.typed /\ keys.read \in Nat /\ keys.typed \in Nat
      /\ Len(keys.answer) \in Nat
  BY DEF BaseInv, KeyStates
<1>3. /\ keys'.answer = keys.answer /\ keys'.read = keys.read /\ keys'.stale = keys.stale
      /\ keys'.pin = keys.pin
  BY <1>1, <1>2 DEF KeyStates
<1> SUFFICES ASSUME legal' PROVE LegalInv'
  BY DEF LegalInv
<1>4. legal /\ keys.read < Len(keys.answer) /\ KeysFit /\ ~exposed
  BY <1>1, <1>2 DEF LegalInv
<1>5. Prompt' = Prompt
  BY <1>1 DEF Prompt
<1>6. KeysFit'
  BY <1>1, <1>3, <1>4, <1>5 DEF KeysFit
<1>7. ~(keys.pin /\ tty.echo /\ keys.answer[keys.typed + 1] = "char")
  <2>1. CASE keys.stale
    <3>1. keys.read + 1 = Len(keys.answer) /\ keys.answer[Len(keys.answer)] = "enter"
      BY <1>4, <2>1 DEF KeysFit
    <3>2. keys.typed + 1 = Len(keys.answer)
      BY <1>1, <1>2, <3>1
    <3> QED BY <3>1, <3>2
  <2>2. CASE ~keys.stale
    <3>1. keys.pin => Prompt.read = "pin"
      BY <1>4, <2>2 DEF KeysFit
    <3> QED BY <3>1, PromptRead DEF BaseInv, EchoInv
  <2> QED BY <2>1, <2>2
<1> QED BY <1>1, <1>3, <1>4, <1>6, <1>7 DEF LegalInv

\* The end of the input keeps it.
LEMMA HangUpLegal ==
  ASSUME BaseInv, LegalInv, HangUp
  PROVE  LegalInv'
<1>1. /\ keys'.answer = SubSeq(keys.answer, 1, keys.typed) /\ Len(keys'.answer) = keys.typed
      /\ keys'.read = keys.read /\ keys'.stale = keys.stale /\ keys'.pin = keys.pin
  BY HangUpBase
<1>2. UNCHANGED <<ui, running, legal, exposed>> /\ tty'.eof
  BY DEF HangUp, BaseInv, Ttys
<1>3. Prompt' = Prompt
  BY <1>2 DEF Prompt
<1> DEFINE s == keys.answer
           t == keys'.answer
           r == keys.read
           k == keys.typed
<1>4. s \in Seq(KeySet) /\ r \in Nat /\ k \in Nat /\ Len(s) \in Nat /\ r <= k /\ k <= Len(s)
      /\ Len(t) = k
  BY <1>1 DEF BaseInv, KeyStates
<1>5. \A j \in 1 .. k : t[j] = s[j]
  BY <1>1, <1>4
<1>6. k = Len(s) => t = s
  BY <1>1, <1>4
<1> SUFFICES ASSUME legal', r < k PROVE KeysFit'
  BY <1>1, <1>2 DEF LegalInv, KeysFit
<1>7. legal /\ KeysFit /\ r < Len(s)
  BY <1>2, <1>4 DEF LegalInv
<1> HIDE DEF s, t, r, k
<1>8. EnterLast(t)
  <2>1. EnterLast(s)
    BY <1>7 DEF KeysFit, s, r
  <2> QED BY <1>4, <1>5, <2>1 DEF EnterLast
<1>9. ASSUME PinRoom(s, Prompt.max)
      PROVE  PinRoom(t, Prompt.max)
  <2>1. \A j \in 0 .. k : Held(t, j) = Held(s, j)
    <3> SUFFICES ASSUME NEW j \in 0 .. k PROVE Held(t, j) = Held(s, j)
      OBVIOUS
    <3>1. j \in Nat /\ \A i \in 1 .. j : t[i] = s[i]
      BY <1>4, <1>5
    <3> QED BY <3>1, SamePrefix
  <2>2. ASSUME NEW j \in 1 .. Len(t), t[j] # "enter" PROVE Held(t, j) <= PinLen
    <3>1. j \in 0 .. k /\ j \in 1 .. Len(s) /\ s[j] # "enter"
      BY <1>4, <1>5, <2>2
    <3> QED BY <1>9, <2>1, <3>1 DEF PinRoom
  <2>3. ASSUME NEW j \in 0 .. Len(t) - 1, t[j + 1] # "enter" PROVE Held(t, j) < Prompt.max - 1
    <3>1. j \in 0 .. k /\ j \in 0 .. Len(s) - 1 /\ j + 1 \in 1 .. k
      BY <1>4
    <3>2. s[j + 1] # "enter"
      BY <1>5, <2>3, <3>1
    <3> QED BY <1>9, <2>1, <3>1, <3>2 DEF PinRoom
  <2> QED BY <2>2, <2>3 DEF PinRoom
<1>10. ASSUME Track(s, r, ui.n)
       PROVE  Track(t, r, ui.n)
  <2>1. \A i \in 1 .. r : t[i] = s[i]
    BY <1>4, <1>5
  <2> QED BY <1>4, <1>10, <2>1, SamePrefix
<1>11. CASE keys.stale
  <2>1. ui.op = "pause" /\ r + 1 = Len(s) /\ s[Len(s)] = "enter"
    BY <1>7, <1>11 DEF KeysFit, s, r
  <2>2. t = s
    BY <1>4, <1>6, <2>1
  <2>3. ui'.op = "pause" /\ r + 1 = Len(t) /\ t[Len(t)] = "enter"
    BY <1>2, <2>1, <2>2
  <2> QED BY <1>1, <1>2, <1>8, <1>11, <2>3 DEF KeysFit, t, r
<1>12. CASE ~keys.stale
  <2>1. /\ keys.pin = (Prompt.read = "pin")
        /\ Prompt.read = "pin" => PinRoom(s, Prompt.max) /\ Track(s, r, ui.n)
        /\ Prompt.read = "key" => s = <<"enter">>
    BY <1>7, <1>12 DEF KeysFit, s, r
  <2>2. Prompt.read = "key" => t = <<"enter">>
    <3>1. s = <<"enter">> => Len(s) = 1
      OBVIOUS
    <3>2. s = <<"enter">> => k = Len(s)
      BY <1>4, <3>1
    <3> QED BY <1>6, <2>1, <3>2
  <2>3. ui'.n = ui.n
    BY <1>2
  <2> QED BY <1>1, <1>2, <1>3, <1>8, <1>9, <1>10, <1>12, <2>1, <2>2, <2>3 DEF KeysFit, t, r
<1> QED BY <1>11, <1>12

\* An ENTER ends every prompt; the only other key that does fills a PIN's buffer, and then either
\* nothing is left or, of the administrator's PIN, the ENTER.
LEMMA ReadKeyLegal ==
  ASSUME BaseInv, LegalInv, ReadKey
  PROVE  LegalInv'
<1> DEFINE c == NextKey
           m == Taken(NextKey)
           e == EndsAt(NextKey, m)
           k == keys.read + 1
           z == keys.stale \/ e
           s == keys.answer
<1>1. /\ keys.read < keys.typed
      /\ keys' = IF e /\ Len(Pending) = 1 THEN NoKeys ELSE [keys EXCEPT !.read = k, !.stale = z]
      /\ \/ e /\ Ends(m, c = "enter")
         \/ ~e /\ ui' = [ui EXCEPT !.n = m] /\ UNCHANGED <<tty, running>>
      /\ UNCHANGED <<legal, exposed>>
  BY DEF ReadKey
<1>2. /\ c \in KeySet /\ k \in Nat /\ k <= Len(s) /\ Len(s) \in Nat /\ keys \in KeyStates
      /\ c = s[k] /\ k - 1 = keys.read /\ keys.read \in Nat
      /\ Len(Pending) = Len(s) - keys.read
  BY <1>1, NextKeyOK, PendingLeft DEF BaseInv, NextKey
<1> SUFFICES ASSUME legal' PROVE LegalInv'
  BY DEF LegalInv
<1>3. legal /\ ~exposed' /\ KeysFit
  BY <1>1 DEF LegalInv
<1>4. keys.read < Len(s)
  BY <1>2
<1>5. /\ EnterLast(s)
      /\ ~keys.stale =>
           /\ keys.pin = (Prompt.read = "pin")
           /\ Prompt.read = "pin" => PinRoom(s, Prompt.max) /\ Track(s, keys.read, ui.n)
           /\ Prompt.read = "key" => s = <<"enter">>
      /\ keys.stale => ui.op = "pause" /\ k = Len(s) /\ s[Len(s)] = "enter"
      /\ ~tty.eof => s[Len(s)] = "enter"
  BY <1>3, <1>4 DEF KeysFit
<1>6. c = "enter" => k = Len(s)
  <2>1. \A j \in 1 .. Len(s) - 1 : s[j] # "enter"
    BY <1>5 DEF EnterLast
  <2> HIDE DEF c, k, s
  <2>2. ~(k \in 1 .. Len(s) - 1) => k = Len(s)
    BY <1>2
  <2> QED BY <1>2, <2>1, <2>2
<1>7. ui.n \in Nat /\ UiOK(ui)
  BY DEF BaseInv, UiOK, Uis
<1>8. m \in Nat /\ (~e => c # "enter" /\ Prompt.read # "key")
  BY <1>2, <1>7, TakenFits
<1>9. e => \/ Prompt.read = "key"
           \/ Prompt.read # "key" /\ c = "enter"
           \/ /\ Prompt.read = "pin" /\ c = "char" /\ m = PinAfter(ui.n, c)
              /\ m = Prompt.max - 1
  BY <1>2, <1>7, EndsAtMeans
<1>10. Prompt.read = "pin" /\ c # "enter" => m = PinAfter(ui.n, c)
  BY DEF Taken
<1>11. e => Fresh(ui') /\ tty'.eof = tty.eof /\ AfterPrompt(m)
  BY <1>1, EndsKeeps DEF Ends
<1> HIDE DEF c, m, e, k, z, s
\* The buffer after the key.
<1>12. Prompt.read = "pin" /\ ~keys.stale /\ c # "enter" => Track(s, k, m)
  <2> SUFFICES ASSUME Prompt.read = "pin", ~keys.stale, c # "enter" PROVE Track(s, k, m)
    OBVIOUS
  <2> DEFINE r == keys.read
  <2>1. r \in Nat /\ k = r + 1 /\ Track(s, r, ui.n) /\ m = PinAfter(ui.n, s[r + 1])
    BY <1>2, <1>5, <1>10
  <2>2. s[r + 1] \in {"char", "erase"}
    BY <1>2, <2>1 DEF KeySet
  <2> HIDE DEF r
  <2>3. Track(s, r + 1, m)
    BY <1>7, <2>1, <2>2, TrackStep
  <2> QED BY <2>1, <2>3
<1>13. CASE e /\ k = Len(s)
  <2>1. keys' = NoKeys
    BY <1>1, <1>2, <1>13
  <2>2. ~(keys'.read < Len(keys'.answer)) /\ ui'.n = 0
    BY <1>11, <1>13, <2>1, NoKeysOK DEF Fresh
  <2> QED BY <1>3, <2>2 DEF LegalInv, KeysFit
<1>14. CASE ~(e /\ k = Len(s))
  <2>1. keys' = [keys EXCEPT !.read = k, !.stale = z]
    BY <1>1, <1>2, <1>14
  <2>2. keys'.answer = s /\ keys'.read = k /\ keys'.stale = z /\ keys'.pin = keys.pin
    BY <1>2, <2>1 DEF KeyStates, s
  <2>3. CASE e
    <3>1. k < Len(s) /\ c # "enter" /\ ~keys.stale
      BY <1>2, <1>5, <1>6, <1>14, <2>3
    <3>2. Prompt.read # "key"
      <4>1. s = <<"enter">> => Len(s) = 1
        OBVIOUS
      <4> QED BY <1>2, <1>5, <3>1, <4>1
    <3>3. Prompt.read = "pin" /\ m = Prompt.max - 1
      BY <1>9, <2>3, <3>1, <3>2
    <3>4. PinRoom(s, Prompt.max) /\ Held(s, k) = m
      BY <1>2, <1>5, <1>12, <3>1, <3>3, TrackHeld
    <3>5. Prompt \in Kinds
      BY PromptRead
    <3>6. Prompt.max \in {PinLen + 1, PinLen + 2} /\ Prompt.max \in Nat /\ PinLen \in Nat
          /\ (Prompt.max = PinLen + 1 => Prompt = AdminPin)
      BY <3>3, <3>5, KindFacts, SizesAssumption
    <3>7. m <= PinLen
      <4>1. k \in 1 .. Len(s) /\ s[k] # "enter"
        BY <1>2, <3>1
      <4> QED BY <3>4, <4>1 DEF PinRoom
    <3>8. Prompt = AdminPin
      BY <3>3, <3>6, <3>7
    <3>9. ui'.op = "pause"
      BY <1>7, <1>11, <2>3, <3>8, AdminPinIsLast
    <3>10. k + 1 = Len(s) /\ s[Len(s)] = "enter"
      <4>1. k \in 0 .. Len(s) - 1 /\ ~(Held(s, k) < Prompt.max - 1)
        BY <1>2, <1>8, <3>1, <3>3, <3>4
      <4>2. s[k + 1] = "enter"
        BY <3>4, <4>1 DEF PinRoom
      <4>3. ~(k + 1 \in 1 .. Len(s) - 1)
        BY <1>5, <4>2 DEF EnterLast
      <4>4. k + 1 = Len(s)
        BY <1>2, <3>1, <4>3
      <4> QED BY <4>2, <4>4
    <3>11. z
      BY <2>3 DEF z
    <3> QED BY <1>2, <1>3, <1>5, <1>11, <2>2, <2>3, <3>1, <3>9, <3>10, <3>11 DEF LegalInv, KeysFit
  <2>4. CASE ~e
    <3>1. c # "enter" /\ Prompt.read # "key" /\ ui' = [ui EXCEPT !.n = m] /\ UNCHANGED <<tty, running>>
      BY <1>1, <1>8, <2>4
    <3>2. ~keys.stale
      BY <1>2, <1>5, <3>1
    <3>3. ~z
      BY <2>4, <3>2 DEF z
    <3>4. ui'.n = m /\ ui'.op = ui.op /\ ui'.step = ui.step
      BY <1>7, <3>1 DEF UiOK, Uis
    <3>5. Prompt' = Prompt
      BY <3>4 DEF Prompt
    <3>6. KeysFit'
      BY <1>5, <1>12, <2>2, <3>1, <3>2, <3>3, <3>4, <3>5 DEF KeysFit
    <3>7. ~tty.eof => k < Len(s)
      <4>1. ~tty.eof => k # Len(s)
        BY <1>2, <1>5, <3>1
      <4> QED BY <1>2, <4>1
    <3> QED BY <1>3, <2>2, <3>1, <3>6, <3>7 DEF LegalInv
  <2> QED BY <2>3, <2>4
<1> QED BY <1>13, <1>14

\* The end of the input at a prompt, an interrupt and a start keep it.
LEMMA OtherLegal ==
  ASSUME BaseInv, LegalInv, ReadEof \/ Interrupt \/ Start
  PROVE  LegalInv'
<1>1. keys' = NoKeys /\ UNCHANGED <<legal, exposed>>
  BY DEF ReadEof, Interrupt, Start
<1>2. ~(keys'.read < Len(keys'.answer))
  BY <1>1, NoKeysOK
<1>3. CASE ReadEof
  <2>1. ui'.n = 0
    BY <1>3, EndsKeeps DEF ReadEof, Fresh
  <2> QED BY <1>1, <1>2, <2>1 DEF LegalInv, KeysFit
<1>4. CASE Interrupt
  BY <1>1, <1>2, <1>4 DEF LegalInv, KeysFit, Interrupt
<1>5. CASE Start
  <2>1. ui'.n = 0
    BY <1>5, StartMenuOK DEF Start
  <2> QED BY <1>1, <1>2, <2>1 DEF LegalInv, KeysFit
<1> QED BY <1>3, <1>4, <1>5

\* Every step keeps it.
LEMMA NextLegal ==
  ASSUME BaseInv, LegalInv, [Next]_vars
  PROVE  LegalInv'
<1>1. CASE UNCHANGED vars
  <2>1. Prompt' = Prompt
    BY <1>1 DEF vars, Prompt
  <2> QED BY <1>1, <2>1 DEF vars, LegalInv, KeysFit
<1> QED BY <1>1, AnswerLegal, TypeLegal, HangUpLegal, ReadKeyLegal, OtherLegal DEF Next

\* It is true at first.
LEMMA InitLegal ==
  ASSUME Init
  PROVE  LegalInv
<1>1. ~(keys.read < Len(keys.answer))
  BY NoKeysOK DEF Init
<1>2. ui.n = 0 /\ ~exposed
  BY StartMenuOK DEF Init
<1> QED BY <1>1, <1>2 DEF LegalInv, KeysFit

\* As long as the answers fit, no character of a PIN is echoed, whichever of the
\* person and the program is the faster.
THEOREM PinIsMasked == Spec => []PinMasked
<1>1. Init => BaseInv /\ LegalInv
  BY InitBase, InitLegal
<1>2. BaseInv /\ LegalInv /\ [Next]_vars => (BaseInv /\ LegalInv)'
  BY NextBase, NextLegal
<1>3. BaseInv /\ LegalInv => PinMasked
  BY DEF LegalInv, PinMasked
<1> QED BY <1>1, <1>2, <1>3, PTL DEF Spec

\* As long as the answers fit, the only key a prompt is given that was typed for another is the ENTER
\* of the administrator's PIN, and it answers the pause.
THEOREM OnlyEnterLeft == Spec => []OnlyEnterIsLeftOver
<1>1. Init => BaseInv /\ LegalInv
  BY InitBase, InitLegal
<1>2. BaseInv /\ LegalInv /\ [Next]_vars => (BaseInv /\ LegalInv)'
  BY NextBase, NextLegal
<1>3. BaseInv /\ LegalInv => OnlyEnterIsLeftOver
  BY PendingLeft DEF LegalInv, KeysFit, OnlyEnterIsLeftOver
<1> QED BY <1>1, <1>2, <1>3, PTL DEF Spec

\* main.c:100 and 224, the part of EofEndsInMenu that speaks of single steps: at the end of the
\* input a menu is followed by menus, for no request is taken up without a choice.
THEOREM EofOffersMenusOnly == Spec => EofStaysInMenus
<1>1. Init => BaseInv
  BY InitBase
<1>2. BaseInv /\ [Next]_vars => BaseInv'
  BY NextBase
<1>3. BaseInv /\ [Next]_vars =>
        [tty.eof /\ InMenu /\ ui.n = 0 /\ Pending = <<>> /\ running' => ui'.op \in Menus]_vars
  <2> SUFFICES ASSUME BaseInv, [Next]_vars, tty.eof, InMenu, ui.n = 0, Pending = <<>>, running'
               PROVE  ui'.op \in Menus
    OBVIOUS
  <2>1. CASE ui' = ui
    BY <2>1 DEF InMenu
  <2>2. CASE ReadKey
    <3>1. ~(keys.read < Len(keys.answer))
      BY PendingLeft
    <3>2. keys.read < keys.typed /\ keys.typed <= Len(keys.answer)
      BY <2>2 DEF ReadKey, BaseInv
    <3>3. keys.read \in Nat /\ keys.typed \in Nat /\ Len(keys.answer) \in Nat
      BY <2>2, <3>2, NextKeyOK
    <3> QED BY <3>1, <3>2, <3>3
  <2>3. CASE ReadEof
    <3>1. AfterMenu(0)
      BY <2>3 DEF ReadEof, Ends, AfterPrompt
    <3>2. \/ ui' = At(ui.op, ui.op, "open")
          \/ ui' = At("main", "main", "open")
      BY <3>1 DEF AfterMenu, Chosen
    <3> QED BY <3>2, MenuOps DEF At, InMenu
  <2>4. CASE Interrupt
    BY <2>4 DEF Interrupt
  <2>5. CASE Start
    BY <2>5, MenuOps DEF Start, At
  <2>6. CASE Answer \/ Type \/ HangUp
    BY <2>6 DEF Answer, Type, HangUp, InMenu
  <2> QED BY <2>1, <2>2, <2>3, <2>4, <2>5, <2>6 DEF Next, vars
<1> QED BY <1>1, <1>2, <1>3, PTL DEF Spec, EofStaysInMenus
=============================================================================
