------------------------------ MODULE Terminal ------------------------------
(***************************************************************************)
(* The program at its terminal: the prompts of main.c and admin.c, in the    *)
(* order each handler asks them, and the three ways utils.c reads an answer. *)
(* The person answers the prompt on the screen key by key while the program  *)
(* reads, so keys a prompt does not take are left for the prompts after it.  *)
(*                                                                          *)
(*   ui       the request and its current prompt, the menu it came from,     *)
(*            what has become of the request, and the characters in buf      *)
(*   keys     the answer being typed, how much of it is typed and read, and  *)
(*            whether an earlier prompt was meant (stale) and it was a PIN   *)
(*   tty      the terminal's echo, the echo read_pin_hidden will restore,    *)
(*            and whether the input has ended                                *)
(*   running  whether the program runs                                      *)
(*   legal    history: every answer fitted the prompt it was typed at        *)
(*   exposed  history: a character of a PIN was echoed                       *)
(*                                                                          *)
(* What an answer says is left open, but not whether it is empty: whatever a *)
(* handler can make of it, it may.  All line buffers are of one length.       *)
(***************************************************************************)
EXTENDS Integers, Sequences, FiniteSets, FiniteSetsExt

CONSTANTS PinLen,   \* PIN_LEN
          LineMax,  \* the size of a line buffer
          Longest   \* bound: keys of an answer before its ENTER

ASSUME SizesAssumption == PinLen \in Nat \ {0, 1} /\ LineMax \in Nat \ {0, 1} /\ Longest \in Nat

VARIABLES ui, keys, tty, running, legal, exposed
vars == <<ui, keys, tty, running, legal, exposed>>

-----------------------------------------------------------------------------
(* The prompts: how one is read, into how many bytes, and what the handler    *)
(* does with the answer: tests it at once ("now"; an empty one never passes), *)
(* tests it later ("later"; an empty one fails then), or takes any ("any").   *)

Line     == [read |-> "line", max |-> LineMax, test |-> "now"]
AnyLine  == [Line EXCEPT !.test = "any"]
Pin      == [read |-> "pin", max |-> PinLen + 2, test |-> "now"]
LaterPin == [Pin EXCEPT !.test = "later"]
AdminPin == [Pin EXCEPT !.max = PinLen + 1]
Pause    == [read |-> "key", max |-> 2, test |-> "any"]

LoginPrompts     == <<Line, Pin>>                  \* id, PIN
RegisterPrompts  ==  \* name, phone, mail, address, type, deposit, PIN twice, y/N
  <<Line, Line, Line, AnyLine, AnyLine, Line, Pin, Pin, Line>>
ExitPrompts      == <<Line>>                       \* y/N
DepositPrompts   == <<Line, AnyLine, Line>>        \* amount, note, y/N
WithdrawPrompts  == <<Line, Pin, AnyLine>>         \* amount, PIN, note
TransferPrompts  == <<Line, Line, Pin, Line>>      \* recipient, amount, PIN, y/N
ChangePinPrompts == <<LaterPin, LaterPin, Pin>>    \* old, new, new again
SuspendPrompts   == <<Line, Line, AdminPin>>       \* id, y/N, PIN
UnfreezePrompts  == <<Line>>                       \* id
ResetPinPrompts  == <<Line, AdminPin>>             \* id, new PIN
InterestPrompts  == <<Line>>                       \* y/N
DetailPrompts    == <<Line>>                       \* id
SearchPrompts    == <<AnyLine, AnyLine>>           \* by what, for what
AuditPrompts     == <<AnyLine>>                    \* how many lines

Menus == {"main", "user", "admin"}

Offers(menu) ==
  CASE menu = "main"  -> {"login", "register", "exit"}
    [] menu = "user"  -> {"deposit", "withdraw", "transfer", "changepin"}
    [] menu = "admin" -> {"suspend", "unfreeze", "resetpin", "interest",
                          "detail", "search", "audit"}

Script(op) ==
  CASE op \in Menus     -> <<Line>>
    [] op = "pause"     -> <<Pause>>
    [] op = "login"     -> LoginPrompts
    [] op = "register"  -> RegisterPrompts
    [] op = "exit"      -> ExitPrompts
    [] op = "deposit"   -> DepositPrompts
    [] op = "withdraw"  -> WithdrawPrompts
    [] op = "transfer"  -> TransferPrompts
    [] op = "changepin" -> ChangePinPrompts
    [] op = "suspend"   -> SuspendPrompts
    [] op = "unfreeze"  -> UnfreezePrompts
    [] op = "resetpin"  -> ResetPinPrompts
    [] op = "interest"  -> InterestPrompts
    [] op = "detail"    -> DetailPrompts
    [] op = "search"    -> SearchPrompts
    [] op = "audit"     -> AuditPrompts

Prompt == Script(ui.op)[ui.step]

InMenu == ui.op \in Menus

-----------------------------------------------------------------------------
(* The person's answers: characters and erasures, and ENTER at the end. *)

Characters(s, k) == Cardinality({j \in 1 .. k : s[j] = "char"})
Erasures(s, k)   == Cardinality({j \in 1 .. k : s[j] = "erase"})

\* How many characters are left of the first k keys, when an erasure takes one
\* back unless there is none.
Balance(s, k) == Characters(s, k) - Erasures(s, k)
Held(s, k)    == Balance(s, k) - Min({Balance(s, j) : j \in 0 .. k})

Strings(K) == UNION {[1 .. m -> K] : m \in 0 .. Longest}

\* The terminal edits a line itself; at a PIN prompt it is set not to.
Answers(p) ==
  {Append(s, "enter") : s \in Strings(IF p.read = "pin" THEN {"char", "erase"} ELSE {"char"})}

\* A PIN fits that is not too long for the format, and does not fill the buffer
\* before its last character; to a pause ENTER alone fits.
Fits(s, p) ==
  CASE p.read = "line" -> TRUE
    [] p.read = "key"  -> s = <<"enter">>
    [] p.read = "pin"  -> /\ \A k \in 0 .. Len(s) - 1 : Held(s, k) <= PinLen
                          /\ \A k \in 0 .. Len(s) - 2 : Held(s, k) < p.max - 1

NoKeys == [answer |-> <<>>, typed |-> 0, read |-> 0, stale |-> FALSE, pin |-> FALSE]

Pending == SubSeq(keys.answer, keys.read + 1, Len(keys.answer))

TypeOK ==
  /\ ui.op \in Menus \cup {"pause"} \cup UNION {Offers(m) : m \in Menus}
  /\ ui.step \in DOMAIN Script(ui.op)
  /\ ui.menu \in Menus
  /\ ui.outcome \in {"open", "refused", "done"}
  /\ ui.n \in 0 .. Prompt.max - 1
  /\ keys.answer \in Seq({"char", "erase", "enter"})
  /\ 0 <= keys.read /\ keys.read <= keys.typed /\ keys.typed <= Len(keys.answer)
  /\ {keys.stale, keys.pin, tty.echo, tty.saved, tty.eof, running, legal, exposed} \subseteq BOOLEAN

-----------------------------------------------------------------------------
\* The request op comes from, or returns to, a menu; its prompt is the first.
At(op, menu, outcome) == [op |-> op, step |-> 1, menu |-> menu, outcome |-> outcome, n |-> 0]

Init ==
  /\ ui = At("main", "main", "open")
  /\ keys = NoKeys
  /\ tty = [echo |-> TRUE, saved |-> TRUE, eof |-> FALSE]
  /\ running = TRUE
  /\ legal = TRUE /\ exposed = FALSE

\* Everything typed has been read: the person answers the prompt on the screen.
Answer ==
  /\ running /\ ~tty.eof
  /\ Pending = <<>>
  /\ \E s \in Answers(Prompt) :
       /\ keys' = [answer |-> s, typed |-> 0, read |-> 0, stale |-> FALSE,
                   pin |-> Prompt.read = "pin"]
       /\ legal' = (legal /\ Fits(s, Prompt))
  /\ UNCHANGED <<ui, tty, running, exposed>>

Type ==
  /\ running /\ ~tty.eof
  /\ keys.typed < Len(keys.answer)
  /\ keys' = [keys EXCEPT !.typed = @ + 1]
  /\ exposed' = (exposed \/ (keys.pin /\ tty.echo /\ keys.answer[keys.typed + 1] = "char"))
  /\ UNCHANGED <<ui, tty, running, legal>>

\* The input ends.
HangUp ==
  /\ running /\ ~tty.eof
  /\ tty' = [tty EXCEPT !.eof = TRUE]
  /\ keys' = [keys EXCEPT !.answer = SubSeq(@, 1, keys.typed)]
  /\ UNCHANGED <<ui, running, legal, exposed>>

-----------------------------------------------------------------------------
(* What follows a prompt that has read m characters. *)

\* read_int: an empty line is no choice.
\* Mutant: it is taken for a number.
Chosen_Always(m) == TRUE

Chosen(m) == m > 0

\* A menu: an invalid choice asks again, and a session of the administrator may
\* have expired; so may a user's, if the menu has been waiting for an answer.
AfterMenu(m) ==
  \/ ui' = At(ui.op, ui.op, "open")
  \/ /\ ui.op = "admin" \/ (ui.op = "user" /\ ~tty.eof)
     /\ ui' = At("main", "main", "open")
  \/ /\ Chosen(m)
     /\ \/ \E op \in Offers(ui.op) : ui' = At(op, ui.op, "open")
        \/ ui.op # "main" /\ ui' = At("pause", ui.op, "done")     \* a screen without prompts
        \/ ui.op = "user" /\ ui' = At("pause", "main", "done")    \* logout
        \/ ui.op = "admin" /\ ui' = At("main", "main", "open")

AfterPause ==
  \/ ui' = At(ui.menu, ui.menu, "open")
  \/ ui.menu # "main" /\ ui' = At("main", "main", "open")          \* expired

\* The handler returns early.
Refused ==
  ui' = IF ui.op = "exit" THEN At("main", "main", "open") ELSE At("pause", ui.menu, "refused")

\* Mutant: an empty confirmation counts as a yes.
Passes_Empty(m) == TRUE

Passes(m) == m > 0 \/ Prompt.test # "now"

GoesOn(m) ==
  /\ ui.step < Len(Script(ui.op))
  /\ Passes(m)
  /\ ui' = [ui EXCEPT !.step = @ + 1, !.n = 0,
                      !.outcome = IF m = 0 /\ Prompt.test = "later" THEN "refused" ELSE @]

Done(m) ==
  /\ ui.step = Len(Script(ui.op))
  /\ Passes(m)
  /\ ui.outcome = "open"
  /\ CASE ui.op = "login" -> \E menu \in {"user", "admin"} : ui' = At(menu, menu, "open")
       [] ui.op = "exit"  -> ui' = At("main", "main", "done")
       [] OTHER           -> ui' = At("pause", ui.menu, "done")

AfterPrompt(m) ==
  IF InMenu THEN AfterMenu(m)
  ELSE IF ui.op = "pause" THEN AfterPause
  ELSE \/ (Prompt.test = "now" \/ ui.step = Len(Script(ui.op))) /\ Refused
       \/ GoesOn(m)
       \/ Done(m)

\* read_pin_hidden sets the terminal when it begins and sets it back at its end.
\* Mutant: it sets the echo back only when an ENTER ended the PIN.
Restored_OnEnter(enter) == IF enter THEN tty.saved ELSE tty.echo

Restored(enter) == tty.saved

\* Mutant: the terminal is left as it is.
Echoes_Always(echo, p) == echo

Echoes(echo, p) == echo /\ p.read # "pin"

Ends(m, enter) ==
  /\ AfterPrompt(m)
  /\ running' = ~(ui.op = "exit" /\ ui'.outcome = "done")
  /\ LET echo == IF Prompt.read = "pin" THEN Restored(enter) ELSE tty.echo
         next == Script(ui'.op)[ui'.step]
     IN  tty' = [tty EXCEPT !.saved = IF next.read = "pin" THEN echo ELSE @,
                            !.echo = Echoes(echo, next)]

-----------------------------------------------------------------------------
(* The program reads. *)

NextKey == keys.answer[keys.read + 1]

\* safe_read_line: the rest of a line that fills the buffer is read and dropped.
\* Mutant: an off-by-one, so never.
Drops_Never(m) == m = LineMax

Drops(m) == m = LineMax - 1

\* read_pin_hidden: one character more or less.
\* Mutant: an erasure is counted down without looking.
PinAfter_Unchecked(m, c) == IF c = "erase" THEN m - 1 ELSE m + 1

PinAfter(m, c) == IF c = "erase" THEN IF m > 0 THEN m - 1 ELSE 0 ELSE m + 1

\* How many characters the buffer holds after the key c, and whether the prompt
\* ends with it.
Taken(c) ==
  IF c = "enter" /\ Prompt.read # "key" THEN ui.n
  ELSE CASE Prompt.read = "line" -> IF ui.n < LineMax - 1 THEN ui.n + 1 ELSE ui.n
         [] Prompt.read = "pin"  -> PinAfter(ui.n, c)
         [] Prompt.read = "key"  -> 1

EndsAt(c, m) ==
  \/ c = "enter"
  \/ m = Prompt.max - 1 /\ (Prompt.read = "line" => ~Drops(m))

ReadKey ==
  /\ running
  /\ keys.read < keys.typed
  /\ LET m == Taken(NextKey)
         e == EndsAt(NextKey, m)
     IN  /\ keys' = IF e /\ Len(Pending) = 1 THEN NoKeys
                    ELSE [keys EXCEPT !.read = @ + 1, !.stale = @ \/ e]
         /\ \/ e /\ Ends(m, NextKey = "enter")
            \/ ~e /\ ui' = [ui EXCEPT !.n = m] /\ UNCHANGED <<tty, running>>
  /\ UNCHANGED <<legal, exposed>>

\* fgets and getchar at the end of the input.
ReadEof ==
  /\ running
  /\ tty.eof
  /\ keys.read = keys.typed
  /\ Ends(ui.n, FALSE)
  /\ keys' = NoKeys
  /\ UNCHANGED <<legal, exposed>>

\* handle_signal, for the terminal's interrupt key: the terminal drops what was
\* not read, and the program exits wherever it is.
Interrupt ==
  /\ running
  /\ running' = FALSE
  /\ keys' = NoKeys
  /\ UNCHANGED <<ui, tty, legal, exposed>>

\* The program is run again; the shell may have set the terminal right.
Start ==
  /\ ~running
  /\ running' = TRUE
  /\ ui' = At("main", "main", "open")
  /\ keys' = NoKeys
  /\ \E echo \in {tty.echo, TRUE} : tty' = [echo |-> echo, saved |-> echo, eof |-> FALSE]
  /\ UNCHANGED <<legal, exposed>>

Next == Answer \/ Type \/ HangUp \/ ReadKey \/ ReadEof \/ Interrupt \/ Start

\* The program goes on reading as long as there is something to read.
Spec == Init /\ [][Next]_vars /\ WF_vars(ReadKey \/ ReadEof)

-----------------------------------------------------------------------------
(* Properties *)

\* As long as the answers fit, no prompt reads a key that was typed for another:
\* safe_read_line drops the end of a line of any length (utils.c:107), and a PIN
\* ends at its ENTER; but a full-length PIN fills the administrator's smaller
\* buffers (admin.c:223, 298, 345), and its ENTER then answers the pause.
OnlyEnterIsLeftOver ==
  legal /\ keys.stale /\ Pending # <<>> => ui.op = "pause" /\ Pending = <<"enter">>

\* README:246, "Echo suppression for secure hidden PIN entry": whichever of the
\* person and the program is faster, no character of a PIN that fits is echoed.
PinMasked == legal => ~exposed

\* The echo is back after every PIN, however it ended: ENTER, a full buffer or the
\* end of the input; only a program that was started without echo, after a
\* signal had ended the last one at its PIN prompt, goes on without.
EchoComesBack == running /\ ~tty.echo => Prompt.read = "pin" \/ ~tty.saved

\* Without an answer no menu takes up a request.
EofStaysInMenus ==
  [][tty.eof /\ InMenu /\ ui.n = 0 /\ Pending = <<>> /\ running' => ui'.op \in Menus]_vars

\* At the end of the input (main.c:100, 224) every request comes to its end and the
\* program to a menu, which it then shows for ever without taking up another one.
EofEndsInMenu ==
  /\ (tty.eof /\ running) ~> (InMenu \/ ~running)
  /\ EofStaysInMenus

\* An answer that never came confirms nothing: at the end of the input a request is
\* carried out only if it shows something, or is a withdrawal, whose PIN was given
\* and whose note may be empty (main.c:509).
EofConfirmsNothing ==
  [][tty.eof /\ ui.n = 0 /\ ui.outcome = "open" /\ ui'.outcome = "done" =>
       ui.op \in {"withdraw", "search", "audit"}]_vars
=============================================================================
