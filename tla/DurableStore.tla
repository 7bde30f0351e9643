---------------------------- MODULE DurableStore ----------------------------
(***************************************************************************)
(* What database.c promises the rest of the program: while the program runs  *)
(* it changes a set of accounts; a save makes the whole set durable, at once *)
(* or not at all; a stop, clean or not, loses what was not saved; the next   *)
(* start finds what was saved, except what the disk has lost in between.     *)
(* When the disk fails unnoticed, trouble says at what: a load or a save     *)
(* loses accounts only then, and never makes up any.                         *)
(***************************************************************************)
CONSTANT Record

VARIABLES up, current, saved, trouble
vars == <<up, current, saved, trouble>>

TypeOK ==
  /\ up \in BOOLEAN
  /\ current \subseteq Record
  /\ saved \subseteq Record
  /\ trouble \in {"none", "load", "save"}

Init ==
  /\ up = FALSE
  /\ current = {}
  /\ saved = {}
  /\ trouble = "none"

Start ==
  /\ ~up
  /\ up' = TRUE
  /\ \/ trouble' = "none" /\ current' = saved
     \/ trouble' = "load" /\ current' \subseteq saved
  /\ UNCHANGED saved

Change ==
  /\ up
  /\ current' \subseteq Record
  /\ UNCHANGED <<up, saved, trouble>>

\* A save is under way: what went wrong before is over, or the disk fails now.
Prepare ==
  /\ up
  /\ trouble' \in {"none", "save"}
  /\ UNCHANGED <<up, current, saved>>

Save ==
  /\ up
  /\ \/ saved' = current
     \/ trouble = "save" /\ saved' \subseteq current
  /\ up' \in BOOLEAN
  /\ current' = IF up' THEN current ELSE {}
  /\ trouble' = "none"

Stop ==
  /\ up
  /\ up' = FALSE
  /\ current' = {}
  /\ trouble' = "none"
  /\ UNCHANGED saved

Decay ==
  /\ ~up
  /\ saved' \subseteq saved
  /\ UNCHANGED <<up, current, trouble>>

Next == Start \/ Change \/ Prepare \/ Save \/ Stop \/ Decay

Spec == Init /\ [][Next]_vars
=============================================================================
